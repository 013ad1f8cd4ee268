-------------------------------- MODULE Bulkhead --------------------------------
(***************************************************************************)
(* Bulkhead of middleware/resilience/bulkhead.py, called by threads.  Its  *)
(* semaphore is threading's, which is CPython's: a counter and a condition *)
(* with a list of waiters, under a lock.  release() takes the first waiter *)
(* off the list, its time up or not; a thread that comes before this one   *)
(* has the lock again may take the permit, so a waiter may have to wait    *)
(* anew, and is refused if its time is up.                                 *)
(***************************************************************************)
EXTENDS ClientThreads

CONSTANTS
    MaxConcurrent,  \* max_concurrent
    HasTimeout      \* is acquire_timeout given?

ASSUME BulkheadAssumption == MaxConcurrent \in Nat \ {0} /\ HasTimeout \in BOOLEAN

VARIABLES
    value,      \* the semaphore's counter
    listed,     \* its condition's waiters
    late        \* is a waiting thread's time up?

bulkheadVars == <<value, listed, late>>

Listed == {listed[i] : i \in DOMAIN listed}

BulkheadInit ==
    /\ value = MaxConcurrent
    /\ listed = <<>>
    /\ late = [t \in Threads |-> FALSE]

(* The list without a thread, that may not be on it.                       *)
Unlisted(t) ==
    IF t \in Listed
    THEN RemoveAt(listed, CHOOSE i \in DOMAIN listed : listed[i] = t)
    ELSE listed

(* acquire(), whether or not anybody has been waiting.                     *)
Acquire(t) ==
    /\ pc[t] = "acquiring"
    /\ value > 0
    /\ value' = value - 1
    /\ Goto(t, "calling")
    /\ UNCHANGED <<listed, late>>

(* With a timeout of 0 too the thread waits for a moment.                  *)
Wait(t) ==
    /\ pc[t] = "acquiring"
    /\ value = 0
    /\ listed' = Append(listed, t)
    /\ Goto(t, "waiting")
    /\ UNCHANGED <<value, late>>

(* Faulty variant: acquire() is called without the timeout.                *)
Expire_Never(t) == FALSE

Expire(t) ==
    /\ HasTimeout
    /\ pc[t] = "waiting"
    /\ ~late[t]
    /\ late' = [late EXCEPT ![t] = TRUE]
    /\ UNCHANGED <<pc, value, listed>>

(* The thread has been taken off the list or its time is up: it has the    *)
(* lock again.                                                             *)
Runs(t) == pc[t] = "waiting" /\ (late[t] \/ t \notin Listed)

EndWait(t) ==
    /\ listed' = Unlisted(t)
    /\ late' = [late EXCEPT ![t] = FALSE]

(* The permit is there: it is taken, if late.                              *)
Take(t) ==
    /\ Runs(t)
    /\ value > 0
    /\ value' = value - 1
    /\ EndWait(t)
    /\ Goto(t, "calling")

(* Somebody was faster: the rest of the time is spent waiting ...          *)
WaitAgain(t) ==
    /\ Runs(t)
    /\ value = 0
    /\ ~late[t]
    /\ listed' = Append(listed, t)
    /\ UNCHANGED <<pc, value, late>>

(* Faulty variant: whoever is late is refused, permit or not.              *)
Refuse_WhenLate(t) ==
    /\ Runs(t)
    /\ late[t]
    /\ EndWait(t)
    /\ Goto(t, "idle")
    /\ UNCHANGED value

(* Faulty variant: the finally clause releases what was not acquired.      *)
Refuse_Releases(t) ==
    /\ Runs(t)
    /\ value = 0
    /\ late[t]
    /\ value' = value + 1
    /\ EndWait(t)
    /\ Goto(t, "idle")

(* ... or there is none: BulkheadFullError.                                *)
Refuse(t) ==
    /\ Runs(t)
    /\ value = 0
    /\ late[t]
    /\ EndWait(t)
    /\ Goto(t, "idle")
    /\ UNCHANGED value

(* Faulty variant: nobody is notified.                                     *)
Release_Silent(t, place) ==
    /\ pc[t] = "calling"
    /\ value' = value + 1
    /\ Goto(t, place)
    /\ UNCHANGED <<listed, late>>

(* The finally clause, on the way to a place: release() and its notify().  *)
Release(t, place) ==
    /\ pc[t] = "calling"
    /\ value' = value + 1
    /\ listed' = IF listed = <<>> THEN <<>> ELSE Tail(listed)
    /\ Goto(t, place)
    /\ UNCHANGED late

BulkheadStep(t) == Acquire(t) \/ Wait(t) \/ Take(t) \/ WaitAgain(t)

-----------------------------------------------------------------------------
BulkheadType ==
    /\ value \in 0 .. MaxConcurrent
    /\ listed \in Seq(Threads) /\ IsInjective(listed)
    /\ Listed \subseteq At("waiting")
    /\ late \in [Threads -> BOOLEAN]
    /\ \A t \in Threads : late[t] => pc[t] = "waiting"

(* A permit is in the counter or with a thread that calls.  While anybody  *)
(* is on the list, every permit in the counter has a thread under way to   *)
(* it: a notification is not lost on a waiter whose time is up.            *)
PermitsInUse ==
    /\ value + Cardinality(At("calling")) = MaxConcurrent
    /\ listed # <<>> => value <= Cardinality(At("waiting") \ Listed)

=============================================================================
