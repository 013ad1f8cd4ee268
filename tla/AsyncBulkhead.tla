----------------------------- MODULE AsyncBulkhead -----------------------------
(***************************************************************************)
(* AsyncBulkhead of middleware/resilience/bulkhead.py and the event-loop   *)
(* guard it begins with, called by tasks.                                  *)
(*                                                                         *)
(* A call awaits twice: the semaphore, if it is locked, and the rest of    *)
(* the chain.  What is between two awaits is one action, but for the guard, *)
(* which loops in several threads pass at once.  The semaphore is          *)
(* asyncio's, as CPython implements it: a waiter has a future, release()   *)
(* grants the first future that is neither granted nor cancelled, and only *)
(* when its task runs again does it learn what became of it.  In between,  *)
(* the acquire timeout may expire and the task may be cancelled.           *)
(***************************************************************************)
EXTENDS Integers, FiniteSets, SequencesExt

CONSTANTS
    Tasks,
    LoopOf,         \* the event loop of each task
    MaxConcurrent,  \* max_concurrent
    HasTimeout      \* is acquire_timeout given?

NoLoop == "None"

ASSUME BulkheadAssumption ==
    /\ IsFiniteSet(Tasks)
    /\ \A t \in Tasks : LoopOf[t] # NoLoop
    /\ MaxConcurrent \in Nat \ {0}
    /\ HasTimeout \in BOOLEAN

VARIABLES
    loop,       \* _loop: the loop this bulkhead is bound to, or NoLoop
    value,      \* the semaphore's counter
    waiters,    \* its queue
    place,      \* where each task is: see Places
    why,        \* what has told a waiting task to stop waiting
    ahead       \* the tasks the loop runs before a waiting task's timer

vars == <<loop, value, waiters, place, why, ahead>>

(* A task in the queue is waiting, granted or dropped: its future pending, *)
(* set or cancelled.  One that is binding has read _loop as None, but has  *)
(* not got the lock yet.                                                   *)
Places == {"idle", "binding", "waiting", "granted", "dropped", "calling"}

(* Not past the guard.                                                     *)
Outside == {"idle", "binding"}

Causes == {"timeout", "cancellation"}

Init ==
    /\ loop = NoLoop
    /\ value = MaxConcurrent
    /\ waiters = <<>>
    /\ place = [t \in Tasks |-> "idle"]
    /\ why = [t \in Tasks |-> {}]
    /\ ahead = [t \in Tasks |-> {}]

Queued == {waiters[i] : i \in DOMAIN waiters}

(* Faulty variant: the counter may go below zero.                          *)
Locked_QueueOnly == \E t \in Queued : place[t] # "dropped"

(* Semaphore.locked()                                                      *)
Locked == value = 0 \/ \E t \in Queued : place[t] # "dropped"

Before(t, u) == \E i, j \in DOMAIN waiters : i < j /\ waiters[i] = t /\ waiters[j] = u

(* The first n waiters whose futures are pending.                          *)
Woken(n) ==
    LET pending == {t \in Tasks : place[t] = "waiting"}
    IN {t \in pending : Cardinality({u \in pending : Before(u, t)}) < n}

(* Faulty variant: a permit that is given back wakes nobody.               *)
Settle_WakesNobody(t, goes, permits, n) ==
    /\ value' = permits
    /\ place' = [place EXCEPT ![t] = goes]

(* Task t goes where it goes; of the permits at hand the first n waiters   *)
(* get one each (_wake_up_next) and the counter keeps the rest.            *)
Settle(t, goes, permits, n) ==
    LET woken == Woken(n)
    IN /\ value' = permits - Cardinality(woken)
       /\ place' = [u \in Tasks |-> IF u = t THEN goes
                                    ELSE IF u \in woken THEN "granted" ELSE place[u]]

-----------------------------------------------------------------------------
(* The read of _loop without the lock finds None.  Until the task has had  *)
(* the lock its loop runs no other.                                        *)
FindUnbound(t) ==
    /\ place[t] = "idle"
    /\ loop = NoLoop
    /\ \A u \in Tasks : place[u] = "binding" => LoopOf[u] # LoopOf[t]
    /\ place' = [place EXCEPT ![t] = "binding"]
    /\ UNCHANGED <<loop, value, waiters, why, ahead>>

(* Faulty variant: what was read without the lock is not read again.       *)
CheckLoop_Stale(t) ==
    /\ place[t] = "idle" => loop = LoopOf[t]
    /\ place[t] \in Outside
    /\ loop' = LoopOf[t]

(* The guard is passed: on the read without the lock, or by the second one *)
(* under the lock (check_event_loop), which binds the first loop to come.  *)
CheckLoop(t) ==
    /\ \/ place[t] = "idle" /\ loop = LoopOf[t]
       \/ place[t] = "binding" /\ loop \in {NoLoop, LoopOf[t]}
    /\ loop' = LoopOf[t]

(* Another loop was first: RuntimeError.  (A task that can see so without  *)
(* the lock gets it at once, and nothing changes.)                         *)
TurnAway(t) ==
    /\ place[t] = "binding"
    /\ loop \notin {NoLoop, LoopOf[t]}
    /\ place' = [place EXCEPT ![t] = "idle"]
    /\ UNCHANGED <<loop, value, waiters, why, ahead>>

Guard(t) == FindUnbound(t) \/ TurnAway(t)

(* The semaphore is not locked: acquire() does not wait.                   *)
Enter(t) ==
    /\ CheckLoop(t)
    /\ ~Locked
    /\ value' = value - 1
    /\ place' = [place EXCEPT ![t] = "calling"]
    /\ UNCHANGED <<waiters, why, ahead>>

(* It is locked: the task waits for it, with a timeout if there is one.    *)
(* The loop runs what is ready in order, so whoever has been woken by now  *)
(* runs before that timeout can expire, even if it is 0.                   *)
Wait(t) ==
    /\ CheckLoop(t)
    /\ Locked
    /\ waiters' = Append(waiters, t)
    /\ place' = [place EXCEPT ![t] = "waiting"]
    /\ ahead' = [ahead EXCEPT ![t] = {u \in Queued : place[u] # "waiting"}]
    /\ UNCHANGED <<value, why>>

(* Task.cancel(), by the timer or by anyone: cancels the future if it is   *)
(* pending, else the task learns of it when it runs again.                 *)
Stop(t, cause) ==
    /\ t \in Queued
    /\ cause \notin why[t]
    /\ why' = [why EXCEPT ![t] = @ \cup {cause}]
    /\ place' = IF place[t] = "waiting" THEN [place EXCEPT ![t] = "dropped"] ELSE place
    /\ UNCHANGED <<loop, value, waiters, ahead>>

(* asyncio.timeout() expires.                                              *)
Expire(t) == HasTimeout /\ ahead[t] = {} /\ Stop(t, "timeout")

Cancel(t) == Stop(t, "cancellation")

LeaveQueue(t) ==
    /\ waiters' = RemoveAt(waiters, CHOOSE i \in DOMAIN waiters : waiters[i] = t)
    /\ why' = [why EXCEPT ![t] = {}]
    /\ ahead' = [u \in Tasks |-> IF u = t THEN {} ELSE ahead[u] \ {t}]
    /\ UNCHANGED loop

(* The task runs again with its permit.  CPython 3.11 then wakes at most   *)
(* one more waiter, later versions as many as there are permits.           *)
Serve(t) ==
    /\ place[t] = "granted"
    /\ why[t] = {}
    /\ LeaveQueue(t)
    /\ \E n \in {Min({1, value}), value} : Settle(t, "calling", value, n)

(* Faulty variant: a permit that was granted too late is kept.             *)
GiveUp_LosesPermit(t) ==
    /\ LeaveQueue(t)
    /\ \E n \in {0, value} : Settle(t, "idle", value, n)

(* Faulty variant: release() even if acquire() failed.                     *)
GiveUp_ReleasesAnyway(t) ==
    /\ LeaveQueue(t)
    /\ \E n \in {1, value + 1} : Settle(t, "idle", value + 1, n)

(* It runs again with CancelledError: a permit it has been granted in the  *)
(* meantime goes to the next.                                              *)
GiveUp(t) ==
    /\ LeaveQueue(t)
    /\ \/ place[t] = "dropped" /\ \E n \in {0, value} : Settle(t, "idle", value, n)
       \/ place[t] = "granted" /\ \E n \in {1, value + 1} : Settle(t, "idle", value + 1, n)

(* asyncio.timeout() turns its own cancellation into TimeoutError, which   *)
(* becomes BulkheadFullError ...                                           *)
Refuse(t) == why[t] = {"timeout"} /\ t \in Queued /\ GiveUp(t)

(* ... but lets one from elsewhere through, even if it has expired too.    *)
Abort(t) == "cancellation" \in why[t] /\ t \in Queued /\ GiveUp(t)

(* Faulty variant: the permit is only given back on some paths.            *)
Leave_KeepsPermit(t) ==
    /\ place[t] = "calling"
    /\ place' = [place EXCEPT ![t] = "idle"]
    /\ UNCHANGED <<loop, value, waiters, why, ahead>>

(* next(request) returns, raises or is cancelled: the finally clause.      *)
Leave(t) ==
    /\ place[t] = "calling"
    /\ Settle(t, "idle", value + 1, 1)
    /\ UNCHANGED <<loop, waiters, why, ahead>>

Next ==
    \E t \in Tasks :
      \/ Guard(t) \/ Enter(t) \/ Wait(t) \/ Expire(t) \/ Cancel(t)
      \/ Serve(t) \/ Refuse(t) \/ Abort(t) \/ Leave(t)

Spec == Init /\ [][Next]_vars

-----------------------------------------------------------------------------
(* The counter is within its bounds, the queue holds each waiter once.     *)
TypeOK ==
    /\ loop \in {LoopOf[t] : t \in Tasks} \cup {NoLoop}
    /\ value \in 0 .. MaxConcurrent
    /\ IsInjective(waiters)
    /\ Queued \subseteq Tasks
    /\ place \in [Tasks -> Places]
    /\ why \in [Tasks -> SUBSET Causes]
    /\ \A t \in Tasks : place[t] \in {"waiting", "granted", "dropped"} <=> t \in Queued
    /\ \A t \in Tasks : why[t] # {} => place[t] \in {"granted", "dropped"}
    /\ ahead \in [Tasks -> SUBSET Queued]

At(p) == {t \in Tasks : place[t] = p}

(* A permit is in the counter, in a call or on its way to a waiter that has *)
(* been granted it, whatever timeouts and cancellations come in between:   *)
(* none is lost, so capacity never shrinks, and none appears.              *)
PermitsConserved ==
    value + Cardinality(At("calling")) + Cardinality(At("granted")) = MaxConcurrent

(* No task sleeps beside a free permit with nobody on the way to wake it.  *)
NoStrandedWaiter ==
    value > 0 /\ At("waiting") # {} => At("granted") # {}

(* Though loops in several threads see at once that there is none yet,     *)
(* only tasks of one ever get to the semaphore, which is not safe across   *)
(* threads (_event_loop_guard.py:17).                                      *)
OneLoop == \A t \in Tasks : place[t] \notin Outside => LoopOf[t] = loop

Held == At("calling") \cup At("granted")

Pool ==
    INSTANCE SlotPool WITH
        Callers <- Tasks,
        Slots   <- MaxConcurrent,
        inside  <- Held,
        waiting <- At("waiting"),
        before  <- {p \in At("waiting") \X At("waiting") : Before(p[1], p[2])}

(* At most max_concurrent calls at a time, and first come first served: a  *)
(* newcomer that finds the semaphore unlocked overtakes nobody.            *)
ImplementsPool == Pool!Spec

=============================================================================
