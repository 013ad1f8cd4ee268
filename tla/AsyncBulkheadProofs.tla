-------------------------- MODULE AsyncBulkheadProofs --------------------------
(***************************************************************************)
(* Theorems about the async bulkhead, for every number of tasks, of loops  *)
(* and of permits: alone, as an implementation of SlotPool, and within the *)
(* composition of the async middlewares, for all thresholds of its breaker.*)
(***************************************************************************)
EXTENDS AsyncStack, FiniteSetTheorems, SequenceTheorems, WellFoundedInduction, TLAPS

PlaceType == place \in [Tasks -> Places]

PermitInv == PlaceType /\ value \in Int /\ value + Cardinality(Held) = MaxConcurrent

LEMMA WokenWait ==
    ASSUME NEW n
    PROVE  Woken(n) \subseteq At("waiting")
BY DEF Woken, At

LEMMA HeldFinite ==
    IsFiniteSet(Held) /\ Cardinality(Held) \in Nat
<1>1. Held \in SUBSET Tasks
  BY DEF Held, At
<1> QED
  BY <1>1, BulkheadAssumption, FS_Subset, FS_CardinalityType

(* Nobody is in two places, so that Held counts what PermitsConserved does. *)
LEMMA HeldCounts ==
    Cardinality(Held) = Cardinality(At("calling")) + Cardinality(At("granted"))
<1>1. \A p : IsFiniteSet(At(p))
  BY BulkheadAssumption, FS_Subset DEF At
<1>2. At("calling") \cap At("granted") = {}
  BY DEF At
<1>3. Cardinality(At("calling")) \in Nat /\ Cardinality(At("granted")) \in Nat
  BY <1>1, FS_CardinalityType
<1>4. Cardinality(Held) =
        Cardinality(At("calling")) + Cardinality(At("granted")) - Cardinality({})
  BY <1>1, <1>2, FS_Union DEF Held
<1> QED
  BY <1>3, <1>4, FS_EmptySet

LEMMA PermitsFromHeld == PermitInv => PermitsConserved
<1> SUFFICES ASSUME PermitInv PROVE PermitsConserved
  OBVIOUS
<1>1. Cardinality(At("calling")) \in Nat /\ Cardinality(At("granted")) \in Nat
  BY BulkheadAssumption, FS_Subset, FS_CardinalityType DEF At
<1> QED
  BY <1>1, HeldCounts DEF PermitInv, PermitsConserved

-----------------------------------------------------------------------------
(* Who comes is not yet in the queue or in a call; at the guard nothing    *)
(* changes but who has got how far.                                        *)
LEMMA GuardMoves ==
    ASSUME NEW t \in Tasks, Guard(t)
    PROVE  /\ place[t] \in Outside
           /\ \E to \in Outside : place' = [place EXCEPT ![t] = to]
           /\ UNCHANGED <<loop, value, waiters, why, ahead>>
BY DEF Guard, FindUnbound, TurnAway, Outside

LEMMA EnterMoves ==
    ASSUME NEW t \in Tasks, Enter(t)
    PROVE  /\ place[t] \in Outside
           /\ place' = [place EXCEPT ![t] = "calling"]
           /\ value' = value - 1
           /\ loop \in {NoLoop, LoopOf[t]} /\ loop' = LoopOf[t]
           /\ UNCHANGED <<waiters, why, ahead>>
BY DEF Enter, CheckLoop, Outside

LEMMA WaitMoves ==
    ASSUME NEW t \in Tasks, Wait(t)
    PROVE  /\ place[t] \in Outside
           /\ place' = [place EXCEPT ![t] = "waiting"]
           /\ loop \in {NoLoop, LoopOf[t]} /\ loop' = LoopOf[t]
           /\ UNCHANGED <<value, why>>
BY DEF Wait, CheckLoop, Outside

-----------------------------------------------------------------------------
(* What a task gives back or takes and what it hands on add up: the        *)
(* permits at hand are those that the others do not hold.                  *)
LEMMA SettleKeepsPermits ==
    ASSUME PlaceType, NEW t \in Tasks, NEW goes \in {"idle", "calling"},
           place[t] # "waiting", NEW permits \in Int, NEW n,
           permits + Cardinality((Held \ {t}) \cup (IF goes = "calling" THEN {t} ELSE {}))
             = MaxConcurrent,
           Settle(t, goes, permits, n)
    PROVE  PermitInv'
<1> DEFINE stay == (Held \ {t}) \cup (IF goes = "calling" THEN {t} ELSE {})
           woken == Woken(n)
<1>1. woken \subseteq At("waiting")
  BY WokenWait
<1>2. place' = [u \in Tasks |-> IF u = t THEN goes
                                ELSE IF u \in woken THEN "granted" ELSE place[u]]
  BY DEF Settle
<1>3. value' = permits - Cardinality(woken)
  BY DEF Settle
<1> HIDE DEF woken
<1>4. PlaceType'
  BY <1>2 DEF PlaceType, Places
<1>5. Held' = stay \cup woken
  BY <1>1, <1>2 DEF Held, At
<1>6. stay \cap woken = {}
  BY <1>1 DEF Held, At
<1>7. IsFiniteSet(stay) /\ IsFiniteSet(woken)
  <2>1. stay \in SUBSET Tasks /\ woken \in SUBSET Tasks
    BY <1>1 DEF Held, At
  <2> QED
    BY <2>1, BulkheadAssumption, FS_Subset
<1>8. Cardinality(stay) \in Nat /\ Cardinality(woken) \in Nat
  BY <1>7, FS_CardinalityType
<1>9. Cardinality(Held') = Cardinality(stay) + Cardinality(woken)
  <2>1. Cardinality(stay \cup woken) = Cardinality(stay) + Cardinality(woken) - Cardinality({})
    BY <1>6, <1>7, FS_Union
  <2> QED
    BY <1>5, <1>8, <2>1, FS_EmptySet
<1>10. permits + Cardinality(stay) = MaxConcurrent
  OBVIOUS
<1> HIDE DEF stay
<1>11. value' \in Int /\ value' + Cardinality(Held') = MaxConcurrent
  BY <1>3, <1>8, <1>9, <1>10
<1> QED
  BY <1>4, <1>11 DEF PermitInv

(* A task that holds a permit gives it back.                               *)
LEMMA GiveBack ==
    ASSUME PermitInv, NEW t \in Tasks, place[t] \in {"calling", "granted"}, NEW n,
           Settle(t, "idle", value + 1, n)
    PROVE  PermitInv'
<1>1. t \in Held
  BY DEF Held, At
<1>2. Cardinality(Held \ {t}) = Cardinality(Held) - 1
  BY <1>1, HeldFinite, FS_RemoveElement
<1>3. (Held \ {t}) \cup (IF "idle" = "calling" THEN {t} ELSE {}) = Held \ {t}
  OBVIOUS
<1>4. value + 1 \in Int /\ value + 1 + Cardinality(Held \ {t}) = MaxConcurrent
  BY <1>2, HeldFinite DEF PermitInv
<1> QED
  BY <1>3, <1>4, SettleKeepsPermits DEF PermitInv

(* A task without a permit leaves the queue.                               *)
LEMMA GiveUpWithout ==
    ASSUME PermitInv, NEW t \in Tasks, place[t] = "dropped", NEW n,
           Settle(t, "idle", value, n)
    PROVE  PermitInv'
<1>1. (Held \ {t}) \cup (IF "idle" = "calling" THEN {t} ELSE {}) = Held
  BY DEF Held, At
<1> QED
  BY <1>1, SettleKeepsPermits DEF PermitInv

(* A task that was granted a permit runs with it.                          *)
LEMMA Keep ==
    ASSUME PermitInv, NEW t \in Tasks, place[t] = "granted", NEW n,
           Settle(t, "calling", value, n)
    PROVE  PermitInv'
<1>1. (Held \ {t}) \cup (IF "calling" = "calling" THEN {t} ELSE {}) = Held
  BY DEF Held, At
<1> QED
  BY <1>1, SettleKeepsPermits DEF PermitInv

LEMMA EnterTakesPermit ==
    ASSUME PermitInv, NEW t \in Tasks, Enter(t)
    PROVE  PermitInv'
<1>1. PlaceType'
  BY EnterMoves DEF PermitInv, PlaceType, Places
<1>2. Held' = Held \cup {t} /\ t \notin Held
  BY EnterMoves DEF PermitInv, PlaceType, Held, At, Outside
<1>3. Cardinality(Held') = Cardinality(Held) + 1
  BY <1>2, HeldFinite, FS_AddElement
<1>4. value' = value - 1
  BY EnterMoves
<1> QED
  BY <1>1, <1>3, <1>4, HeldFinite DEF PermitInv

(* To pass or fail the guard, to wait, or to be told to stop, moves no     *)
(* permit.                                                                 *)
LEMMA HeldUntouched ==
    ASSUME PermitInv, NEW t \in Tasks,
           \/ Guard(t) \/ Wait(t)
           \/ \E cause : Stop(t, cause)
    PROVE  PermitInv'
<1>1. PlaceType' /\ value' = value
  BY GuardMoves, WaitMoves DEF PermitInv, PlaceType, Stop, Places, Outside
<1>2. Held' = Held
  BY GuardMoves, WaitMoves DEF PermitInv, PlaceType, Stop, Held, At, Outside
<1> QED
  BY <1>1, <1>2 DEF PermitInv

LEMMA PermitsStep ==
    ASSUME PermitInv, [Next]_vars
    PROVE  PermitInv'
<1>1. CASE UNCHANGED vars
  BY <1>1 DEF vars, PermitInv, PlaceType, Held, At
<1>2. ASSUME NEW t \in Tasks, Enter(t) PROVE PermitInv'
  BY <1>2, EnterTakesPermit
<1>3. ASSUME NEW t \in Tasks, Guard(t) \/ Wait(t) \/ Expire(t) \/ Cancel(t) PROVE PermitInv'
  BY <1>3, HeldUntouched DEF Expire, Cancel
<1>4. ASSUME NEW t \in Tasks, Serve(t) PROVE PermitInv'
  <2>1. PICK n : Settle(t, "calling", value, n)
    BY <1>4 DEF Serve
  <2>2. place[t] = "granted"
    BY <1>4 DEF Serve
  <2> QED
    BY <2>1, <2>2, Keep
<1>5. ASSUME NEW t \in Tasks, GiveUp(t) PROVE PermitInv'
  <2>1. CASE place[t] = "dropped" /\ \E n \in {0, value} : Settle(t, "idle", value, n)
    BY <2>1, GiveUpWithout
  <2>2. CASE place[t] = "granted" /\ \E n \in {1, value + 1} : Settle(t, "idle", value + 1, n)
    BY <2>2, GiveBack
  <2> QED
    BY <1>5, <2>1, <2>2 DEF GiveUp
<1>6. ASSUME NEW t \in Tasks, Leave(t) PROVE PermitInv'
  BY <1>6, GiveBack DEF Leave
<1> QED
  BY <1>1, <1>2, <1>3, <1>4, <1>5, <1>6 DEF Next, Refuse, Abort

LEMMA PermitsInit == Init => PermitInv
<1> SUFFICES ASSUME Init PROVE PermitInv
  OBVIOUS
<1>1. Held = {}
  BY DEF Init, Held, At
<1>2. Cardinality(Held) = 0
  BY <1>1, FS_EmptySet
<1> QED
  BY <1>2, BulkheadAssumption DEF Init, PermitInv, PlaceType, Places

(* Whatever is granted, refused, cancelled or given back at the same time, *)
(* no permit of the semaphore is lost and none appears.                    *)
THEOREM PermitsNeverLost == Spec => []PermitsConserved
<1>1. Spec => []PermitInv
  BY PermitsInit, PermitsStep, PTL DEF Spec
<1> QED
  BY <1>1, PermitsFromHeld, PTL

-----------------------------------------------------------------------------
(* A task on its way has passed the guard, which lets nobody else in.      *)
LEMMA ComesIn ==
    ASSUME PlaceType, OneLoop, NEW t \in Tasks, Enter(t) \/ Wait(t)
    PROVE  OneLoop'
<1>1. loop \in {NoLoop, LoopOf[t]} /\ loop' = LoopOf[t]
  BY EnterMoves, WaitMoves
<1>2. \A u \in Tasks : place'[u] \notin Outside => place[u] \notin Outside \/ u = t
  BY EnterMoves, WaitMoves DEF PlaceType
<1>3. \A u \in Tasks : place[u] \notin Outside => LoopOf[u] = loop'
  BY <1>1, BulkheadAssumption DEF OneLoop
<1> QED
  BY <1>1, <1>2, <1>3 DEF OneLoop

(* Nobody else comes to the semaphore by what happens there.               *)
LEMMA NobodyComesIn ==
    ASSUME PlaceType, OneLoop, loop' = loop,
           NEW t \in Tasks, place[t] \notin Outside,
           \/ \E goes, permits, n : Settle(t, goes, permits, n)
           \/ \E cause : Stop(t, cause)
    PROVE  OneLoop'
<1>1. \A u \in Tasks : place'[u] \notin Outside => place[u] \notin Outside
  <2>1. ASSUME NEW goes, NEW permits, NEW n, Settle(t, goes, permits, n)
        PROVE  \A u \in Tasks : place'[u] \notin Outside => place[u] \notin Outside
    <3>1. \A u \in Woken(n) : place[u] = "waiting"
      BY WokenWait DEF At
    <3> QED
      BY <2>1, <3>1 DEF Settle, Outside
  <2>2. ASSUME NEW cause, Stop(t, cause)
        PROVE  \A u \in Tasks : place'[u] \notin Outside => place[u] \notin Outside
    BY <2>2 DEF PlaceType, Stop, Outside
  <2> QED
    BY <2>1, <2>2
<1> QED
  BY <1>1 DEF OneLoop

LEMMA LoopStep ==
    ASSUME PermitInv, OneLoop, [Next]_vars
    PROVE  OneLoop'
<1> PlaceType
  BY DEF PermitInv
<1>1. CASE UNCHANGED vars
  BY <1>1 DEF vars, OneLoop
<1>2. ASSUME NEW t \in Tasks, Enter(t) \/ Wait(t) PROVE OneLoop'
  BY <1>2, ComesIn
<1>3. ASSUME NEW t \in Tasks, NEW cause, Stop(t, cause) PROVE OneLoop'
  <2>1. CASE place[t] = "waiting"
    BY <1>3, <2>1, NobodyComesIn DEF Stop, Outside
  <2>2. CASE place[t] # "waiting"
    BY <1>3, <2>2 DEF Stop, OneLoop
  <2> QED
    BY <2>1, <2>2
<1>4. ASSUME NEW t \in Tasks, Serve(t) \/ GiveUp(t) \/ Leave(t) PROVE OneLoop'
  <2>1. loop' = loop /\ place[t] \notin Outside
    BY <1>4 DEF Serve, GiveUp, Leave, LeaveQueue, Outside
  <2>2. \E goes, permits, n : Settle(t, goes, permits, n)
    BY <1>4 DEF Serve, GiveUp, Leave
  <2> QED
    BY <2>1, <2>2, NobodyComesIn
<1>5. ASSUME NEW t \in Tasks, Guard(t) PROVE OneLoop'
  BY <1>5, GuardMoves DEF PlaceType, OneLoop
<1> QED
  BY <1>1, <1>2, <1>3, <1>4, <1>5 DEF Next, Expire, Cancel, Refuse, Abort

(* The semaphore, which no lock protects, is only ever touched by tasks of *)
(* one event loop, however many loops race to bind the bulkhead: who has   *)
(* seen none without the lock looks again under it.                        *)
THEOREM OneLoopOnly == Spec => []OneLoop
<1>1. Init => PermitInv /\ OneLoop
  BY PermitsInit DEF Init, OneLoop, Outside
<1>2. PermitInv /\ OneLoop /\ [Next]_vars => (PermitInv /\ OneLoop)'
  BY PermitsStep, LoopStep
<1>3. Spec => [](PermitInv /\ OneLoop)
  BY <1>1, <1>2, PTL DEF Spec
<1> QED
  BY <1>3, PTL

-----------------------------------------------------------------------------
(* The queue holds each waiter once.                                       *)
Waits(p) == p \in {"waiting", "granted", "dropped"}

QueueInv ==
    /\ waiters \in Seq(Tasks)
    /\ IsInjective(waiters)
    /\ \A t \in Tasks : Waits(place[t]) <=> t \in Queued

LEMMA OneLeaves ==
    ASSUME QueueInv, NEW t \in Queued, LeaveQueue(t)
    PROVE  /\ waiters' \in Seq(Tasks)
           /\ IsInjective(waiters')
           /\ Queued' = Queued \ {t}
           /\ \A u, v \in Tasks \ {t} : Before(u, v)' <=> Before(u, v)
<1> DEFINE k == CHOOSE i \in DOMAIN waiters : waiters[i] = t
           n == Len(waiters)
           old(j) == IF j < k THEN j ELSE j + 1
<1>1. n \in Nat /\ DOMAIN waiters = 1 .. n
  BY LenProperties DEF QueueInv
<1>2. k \in 1 .. n /\ waiters[k] = t
  BY <1>1 DEF Queued
<1> HIDE DEF k
<1>3. waiters' = SubSeq(waiters, 1, k - 1) \o SubSeq(waiters, k + 1, n)
  BY DEF LeaveQueue, RemoveAt, k
<1>4. \A i \in 1 .. n : waiters[i] \in Tasks
  BY <1>1, ElementOfSeq DEF QueueInv
<1>5. /\ SubSeq(waiters, 1, k - 1) \in Seq(Tasks)
      /\ Len(SubSeq(waiters, 1, k - 1)) = k - 1
      /\ \A i \in 1 .. k - 1 : SubSeq(waiters, 1, k - 1)[i] = waiters[i]
  <2>1. \A i \in 1 .. k - 1 : waiters[i] \in Tasks
    BY <1>1, <1>2, <1>4
  <2>2. 1 \in Int /\ k - 1 \in Int
    BY <1>1, <1>2
  <2>3. /\ SubSeq(waiters, 1, k - 1) \in Seq(Tasks)
        /\ Len(SubSeq(waiters, 1, k - 1)) = IF 1 <= k - 1 THEN (k - 1) - 1 + 1 ELSE 0
        /\ \A i \in 1 .. (k - 1) - 1 + 1 :
             SubSeq(waiters, 1, k - 1)[i] = waiters[1 + i - 1]
    BY <2>1, <2>2, SubSeqProperties
  <2> QED
    BY <1>1, <1>2, <2>3
<1>6. /\ SubSeq(waiters, k + 1, n) \in Seq(Tasks)
      /\ Len(SubSeq(waiters, k + 1, n)) = n - k
      /\ \A i \in 1 .. n - k : SubSeq(waiters, k + 1, n)[i] = waiters[k + i]
  <2> DEFINE m == k + 1
  <2>1. m \in Int /\ n \in Int /\ \A i \in m .. n : waiters[i] \in Tasks
    BY <1>1, <1>2, <1>4
  <2> HIDE DEF m, n
  <2>2. /\ SubSeq(waiters, m, n) \in Seq(Tasks)
        /\ Len(SubSeq(waiters, m, n)) = IF m <= n THEN n - m + 1 ELSE 0
        /\ \A i \in 1 .. n - m + 1 : SubSeq(waiters, m, n)[i] = waiters[m + i - 1]
    BY <2>1, SubSeqProperties
  <2>3. Len(SubSeq(waiters, m, n)) = n - k /\ n - m + 1 = n - k
    BY <1>1, <1>2, <2>2 DEF m
  <2>4. \A i \in 1 .. n - k : m + i - 1 = k + i
    BY <1>1, <1>2 DEF m
  <2> QED
    BY <2>2, <2>3, <2>4 DEF m
<1>7. /\ waiters' \in Seq(Tasks)
      /\ Len(waiters') = n - 1
      /\ \A j \in 1 .. n - 1 : waiters'[j] = waiters[old(j)]
  <2> DEFINE a == SubSeq(waiters, 1, k - 1)
             b == SubSeq(waiters, k + 1, n)
  <2>1. /\ a \o b \in Seq(Tasks)
        /\ Len(a \o b) = Len(a) + Len(b)
        /\ \A i \in 1 .. Len(a) + Len(b) :
             (a \o b)[i] = IF i <= Len(a) THEN a[i] ELSE b[i - Len(a)]
    BY <1>5, <1>6, ConcatProperties
  <2> HIDE DEF a, b
  <2>2. Len(a) = k - 1 /\ Len(b) = n - k
    BY <1>5, <1>6 DEF a, b
  <2>3. \A i \in 1 .. k - 1 : a[i] = waiters[i]
    BY <1>5 DEF a
  <2>4. \A i \in 1 .. n - k : b[i] = waiters[k + i]
    BY <1>6 DEF b
  <2>5. ASSUME NEW j \in 1 .. n - 1 PROVE (a \o b)[j] = waiters[old(j)]
    <3>1. CASE j < k
      BY <1>1, <1>2, <2>1, <2>2, <2>3, <3>1
    <3>2. CASE ~(j < k)
      <4>1. j - (k - 1) \in 1 .. n - k /\ k + (j - (k - 1)) = j + 1
        BY <1>1, <1>2, <3>2
      <4>2. (a \o b)[j] = b[j - (k - 1)]
        BY <1>1, <1>2, <2>1, <2>2, <3>2
      <4> QED
        BY <2>4, <3>2, <4>1, <4>2
    <3> QED
      BY <3>1, <3>2
  <2>6. Len(a) + Len(b) = n - 1
    BY <1>1, <1>2, <2>2
  <2> QED
    BY <1>3, <2>1, <2>5, <2>6 DEF a, b
<1>8. DOMAIN waiters' = 1 .. n - 1
  BY <1>7, LenProperties
<1>9. \A i, j \in 1 .. n : waiters[i] = waiters[j] => i = j
  BY <1>1 DEF QueueInv, IsInjective
<1>10. \A j \in 1 .. n - 1 : old(j) \in (1 .. n) \ {k}
  BY <1>1, <1>2
<1>11. \A i, j \in 1 .. n - 1 : i < j <=> old(i) < old(j)
  BY <1>1, <1>2
<1>12. \A i \in (1 .. n) \ {k} : \E j \in 1 .. n - 1 : old(j) = i
  <2> TAKE i \in (1 .. n) \ {k}
  <2>1. CASE i < k
    BY <1>1, <1>2, <2>1
  <2>2. CASE i > k
    <3>1. i - 1 \in 1 .. n - 1 /\ old(i - 1) = i
      BY <1>1, <1>2, <2>2
    <3> QED
      BY <3>1
  <2> QED
    BY <1>1, <1>2, <2>1, <2>2
<1>13. \A i, j \in 1 .. n - 1 : old(i) = old(j) => i = j
  BY <1>1, <1>2
<1> HIDE DEF old
<1>14. IsInjective(waiters')
  BY <1>7, <1>8, <1>9, <1>10, <1>13 DEF IsInjective
<1>15. Queued' = Queued \ {t}
  <2>1. \A u \in Queued' : u \in Queued \ {t}
    <3> TAKE u \in Queued'
    <3>1. PICK j \in 1 .. n - 1 : u = waiters'[j]
      BY <1>8 DEF Queued
    <3> QED
      BY <1>1, <1>2, <1>7, <1>9, <1>10, <3>1 DEF Queued
  <2>2. \A u \in Queued \ {t} : u \in Queued'
    <3> TAKE u \in Queued \ {t}
    <3>1. PICK i \in 1 .. n : u = waiters[i]
      BY <1>1 DEF Queued
    <3>2. PICK j \in 1 .. n - 1 : old(j) = i
      BY <1>2, <1>12, <3>1
    <3> QED
      BY <1>7, <1>8, <3>1, <3>2 DEF Queued
  <2> QED
    BY <2>1, <2>2
<1>16. \A u, v \in Tasks \ {t} : Before(u, v)' <=> Before(u, v)
  <2> TAKE u, v \in Tasks \ {t}
  <2>1. ASSUME Before(u, v)' PROVE Before(u, v)
    <3>1. PICK i, j \in 1 .. n - 1 : i < j /\ waiters'[i] = u /\ waiters'[j] = v
      BY <1>8, <2>1 DEF Before
    <3>2. old(i) < old(j) /\ waiters[old(i)] = u /\ waiters[old(j)] = v
      BY <1>7, <1>11, <3>1
    <3> QED
      BY <1>1, <1>10, <3>2 DEF Before
  <2>2. ASSUME Before(u, v) PROVE Before(u, v)'
    <3>1. PICK i, j \in 1 .. n : i < j /\ waiters[i] = u /\ waiters[j] = v
      BY <1>1, <2>2 DEF Before
    <3>2. PICK x, y \in 1 .. n - 1 : old(x) = i /\ old(y) = j
      BY <1>2, <1>12, <3>1
    <3> QED
      BY <1>7, <1>8, <1>11, <3>1, <3>2 DEF Before
  <2> QED
    BY <2>1, <2>2
<1> QED
  BY <1>7, <1>14, <1>15, <1>16

LEMMA OneMore ==
    ASSUME QueueInv, NEW t \in Tasks \ Queued, waiters' = Append(waiters, t)
    PROVE  /\ waiters' \in Seq(Tasks)
           /\ IsInjective(waiters')
           /\ Queued' = Queued \cup {t}
           /\ \A u, v \in Tasks : Before(u, v)' <=> Before(u, v) \/ (u \in Queued /\ v = t)
<1> DEFINE n == Len(waiters)
<1>1. n \in Nat /\ DOMAIN waiters = 1 .. n
  BY LenProperties DEF QueueInv
<1>2. /\ waiters' \in Seq(Tasks)
      /\ Len(waiters') = n + 1
      /\ \A i \in 1 .. n : waiters'[i] = waiters[i]
      /\ waiters'[n + 1] = t
  BY AppendProperties DEF QueueInv
<1>3. DOMAIN waiters' = 1 .. n + 1
  BY <1>2, LenProperties
<1> HIDE DEF n
<1>4. \A i \in 1 .. n : waiters[i] # t
  BY <1>1 DEF Queued
<1>5. \A i \in 1 .. n + 1 : i \in 1 .. n \/ i = n + 1
  BY <1>1
<1>6. 1 .. n \subseteq 1 .. n + 1 /\ n + 1 \in 1 .. n + 1
  BY <1>1
<1>7. IsInjective(waiters')
  BY <1>1, <1>2, <1>3, <1>4, <1>5 DEF IsInjective, QueueInv
<1>8. Queued' = Queued \cup {t}
  BY <1>1, <1>2, <1>3, <1>5, <1>6 DEF Queued
<1>9. \A u, v \in Tasks : Before(u, v)' <=> Before(u, v) \/ (u \in Queued /\ v = t)
  <2> TAKE u, v \in Tasks
  <2>1. ASSUME Before(u, v)' PROVE Before(u, v) \/ (u \in Queued /\ v = t)
    <3>1. PICK i, j \in 1 .. n + 1 : i < j /\ waiters'[i] = u /\ waiters'[j] = v
      BY <1>3, <2>1 DEF Before
    <3>2. i \in 1 .. n
      BY <1>1, <3>1
    <3>3. CASE j \in 1 .. n
      BY <1>1, <1>2, <3>1, <3>2, <3>3 DEF Before
    <3>4. CASE j = n + 1
      BY <1>1, <1>2, <3>1, <3>2, <3>4 DEF Queued
    <3> QED
      BY <1>5, <3>3, <3>4
  <2>2. ASSUME Before(u, v) PROVE Before(u, v)'
    <3>1. PICK i, j \in 1 .. n : i < j /\ waiters[i] = u /\ waiters[j] = v
      BY <1>1, <2>2 DEF Before
    <3> QED
      BY <1>2, <1>3, <1>6, <3>1 DEF Before
  <2>3. ASSUME u \in Queued, v = t PROVE Before(u, v)'
    <3>1. PICK i \in 1 .. n : waiters[i] = u
      BY <1>1, <2>3 DEF Queued
    <3>2. i < n + 1
      BY <1>1
    <3> QED
      BY <1>2, <1>3, <1>6, <2>3, <3>1, <3>2 DEF Before
  <2> QED
    BY <2>1, <2>2, <2>3
<1> QED
  BY <1>2, <1>7, <1>8, <1>9

-----------------------------------------------------------------------------
(* The queue is an order, and who is woken is the first in it.             *)
LEMMA QueueOrder ==
    ASSUME QueueInv
    PROVE  /\ \A t \in Tasks : ~Before(t, t)
           /\ \A t, u, v \in Tasks : Before(t, u) /\ Before(u, v) => Before(t, v)
           /\ \A t, u \in Queued : t = u \/ Before(t, u) \/ Before(u, t)
<1>1. PICK n \in Nat : DOMAIN waiters = 1 .. n
  BY LenProperties DEF QueueInv
<1>2. \A i, j \in 1 .. n : waiters[i] = waiters[j] => i = j
  BY <1>1 DEF QueueInv, IsInjective
<1>3. \A t \in Tasks : ~Before(t, t)
  BY <1>1, <1>2 DEF Before
<1>4. \A t, u, v \in Tasks : Before(t, u) /\ Before(u, v) => Before(t, v)
  <2> TAKE t, u, v \in Tasks
  <2> SUFFICES ASSUME Before(t, u), Before(u, v) PROVE Before(t, v)
    OBVIOUS
  <2>1. PICK i, j \in 1 .. n : i < j /\ waiters[i] = t /\ waiters[j] = u
    BY <1>1 DEF Before
  <2>2. PICK k, m \in 1 .. n : k < m /\ waiters[k] = u /\ waiters[m] = v
    BY <1>1 DEF Before
  <2>3. j = k
    BY <1>2, <2>1, <2>2
  <2>4. i < m
    BY <1>1, <2>1, <2>2, <2>3
  <2> QED
    BY <1>1, <2>1, <2>2, <2>4 DEF Before
<1>5. \A t, u \in Queued : t = u \/ Before(t, u) \/ Before(u, t)
  <2> TAKE t, u \in Queued
  <2>1. PICK i, j \in 1 .. n : waiters[i] = t /\ waiters[j] = u
    BY <1>1 DEF Queued
  <2>2. i = j \/ i < j \/ j < i
    BY <1>1
  <2> QED
    BY <1>1, <2>1, <2>2 DEF Before
<1> QED
  BY <1>3, <1>4, <1>5

LEMMA FirstWaiter ==
    ASSUME QueueInv, At("waiting") # {}
    PROVE  \E t \in At("waiting") : \A u \in At("waiting") : ~Before(u, t)
<1>1. PICK n \in Nat : DOMAIN waiters = 1 .. n
  BY LenProperties DEF QueueInv
<1> DEFINE S == {i \in 1 .. n : waiters[i] \in At("waiting")}
           R == OpToRel(<, Nat)
<1>2. At("waiting") \subseteq Queued
  BY DEF QueueInv, Waits, At
<1>3. S # {} /\ S \subseteq Nat
  BY <1>1, <1>2 DEF Queued
<1>4. \A x, y \in Nat : y < x => <<y, x>> \in R
  BY DEF OpToRel
<1>5. IsWellFoundedOn(R, Nat)
  BY NatLessThanWellFounded
<1> HIDE DEF R, S
<1>6. PICK k \in S : \A j \in S : <<j, k>> \notin R
  BY <1>3, <1>5, WFMin, Zenon
<1>7. \A j \in S : ~(j < k)
  BY <1>3, <1>4, <1>6
<1>8. k \in 1 .. n /\ waiters[k] \in At("waiting")
  BY DEF S
<1>9. ASSUME NEW u \in At("waiting"), Before(u, waiters[k]) PROVE FALSE
  <2>1. PICK i, j \in 1 .. n : i < j /\ waiters[i] = u /\ waiters[j] = waiters[k]
    BY <1>1, <1>9 DEF Before
  <2>2. j = k
    BY <1>1, <1>8, <2>1 DEF QueueInv, IsInjective
  <2>3. i \in S
    BY <2>1 DEF S
  <2> QED
    BY <1>7, <2>1, <2>2, <2>3
<1> QED
  BY <1>8, <1>9

(* The waiting tasks before one.                                           *)
Ahead(t) == {u \in At("waiting") : Before(u, t)}

LEMMA AheadFinite ==
    ASSUME NEW t
    PROVE  IsFiniteSet(Ahead(t)) /\ Cardinality(Ahead(t)) \in Nat
<1>1. Ahead(t) \in SUBSET Tasks
  BY DEF Ahead, At
<1> QED
  BY <1>1, BulkheadAssumption, FS_Subset, FS_CardinalityType

LEMMA WokenByRank ==
    ASSUME NEW n
    PROVE  Woken(n) = {t \in At("waiting") : Cardinality(Ahead(t)) < n}
BY DEF Woken, Ahead, At

LEMMA RankGrows ==
    ASSUME QueueInv, NEW t \in At("waiting"), NEW u \in At("waiting"), Before(t, u)
    PROVE  Cardinality(Ahead(t)) < Cardinality(Ahead(u))
<1>1. t \in Tasks /\ u \in Tasks
  BY DEF At
<1>2. Ahead(t) \cup {t} \subseteq Ahead(u)
  BY <1>1, QueueOrder DEF Ahead, At
<1>3. t \notin Ahead(t)
  BY <1>1, QueueOrder DEF Ahead
<1>4. Cardinality(Ahead(t) \cup {t}) = Cardinality(Ahead(t)) + 1
  BY <1>3, AheadFinite, FS_AddElement
<1>5. Cardinality(Ahead(t) \cup {t}) <= Cardinality(Ahead(u))
  BY <1>2, AheadFinite, FS_Subset
<1> QED
  BY <1>4, <1>5, AheadFinite

(* Nobody is woken before one who came first.                              *)
LEMMA WokenInOrder ==
    ASSUME QueueInv, NEW n \in Int, NEW u \in Woken(n), NEW t \in At("waiting"), Before(t, u)
    PROVE  t \in Woken(n)
<1>1. u \in At("waiting") /\ Cardinality(Ahead(u)) < n
  BY WokenByRank
<1>2. Cardinality(Ahead(t)) < Cardinality(Ahead(u))
  BY <1>1, RankGrows
<1>3. Cardinality(Ahead(t)) < n
  BY <1>1, <1>2, AheadFinite
<1> QED
  BY <1>3, WokenByRank

(* If anybody waits, who has something to give wakes somebody ...          *)
LEMMA WokenSome ==
    ASSUME QueueInv, NEW n \in Int, n > 0, At("waiting") # {}
    PROVE  Woken(n) # {}
<1>1. PICK t \in At("waiting") : \A u \in At("waiting") : ~Before(u, t)
  BY FirstWaiter
<1>2. Ahead(t) = {}
  BY <1>1 DEF Ahead
<1>3. Cardinality(Ahead(t)) = 0
  BY <1>2, FS_EmptySet
<1> QED
  BY <1>3, WokenByRank

(* ... and no more than he has something for.                              *)
LEMMA WokenFew ==
    ASSUME QueueInv, NEW n \in Nat
    PROVE  Cardinality(Woken(n)) \in 0 .. n
<1> DEFINE rank == [t \in Woken(n) |-> Cardinality(Ahead(t))]
<1>1. \A t \in Woken(n) : t \in At("waiting") /\ Cardinality(Ahead(t)) < n
  BY WokenByRank
<1>2. rank \in [Woken(n) -> 0 .. n - 1]
  BY <1>1, AheadFinite
<1>3. \A t, u \in Woken(n) : rank[t] = rank[u] => t = u
  <2> SUFFICES ASSUME NEW t \in Woken(n), NEW u \in Woken(n), t # u
               PROVE  Cardinality(Ahead(t)) # Cardinality(Ahead(u))
    OBVIOUS
  <2>1. t \in Queued /\ u \in Queued
    BY <1>1 DEF QueueInv, Waits, At
  <2>2. Before(t, u) \/ Before(u, t)
    BY <2>1, QueueOrder
  <2>3. \/ Cardinality(Ahead(t)) < Cardinality(Ahead(u))
        \/ Cardinality(Ahead(u)) < Cardinality(Ahead(t))
    BY <1>1, <2>2, RankGrows
  <2> QED
    BY <2>3, AheadFinite
<1> HIDE DEF rank
<1>4. rank \in Injection(Woken(n), 0 .. n - 1)
  BY <1>2, <1>3 DEF Injection, IsInjective
<1>5. IsFiniteSet(0 .. n - 1) /\ Cardinality(0 .. n - 1) = n
  <2>1. 0 \in Int /\ n - 1 \in Int
    OBVIOUS
  <2>2. IsFiniteSet(0 .. n - 1) /\ Cardinality(0 .. n - 1) = IF 0 > n - 1 THEN 0 ELSE n - 1 - 0 + 1
    BY <2>1, FS_Interval
  <2> QED
    BY <2>2
<1>6. IsFiniteSet(Woken(n)) /\ Cardinality(Woken(n)) <= Cardinality(0 .. n - 1)
  BY <1>4, <1>5, FS_Injection
<1>7. Cardinality(Woken(n)) \in Nat
  BY <1>6, FS_CardinalityType
<1> QED
  BY <1>5, <1>6, <1>7

-----------------------------------------------------------------------------
(* The inductive invariant: the queue holds exactly the tasks that wait,   *)
(* the permits add up, and nobody sleeps beside a free one.                *)
Inv ==
    /\ TypeOK
    /\ waiters \in Seq(Tasks)
    /\ PermitInv
    /\ NoStrandedWaiter

LEMMA InvFacts ==
    ASSUME Inv
    PROVE  QueueInv /\ PlaceType /\ value \in Nat
BY BulkheadAssumption DEF Inv, TypeOK, QueueInv, Waits, PlaceType

LEMMA CounterFromPermits ==
    ASSUME PermitInv', value' \in Nat
    PROVE  value' \in 0 .. MaxConcurrent
<1>1. Cardinality(Held') \in Nat
  <2>1. Held' \in SUBSET Tasks
    BY DEF Held, At
  <2> QED
    BY <2>1, BulkheadAssumption, FS_Subset, FS_CardinalityType
<1> QED
  BY <1>1, BulkheadAssumption DEF PermitInv

(* Somebody is woken when a permit is at hand, so none stays in the        *)
(* counter beside a task that waits and no other on its way.               *)
LEMMA SettleStrandsNobody ==
    ASSUME QueueInv, NoStrandedWaiter, NEW t \in Tasks, NEW goes \in {"idle", "calling"},
           NEW permits \in Nat, NEW n \in Nat, place[t] # "waiting",
           Settle(t, goes, permits, n),
           \/ permits > 0 => n > 0
           \/ permits = value /\ place[t] # "granted"
    PROVE  NoStrandedWaiter'
<1> DEFINE woken == Woken(n)
<1>1. woken \subseteq At("waiting")
  BY WokenWait
<1>2. At("waiting")' = At("waiting") \ woken
  BY <1>1 DEF Settle, At
<1>3. woken \subseteq At("granted")'
  BY <1>1 DEF Settle, At
<1>4. SUFFICES ASSUME woken = {}, value' > 0, At("waiting")' # {}
               PROVE  At("granted")' # {}
  BY <1>3 DEF NoStrandedWaiter
<1>5. value' = permits
  BY <1>4, FS_EmptySet DEF Settle
<1>6. n = 0
  BY <1>2, <1>4, WokenSome
<1>7. permits = value /\ place[t] # "granted"
  BY <1>4, <1>5, <1>6
<1>8. At("granted") # {}
  BY <1>2, <1>4, <1>5, <1>7 DEF NoStrandedWaiter
<1> QED
  BY <1>7, <1>8 DEF Settle, At

(* A task leaves the queue, whatever it does next.                         *)
LEMMA LeaveQueueType ==
    ASSUME Inv, NEW t \in Tasks, t \in Queued, NEW goes \in {"idle", "calling"},
           NEW permits, NEW n,
           LeaveQueue(t), Settle(t, goes, permits, n), value' \in 0 .. MaxConcurrent
    PROVE  TypeOK' /\ waiters' \in Seq(Tasks)
<1> DEFINE woken == Woken(n)
<1>1. woken \subseteq At("waiting")
  BY WokenWait
<1>2. /\ waiters' \in Seq(Tasks) /\ IsInjective(waiters')
      /\ Queued' = Queued \ {t}
  BY InvFacts, OneLeaves
<1>3. loop' \in {LoopOf[u] : u \in Tasks} \cup {NoLoop}
  BY DEF Inv, TypeOK, LeaveQueue
<1>4. place' \in [Tasks -> Places]
  BY DEF Inv, TypeOK, Settle, Places
<1>5. why' \in [Tasks -> SUBSET Causes]
  BY DEF Inv, TypeOK, LeaveQueue
<1>6. \A u \in Tasks : place'[u] \in {"waiting", "granted", "dropped"} <=> u \in Queued'
  BY <1>1, <1>2 DEF Inv, TypeOK, Settle, At
<1>7. \A u \in Tasks : why'[u] # {} => place'[u] \in {"granted", "dropped"}
  BY <1>1 DEF Inv, TypeOK, Settle, LeaveQueue, At
<1>8. ahead' \in [Tasks -> SUBSET Queued']
  BY <1>2 DEF Inv, TypeOK, LeaveQueue
<1>9. Queued' \subseteq Tasks
  BY <1>2 DEF Inv, TypeOK
<1> QED
  BY <1>2, <1>3, <1>4, <1>5, <1>6, <1>7, <1>8, <1>9 DEF TypeOK

LEMMA ServeInv ==
    ASSUME Inv, NEW t \in Tasks, Serve(t)
    PROVE  Inv'
<1>1. place[t] = "granted"
  BY DEF Serve
<1>2. t \in Queued
  BY <1>1 DEF Inv, TypeOK
<1>3. PICK n \in {Min({1, value}), value} : Settle(t, "calling", value, n)
  BY DEF Serve
<1>4. value \in Nat
  BY InvFacts
<1>5. n \in 0 .. value /\ (value > 0 => n > 0)
  <2>1. CASE value = 0
    <3>1. 0 \in {1, value} /\ \A x \in {1, value} : 0 <= x
      BY <2>1
    <3>2. Min({1, value}) \in {1, value} /\ \A x \in {1, value} : Min({1, value}) <= x
      BY <3>1, Zenon DEF Min
    <3> QED
      BY <1>3, <2>1, <3>2
  <2>2. CASE value > 0
    <3>1. 1 \in {1, value} /\ \A x \in {1, value} : 1 <= x
      BY <1>4, <2>2
    <3>2. Min({1, value}) \in {1, value} /\ \A x \in {1, value} : Min({1, value}) <= x
      BY <3>1, Zenon DEF Min
    <3> QED
      BY <1>3, <1>4, <2>2, <3>2
  <2> QED
    BY <1>4, <2>1, <2>2
<1>6. PermitInv'
  BY <1>1, <1>3, Keep DEF Inv
<1>7. value' \in Nat
  BY <1>3, <1>4, <1>5, InvFacts, WokenFew DEF Settle
<1>8. value' \in 0 .. MaxConcurrent
  BY <1>6, <1>7, CounterFromPermits
<1>9. LeaveQueue(t)
  BY DEF Serve
<1>10. TypeOK' /\ waiters' \in Seq(Tasks)
  BY <1>2, <1>3, <1>8, <1>9, LeaveQueueType
<1>11. NoStrandedWaiter'
  BY <1>1, <1>3, <1>4, <1>5, InvFacts, SettleStrandsNobody DEF Inv
<1> QED
  BY <1>6, <1>10, <1>11 DEF Inv

LEMMA GiveUpInv ==
    ASSUME Inv, NEW t \in Tasks, t \in Queued, GiveUp(t)
    PROVE  Inv'
<1>1. value \in Nat
  BY InvFacts
<1>2. LeaveQueue(t)
  BY DEF GiveUp
<1>3. CASE place[t] = "dropped" /\ \E n \in {0, value} : Settle(t, "idle", value, n)
  <2>1. PICK n \in {0, value} : Settle(t, "idle", value, n)
    BY <1>3
  <2>2. PermitInv'
    BY <1>3, <2>1, GiveUpWithout DEF Inv
  <2>3. value' \in Nat
    BY <1>1, <2>1, InvFacts, WokenFew DEF Settle
  <2>4. value' \in 0 .. MaxConcurrent
    BY <2>2, <2>3, CounterFromPermits
  <2>5. TypeOK' /\ waiters' \in Seq(Tasks)
    BY <1>2, <2>1, <2>4, LeaveQueueType
  <2>6. n \in Nat /\ place[t] # "granted" /\ place[t] # "waiting"
    BY <1>1, <1>3
  <2>7. NoStrandedWaiter'
    BY <1>1, <2>1, <2>6, InvFacts, SettleStrandsNobody DEF Inv
  <2> QED
    BY <2>2, <2>5, <2>7 DEF Inv
<1>4. CASE place[t] = "granted" /\ \E n \in {1, value + 1} : Settle(t, "idle", value + 1, n)
  <2>1. PICK n \in {1, value + 1} : Settle(t, "idle", value + 1, n)
    BY <1>4
  <2>2. PermitInv'
    BY <1>4, <2>1, GiveBack DEF Inv
  <2>3. n \in Nat /\ n > 0 /\ n <= value + 1 /\ value + 1 \in Nat
    BY <1>1, <2>1
  <2>4. value' \in Nat
    BY <1>1, <2>1, <2>3, InvFacts, WokenFew DEF Settle
  <2>5. value' \in 0 .. MaxConcurrent
    BY <2>2, <2>4, CounterFromPermits
  <2>6. TypeOK' /\ waiters' \in Seq(Tasks)
    BY <1>2, <2>1, <2>5, LeaveQueueType
  <2>7. NoStrandedWaiter'
    BY <1>4, <2>1, <2>3, InvFacts, SettleStrandsNobody DEF Inv
  <2> QED
    BY <2>2, <2>6, <2>7 DEF Inv
<1> QED
  BY <1>3, <1>4 DEF GiveUp

LEMMA LeaveInv ==
    ASSUME Inv, NEW t \in Tasks, Leave(t)
    PROVE  Inv'
<1>1. value \in Nat /\ value + 1 \in Nat /\ 1 \in Nat
  BY InvFacts
<1>2. place[t] = "calling" /\ Settle(t, "idle", value + 1, 1)
  BY DEF Leave
<1>3. PermitInv'
  BY <1>2, GiveBack DEF Inv
<1>4. value' \in Nat
  BY <1>1, <1>2, InvFacts, WokenFew DEF Settle
<1>5. value' \in 0 .. MaxConcurrent
  BY <1>3, <1>4, CounterFromPermits
<1>6. TypeOK' /\ waiters' \in Seq(Tasks)
  <2>1. Woken(1) \subseteq At("waiting")
    BY WokenWait
  <2>2. Queued' = Queued /\ waiters' = waiters
    BY DEF Leave, Queued
  <2>3. place' \in [Tasks -> Places]
    BY <1>2 DEF Inv, TypeOK, Settle, Places
  <2>4. \A u \in Tasks : place'[u] \in {"waiting", "granted", "dropped"} <=> u \in Queued'
    BY <1>2, <2>1, <2>2 DEF Inv, TypeOK, Settle, At
  <2>5. \A u \in Tasks : why'[u] # {} => place'[u] \in {"granted", "dropped"}
    BY <1>2, <2>1 DEF Inv, TypeOK, Settle, Leave, At
  <2> QED
    BY <1>5, <2>2, <2>3, <2>4, <2>5 DEF Inv, TypeOK, Leave
<1>7. NoStrandedWaiter'
  BY <1>1, <1>2, InvFacts, SettleStrandsNobody DEF Inv
<1> QED
  BY <1>3, <1>6, <1>7 DEF Inv

(* A task that finds the semaphore unlocked finds nobody waiting either.   *)
LEMMA UnlockedMeansEmpty ==
    ASSUME Inv, ~Locked
    PROVE  At("waiting") = {} /\ value # 0
BY DEF Inv, TypeOK, Locked, At

LEMMA EnterInv ==
    ASSUME Inv, NEW t \in Tasks, Enter(t)
    PROVE  Inv'
<1>1. At("waiting") = {} /\ value # 0
  BY UnlockedMeansEmpty DEF Enter
<1>2. place[t] \in Outside /\ place' = [place EXCEPT ![t] = "calling"] /\ value' = value - 1
  BY EnterMoves
<1>3. PermitInv'
  BY EnterTakesPermit DEF Inv
<1>4. value' \in Nat
  BY <1>1, <1>2, InvFacts
<1>5. value' \in 0 .. MaxConcurrent
  BY <1>3, <1>4, CounterFromPermits
<1>6. loop' \in {LoopOf[u] : u \in Tasks} \cup {NoLoop}
  BY EnterMoves
<1>7. waiters' = waiters /\ Queued' = Queued /\ why' = why /\ ahead' = ahead
  BY EnterMoves DEF Queued
<1>8. place' \in [Tasks -> Places]
  BY <1>2 DEF Inv, TypeOK, Places
<1>9. \A u \in Tasks : place'[u] \in {"waiting", "granted", "dropped"} <=> u \in Queued'
  BY <1>2, <1>7 DEF Inv, TypeOK, Outside
<1>10. \A u \in Tasks : why'[u] # {} => place'[u] \in {"granted", "dropped"}
  BY <1>2, <1>7 DEF Inv, TypeOK, Outside
<1>11. TypeOK'
  BY <1>5, <1>6, <1>7, <1>8, <1>9, <1>10 DEF Inv, TypeOK
<1>12. At("waiting")' = {}
  BY <1>1, <1>2 DEF Inv, TypeOK, At
<1> QED
  BY <1>3, <1>7, <1>11, <1>12 DEF Inv, NoStrandedWaiter

LEMMA WaitInv ==
    ASSUME Inv, NEW t \in Tasks, Wait(t)
    PROVE  Inv'
<1>1. place[t] \in Outside /\ place' = [place EXCEPT ![t] = "waiting"] /\ value' = value
  BY WaitMoves
<1>2. t \notin Queued
  BY <1>1 DEF Inv, TypeOK, Outside
<1>3. /\ waiters' \in Seq(Tasks) /\ IsInjective(waiters')
      /\ Queued' = Queued \cup {t}
  BY <1>2, InvFacts, OneMore DEF Wait
<1>4. PermitInv'
  BY HeldUntouched DEF Inv
<1>5. loop' \in {LoopOf[u] : u \in Tasks} \cup {NoLoop}
  BY WaitMoves
<1>6. Queued' \subseteq Tasks /\ place' \in [Tasks -> Places] /\ why' = why
  BY <1>1, <1>3 DEF Inv, TypeOK, Places, Wait
<1>7. \A u \in Tasks : place'[u] \in {"waiting", "granted", "dropped"} <=> u \in Queued'
  BY <1>1, <1>3 DEF Inv, TypeOK
<1>8. \A u \in Tasks : why'[u] # {} => place'[u] \in {"granted", "dropped"}
  BY <1>1, <1>6 DEF Inv, TypeOK, Outside
<1>9. ahead' \in [Tasks -> SUBSET Queued']
  BY <1>3 DEF Inv, TypeOK, Wait
<1>10. TypeOK'
  BY <1>1, <1>3, <1>5, <1>6, <1>7, <1>8, <1>9 DEF Inv, TypeOK
<1>11. NoStrandedWaiter'
  <2>1. SUFFICES ASSUME value > 0 PROVE At("granted")' # {}
    BY <1>1 DEF NoStrandedWaiter
  <2>2. PICK u \in Queued : place[u] # "dropped"
    BY <2>1, InvFacts DEF Wait, Locked
  <2>3. At("waiting") # {} \/ At("granted") # {}
    BY <2>2 DEF Inv, TypeOK, At
  <2>4. At("granted") # {}
    BY <2>1, <2>3 DEF Inv, NoStrandedWaiter
  <2> QED
    BY <1>1, <2>4 DEF Inv, TypeOK, At, Outside
<1> QED
  BY <1>3, <1>4, <1>10, <1>11 DEF Inv

LEMMA GuardInv ==
    ASSUME Inv, NEW t \in Tasks, Guard(t)
    PROVE  Inv'
<1>1. PICK to \in Outside : place' = [place EXCEPT ![t] = to]
  BY GuardMoves
<1>2. place[t] \in Outside /\ UNCHANGED <<loop, value, waiters, why, ahead>> /\ Queued' = Queued
  BY GuardMoves DEF Queued
<1>3. PermitInv'
  BY HeldUntouched DEF Inv
<1>4. \A p : p \notin Outside => At(p)' = At(p)
  BY <1>1, <1>2 DEF Inv, TypeOK, At
<1>5. place' \in [Tasks -> Places]
  BY <1>1 DEF Inv, TypeOK, Places, Outside
<1>6. \A u \in Tasks : place'[u] # place[u] => place[u] \in Outside /\ place'[u] \in Outside
  BY <1>1, <1>2 DEF Inv, TypeOK
<1>7. TypeOK'
  BY <1>2, <1>5, <1>6 DEF Inv, TypeOK, Outside
<1>8. At("waiting")' = At("waiting") /\ At("granted")' = At("granted")
  BY <1>4 DEF Outside
<1>9. NoStrandedWaiter'
  BY <1>2, <1>8 DEF Inv, NoStrandedWaiter
<1> QED
  BY <1>2, <1>3, <1>7, <1>9 DEF Inv

LEMMA StopInv ==
    ASSUME Inv, NEW t \in Tasks, NEW cause \in Causes, Stop(t, cause)
    PROVE  Inv'
<1>1. t \in Queued /\ waiters' = waiters /\ Queued' = Queued /\ value' = value /\ loop' = loop
  BY DEF Stop, Queued
<1>2. PermitInv'
  BY HeldUntouched DEF Inv
<1>3. place' = [u \in Tasks |-> IF u = t /\ place[u] = "waiting" THEN "dropped" ELSE place[u]]
  BY DEF Inv, TypeOK, Stop
<1>4. place' \in [Tasks -> Places]
  BY <1>3 DEF Inv, TypeOK, Places
<1>5. why' \in [Tasks -> SUBSET Causes] /\ ahead' \in [Tasks -> SUBSET Queued']
  BY <1>1 DEF Inv, TypeOK, Stop
<1>6. \A u \in Tasks : place'[u] \in {"waiting", "granted", "dropped"} <=> u \in Queued'
  BY <1>1, <1>3 DEF Inv, TypeOK
<1>7. \A u \in Tasks : why'[u] # {} => place'[u] \in {"granted", "dropped"}
  BY <1>1, <1>3 DEF Inv, TypeOK, Stop
<1>8. TypeOK'
  BY <1>1, <1>4, <1>5, <1>6, <1>7 DEF Inv, TypeOK
<1>9. At("waiting")' \subseteq At("waiting") /\ At("granted")' = At("granted")
  BY <1>3 DEF At
<1>10. NoStrandedWaiter'
  BY <1>1, <1>9 DEF Inv, NoStrandedWaiter
<1> QED
  BY <1>1, <1>2, <1>8, <1>10 DEF Inv

LEMMA InvStep ==
    ASSUME Inv, [Next]_vars
    PROVE  Inv'
<1>1. CASE UNCHANGED vars
  BY <1>1, PermitsStep
  DEF vars, Inv, TypeOK, Queued, NoStrandedWaiter, At, PermitInv, PlaceType, Held
<1>2. ASSUME NEW t \in Tasks, Enter(t) PROVE Inv'
  BY <1>2, EnterInv
<1>3. ASSUME NEW t \in Tasks, Wait(t) PROVE Inv'
  BY <1>3, WaitInv
<1>4. ASSUME NEW t \in Tasks, Expire(t) \/ Cancel(t) PROVE Inv'
  BY <1>4, StopInv DEF Expire, Cancel, Causes
<1>5. ASSUME NEW t \in Tasks, Serve(t) PROVE Inv'
  BY <1>5, ServeInv
<1>6. ASSUME NEW t \in Tasks, Refuse(t) \/ Abort(t) PROVE Inv'
  BY <1>6, GiveUpInv DEF Refuse, Abort
<1>7. ASSUME NEW t \in Tasks, Leave(t) PROVE Inv'
  BY <1>7, LeaveInv
<1>8. ASSUME NEW t \in Tasks, Guard(t) PROVE Inv'
  BY <1>8, GuardInv
<1> QED
  BY <1>1, <1>2, <1>3, <1>4, <1>5, <1>6, <1>7, <1>8 DEF Next

LEMMA InvInit == Init => Inv
<1> SUFFICES ASSUME Init PROVE Inv
  OBVIOUS
<1>1. waiters \in Seq(Tasks) /\ DOMAIN waiters = {} /\ Queued = {}
  BY DEF Init, Queued
<1>2. TypeOK
  BY <1>1, BulkheadAssumption DEF Init, TypeOK, Places, Causes, IsInjective
<1>3. NoStrandedWaiter
  BY DEF Init, NoStrandedWaiter, At
<1> QED
  BY <1>1, <1>2, <1>3, PermitsInit DEF Inv

(* The counter stays within its bounds, the queue holds each waiter once,  *)
(* and a task that has been told to stop is one that will run again.       *)
THEOREM BulkheadTypeCorrect == Spec => []TypeOK
<1>1. Inv => TypeOK
  BY DEF Inv
<1> QED
  BY <1>1, InvInit, InvStep, PTL DEF Spec

(* No task sleeps beside a free permit with nobody on the way to wake it,  *)
(* for every number of permits that are given back, given up and cancelled *)
(* at the same time.                                                       *)
THEOREM NobodyStranded == Spec => []NoStrandedWaiter
<1>1. Inv => NoStrandedWaiter
  BY DEF Inv
<1> QED
  BY <1>1, InvInit, InvStep, PTL DEF Spec

-----------------------------------------------------------------------------
(* The async bulkhead implements SlotPool: futures, grants that are on     *)
(* their way and timeouts that race them come to at most max_concurrent    *)
(* callers inside and an order of service nobody breaks.                   *)

order == {p \in At("waiting") \X At("waiting") : Before(p[1], p[2])}

(* SlotPool counts as we do.                                               *)
LEMMA SameCount == \A S : Pool!Cardinality(S) = Cardinality(S)
BY Zenon DEF Pool!Cardinality, Cardinality

LEMMA OrderPairs ==
    \A t, u : <<t, u>> \in order <=> t \in At("waiting") /\ u \in At("waiting") /\ Before(t, u)
BY DEF order

LEMMA HeldBounded ==
    ASSUME Inv
    PROVE  Cardinality(Held) <= MaxConcurrent
<1>1. value \in Nat /\ value + Cardinality(Held) = MaxConcurrent
  BY InvFacts DEF Inv, PermitInv
<1> QED
  BY <1>1, HeldFinite

(* The queue of the semaphore as an order of those that wait: tasks that   *)
(* are no longer waiting drop out of it and leave the others as they were. *)
LEMMA OrderAfterDeparture ==
    ASSUME Inv, NEW S, At("waiting")' = At("waiting") \ S,
           \A u, v \in At("waiting") \ S : Before(u, v)' <=> Before(u, v)
    PROVE  Pool!Depart(S)
<1>1. order' = {p \in order : p[1] \notin S /\ p[2] \notin S}
  BY DEF order
<1> QED
  BY <1>1 DEF Pool!Depart, order

(* A task passes permits on, and stays in or leaves.                       *)
LEMMA SettleLetsIn ==
    ASSUME Inv, Inv', NEW t \in Tasks, NEW goes \in {"idle", "calling"},
           NEW permits, NEW n \in Int, place[t] # "waiting",
           (LeaveQueue(t) /\ t \in Queued) \/ UNCHANGED waiters,
           Settle(t, goes, permits, n)
    PROVE  /\ Woken(n) \in SUBSET At("waiting")
           /\ Pool!LetIn(Woken(n), IF goes = "calling" THEN Held \cup {t} ELSE Held \ {t})
<1> DEFINE woken == Woken(n)
           staying == IF goes = "calling" THEN Held \cup {t} ELSE Held \ {t}
<1>1. woken \subseteq At("waiting")
  BY WokenWait
<1>2. \A v \in At("waiting"), u \in woken : <<v, u>> \in order => v \in woken
  BY InvFacts, OrderPairs, WokenInOrder
<1>3. At("waiting")' = At("waiting") \ woken
  BY <1>1 DEF Settle, At
<1>4. \A u, v \in At("waiting") \ woken : Before(u, v)' <=> Before(u, v)
  <2>1. CASE LeaveQueue(t) /\ t \in Queued
    <3>1. \A u, v \in Tasks \ {t} : Before(u, v)' <=> Before(u, v)
      BY <2>1, InvFacts, OneLeaves
    <3> QED
      BY <3>1 DEF At
  <2>2. CASE UNCHANGED waiters
    BY <2>2 DEF Before
  <2> QED
    BY <2>1, <2>2
<1>5. Pool!Depart(woken)
  BY <1>3, <1>4, OrderAfterDeparture
<1>6. Held' = staying \cup woken
  BY <1>1 DEF Settle, Held, At
<1>7. Cardinality(Held') <= MaxConcurrent
  <2>1. value' \in Nat /\ value' + Cardinality(Held') = MaxConcurrent
    BY DEF Inv, TypeOK, PermitInv
  <2>2. Held' \in SUBSET Tasks
    BY DEF Held, At
  <2>3. Cardinality(Held') \in Nat
    BY <2>2, BulkheadAssumption, FS_Subset, FS_CardinalityType
  <2> QED
    BY <2>1, <2>3
<1> QED
  BY <1>1, <1>2, <1>5, <1>6, <1>7, SameCount DEF Pool!LetIn, order

LEMMA PoolInit == Init => Pool!Init
BY DEF Init, Pool!Init, Held, At

LEMMA EnterIsEnter ==
    ASSUME Inv, Inv', NEW t \in Tasks, Enter(t)
    PROVE  Pool!Enter(t)
<1>1. At("waiting") = {}
  BY UnlockedMeansEmpty DEF Enter
<1>2. /\ place[t] \in Outside /\ waiters' = waiters
      /\ place' = [place EXCEPT ![t] = "calling"]
  BY EnterMoves
<1>3. Held' = Held \cup {t} /\ t \notin Held /\ At("waiting")' = At("waiting")
  BY <1>2 DEF Inv, TypeOK, Held, At, Outside
<1>4. order' = order
  BY <1>1, <1>3 DEF order
<1>5. Cardinality(Held') <= MaxConcurrent
  <2>1. value' \in Nat /\ value' + Cardinality(Held') = MaxConcurrent
    BY DEF Inv, TypeOK, PermitInv
  <2>2. Cardinality(Held') \in Nat
    BY <1>3, HeldFinite, FS_AddElement
  <2> QED
    BY <2>1, <2>2
<1> QED
  BY <1>1, <1>3, <1>4, <1>5, SameCount DEF Pool!Enter, order

LEMMA WaitIsWait ==
    ASSUME Inv, NEW t \in Tasks, Wait(t)
    PROVE  Pool!Wait(t)
<1>1. place[t] \in Outside /\ place' = [place EXCEPT ![t] = "waiting"]
  BY WaitMoves
<1>2. t \notin Queued
  BY <1>1 DEF Inv, TypeOK, Outside
<1>3. \A u, v \in Tasks : Before(u, v)' <=> Before(u, v) \/ (u \in Queued /\ v = t)
  BY <1>2, InvFacts, OneMore DEF Wait
<1>4. At("waiting")' = At("waiting") \cup {t} /\ Held' = Held /\ t \notin Held \cup At("waiting")
  BY <1>1 DEF Inv, TypeOK, Held, At, Outside
<1>5. \A u : ~Before(t, u) /\ ~Before(t, t)
  BY <1>2 DEF Before, Queued
<1>6. At("waiting") \subseteq Queued /\ At("waiting") \subseteq Tasks
  BY DEF Inv, TypeOK, At
<1>7. order' = order \cup (At("waiting") \X {t})
  <2>1. ASSUME NEW p \in order' PROVE p \in order \cup (At("waiting") \X {t})
    <3>1. PICK u, v \in At("waiting")' : p = <<u, v>> /\ Before(u, v)'
      BY <2>1 DEF order
    <3>2. u \in Tasks /\ v \in Tasks
      BY <1>4, <1>6, <3>1
    <3>3. Before(u, v) \/ (u \in Queued /\ v = t)
      BY <1>3, <3>1, <3>2
    <3>4. u \in At("waiting")
      BY <1>2, <1>4, <1>5, <3>1, <3>3
    <3>5. v # t => Before(u, v) /\ v \in At("waiting")
      BY <1>4, <3>1, <3>3
    <3> QED
      BY <3>1, <3>4, <3>5 DEF order
  <2>2. ASSUME NEW p \in order PROVE p \in order'
    <3>1. PICK u, v \in At("waiting") : p = <<u, v>> /\ Before(u, v)
      BY <2>2 DEF order
    <3>2. Before(u, v)' /\ u \in At("waiting")' /\ v \in At("waiting")'
      BY <1>3, <1>4, <1>6, <3>1
    <3> QED
      BY <3>1, <3>2 DEF order
  <2>3. ASSUME NEW u \in At("waiting") PROVE <<u, t>> \in order'
    <3>1. Before(u, t)' /\ u \in At("waiting")' /\ t \in At("waiting")'
      BY <1>3, <1>4, <1>6
    <3> QED
      BY <3>1 DEF order
  <2> QED
    BY <2>1, <2>2, <2>3
<1> QED
  BY <1>4, <1>7 DEF Pool!Wait, order

(* What tells a waiting task to stop takes it out of the order; one that   *)
(* has been granted a permit keeps it for now.                             *)
LEMMA StopIsGiveUp ==
    ASSUME Inv, NEW t \in Tasks, NEW cause, Stop(t, cause)
    PROVE  Pool!GiveUp(t) \/ UNCHANGED <<Held, At("waiting"), order>>
<1>1. \A u, v : Before(u, v)' <=> Before(u, v)
  BY DEF Stop, Before
<1>2. CASE place[t] = "waiting"
  <2>1. At("waiting")' = At("waiting") \ {t} /\ Held' = Held /\ t \in At("waiting")
    BY <1>2 DEF Inv, TypeOK, Stop, Held, At
  <2>2. Pool!Depart({t})
    BY <1>1, <2>1, OrderAfterDeparture
  <2> QED
    BY <2>1, <2>2 DEF Pool!GiveUp
<1>3. CASE place[t] # "waiting"
  <2>1. Held' = Held /\ At("waiting")' = At("waiting")
    BY <1>3 DEF Stop, Held, At
  <2> QED
    BY <1>1, <2>1 DEF order
<1> QED
  BY <1>2, <1>3

LEMMA ServeIsAdmit ==
    ASSUME Inv, Inv', NEW t \in Tasks, Serve(t)
    PROVE  Pool!Admit
<1>1. place[t] = "granted" /\ LeaveQueue(t) /\ t \in Queued
  BY DEF Serve, Inv, TypeOK
<1>2. PICK n \in {Min({1, value}), value} : Settle(t, "calling", value, n)
  BY DEF Serve
<1>3. n \in Int
  <2>1. 1 \in Int /\ value \in Int /\ (1 <= value \/ value <= 1) /\ 1 <= 1 /\ value <= value
    BY InvFacts
  <2>2. \E x \in {1, value} : \A y \in {1, value} : x <= y
    BY <2>1
  <2>3. Min({1, value}) \in {1, value}
    BY <2>2, Zenon DEF Min
  <2> QED
    BY <1>2, <2>1, <2>3
<1>4. Held \cup {t} = Held
  BY <1>1 DEF Held, At
<1>5. Woken(n) \in SUBSET At("waiting") /\ Pool!LetIn(Woken(n), Held)
  BY <1>1, <1>2, <1>3, <1>4, SettleLetsIn
<1> QED
  BY <1>5 DEF Pool!Admit

LEMMA GiveUpIsAdmitOrLeave ==
    ASSUME Inv, Inv', NEW t \in Tasks, t \in Queued, GiveUp(t)
    PROVE  Pool!Admit \/ Pool!Leave(t)
<1>1. LeaveQueue(t) /\ value \in Int /\ value + 1 \in Int
  BY InvFacts DEF GiveUp
<1>2. CASE place[t] = "dropped" /\ \E n \in {0, value} : Settle(t, "idle", value, n)
  <2>1. PICK n \in {0, value} : Settle(t, "idle", value, n)
    BY <1>2
  <2>2. n \in Int /\ Held \ {t} = Held
    BY <1>1, <1>2 DEF Held, At
  <2>3. Woken(n) \in SUBSET At("waiting") /\ Pool!LetIn(Woken(n), Held)
    BY <1>1, <1>2, <2>1, <2>2, SettleLetsIn
  <2> QED
    BY <2>3 DEF Pool!Admit
<1>3. CASE place[t] = "granted" /\ \E n \in {1, value + 1} : Settle(t, "idle", value + 1, n)
  <2>1. PICK n \in {1, value + 1} : Settle(t, "idle", value + 1, n)
    BY <1>3
  <2>2. n \in Int /\ t \in Held
    BY <1>1, <1>3 DEF Held, At
  <2>3. Woken(n) \in SUBSET At("waiting") /\ Pool!LetIn(Woken(n), Held \ {t})
    BY <1>1, <1>3, <2>1, <2>2, SettleLetsIn
  <2> QED
    BY <2>2, <2>3 DEF Pool!Leave
<1> QED
  BY <1>2, <1>3 DEF GiveUp

LEMMA LeaveIsLeave ==
    ASSUME Inv, Inv', NEW t \in Tasks, Leave(t)
    PROVE  Pool!Leave(t)
<1>1. place[t] = "calling" /\ Settle(t, "idle", value + 1, 1) /\ UNCHANGED waiters
  BY DEF Leave
<1>2. t \in Held
  BY <1>1 DEF Held, At
<1>3. Woken(1) \in SUBSET At("waiting") /\ Pool!LetIn(Woken(1), Held \ {t})
  <2>1. 1 \in Int /\ place[t] # "waiting" /\ "idle" \in {"idle", "calling"}
    BY <1>1
  <2> QED
    BY <1>1, <2>1, SettleLetsIn
<1> QED
  BY <1>2, <1>3 DEF Pool!Leave

LEMMA PoolStep ==
    ASSUME Inv, Inv', [Next]_vars
    PROVE  [Pool!Next]_(Pool!vars)
<1>1. CASE UNCHANGED vars
  BY <1>1 DEF vars, Pool!vars, Held, At, Before
<1>2. ASSUME NEW t \in Tasks, Enter(t) PROVE Pool!Next
  BY <1>2, EnterIsEnter DEF Pool!Next
<1>3. ASSUME NEW t \in Tasks, Wait(t) PROVE Pool!Next
  BY <1>3, WaitIsWait DEF Pool!Next
<1>4. ASSUME NEW t \in Tasks, NEW cause, Stop(t, cause) PROVE [Pool!Next]_(Pool!vars)
  BY <1>4, StopIsGiveUp DEF Pool!Next, Pool!vars, order
<1>5. ASSUME NEW t \in Tasks, Serve(t) PROVE Pool!Next
  BY <1>5, ServeIsAdmit DEF Pool!Next
<1>6. ASSUME NEW t \in Tasks, Refuse(t) \/ Abort(t) PROVE Pool!Next
  BY <1>6, GiveUpIsAdmitOrLeave DEF Refuse, Abort, Pool!Next
<1>7. ASSUME NEW t \in Tasks, Leave(t) PROVE Pool!Next
  BY <1>7, LeaveIsLeave DEF Pool!Next
<1>8. ASSUME NEW t \in Tasks, Guard(t) PROVE UNCHANGED Pool!vars
  <2>1. PICK to \in Outside : place' = [place EXCEPT ![t] = to]
    BY <1>8, GuardMoves
  <2>2. place[t] \in Outside /\ waiters' = waiters
    BY <1>8, GuardMoves
  <2>3. Held' = Held /\ At("waiting")' = At("waiting")
    BY <2>1, <2>2 DEF Inv, TypeOK, Held, At, Outside
  <2> QED
    BY <2>2, <2>3 DEF Pool!vars, Before
<1> QED
  BY <1>1, <1>2, <1>3, <1>4, <1>5, <1>6, <1>7, <1>8 DEF Next, Expire, Cancel

(* At most max_concurrent callers have a permit at any time, and whoever   *)
(* has to wait is served in turn: nobody who came later gets in before,    *)
(* through no interleaving of grants, timeouts and cancellations.          *)
THEOREM BulkheadIsPool == Spec => ImplementsPool
<1>1. Spec => []Inv
  BY InvInit, InvStep, PTL DEF Spec
<1>2. Inv /\ Inv' /\ [Next]_vars => [Pool!Next]_(Pool!vars)
  BY PoolStep
<1> QED
  BY <1>1, <1>2, PoolInit, PTL DEF Spec, ImplementsPool, Pool!Spec

-----------------------------------------------------------------------------
(* Whatever surrounds it, the bulkhead only does what it does alone.       *)
LEMMA StackStepsAreSteps == [StackNext]_stackVars => [Next]_vars
<1> SUFFICES ASSUME [StackNext]_stackVars PROVE [Next]_vars
  OBVIOUS
<1>1. CASE UNCHANGED stackVars \/ Hang
  BY <1>1 DEF stackVars, Hang, slots, vars
<1>2. ASSUME NEW t \in Tasks, AtGuard(t) \/ Call(t) PROVE Next
  BY <1>2 DEF AtGuard, Call, Next
<1>3. ASSUME NEW t \in Tasks, AcquireTimeout(t) PROVE Next
  BY <1>3 DEF AcquireTimeout, Next
<1>4. ASSUME NEW t \in Tasks, Run(t) PROVE Next
  BY <1>4 DEF Run, GetSlot, BulkheadFull, StopsWaiting, Answer, Interrupted, Next
<1>5. ASSUME NEW t \in Tasks, NEW cause, Tell(t, cause) PROVE [Next]_vars
  BY <1>5 DEF Tell, Next, slots, vars
<1> QED
  BY <1>1, <1>2, <1>3, <1>4, <1>5 DEF StackNext

(* So the bulkhead's theorems hold inside the stack: permits, order of     *)
(* service, one loop, nobody stranded.                                     *)
THEOREM StackRunsBulkhead == StackSafe => Spec
<1>1. StackInit => Init
  BY DEF StackInit
<1> QED
  BY <1>1, StackStepsAreSteps, PTL DEF StackSafe, Spec

(* No permit is lost when a deadline, a cancellation and an acquire        *)
(* timeout meet a grant.                                                   *)
THEOREM StackKeepsPermits == StackSafe => []PermitsConserved
  BY StackRunsBulkhead, PermitsNeverLost, PTL

-----------------------------------------------------------------------------
(* The inductive invariant: whose results count depends on the phase, and  *)
(* what a task has been told is what its place in the queue shows.         *)
CircuitType ==
    /\ phase \in {"CLOSED", "OPEN", "HALF_OPEN"}
    /\ streak \in 0 .. FailureThreshold - 1 /\ proven \in 0 .. SuccessThreshold - 1
    /\ Cardinality(probes) <= 1 /\ members \cap probes = {}

Owners ==
    /\ members # {} => phase = "CLOSED"
    /\ probes # {} => phase = "HALF_OPEN"

ToldInv ==
    /\ told \in [Tasks -> {"nothing", "deadline", "cancellation"}]
    /\ \A t \in Tasks :
         /\ t \in Queued => (told[t] # "nothing" <=> "cancellation" \in why[t])
         /\ place[t] \in Outside => told[t] = "nothing"

StackInv ==
    /\ Inv
    /\ CircuitType
    /\ Owners
    /\ BreakerKnowsCalls
    /\ ToldInv

(* Who has reported counts no more, and nobody else is affected but by a   *)
(* transition, after which nobody counts.                                  *)
LEMMA RecordEffect ==
    ASSUME CircuitType, Owners, NEW t, NEW outcome, Record(t, outcome)
    PROVE  /\ CircuitType'
           /\ Owners'
           /\ members' \cup probes' \subseteq (members \cup probes) \ {t}
<1>1. Cardinality({}) = 0
  BY FS_EmptySet
<1>2. FailureThreshold \in Nat \ {0} /\ SuccessThreshold \in Nat \ {0}
  BY StackAssumption
<1>3. CASE Circuit!Open
  BY <1>1, <1>2, <1>3 DEF Circuit!Open, CircuitType, Owners
<1>4. CASE Circuit!Settle(t)
  <2>1. phase = "CLOSED" /\ probes = {}
    BY <1>4 DEF Circuit!Settle, Owners
  <2>2. members' = members \ {t} /\ probes' = {} /\ phase' = "CLOSED" /\ proven' = proven
    BY <1>4, <2>1 DEF Circuit!Settle
  <2>3. streak' \in 0 .. FailureThreshold - 1
    BY <1>2, <1>4 DEF Circuit!Settle, CircuitType
  <2> QED
    BY <1>1, <2>2, <2>3 DEF CircuitType, Owners
<1>5. CASE Circuit!ProbeSucceeds(t)
  <2>1. members = {} /\ phase = "HALF_OPEN" /\ members' = {} /\ probes' = {}
    BY <1>5 DEF Circuit!ProbeSucceeds, Owners
  <2>2. /\ streak' \in 0 .. FailureThreshold - 1 /\ proven' \in 0 .. SuccessThreshold - 1
        /\ phase' \in {"CLOSED", "HALF_OPEN"}
    BY <1>2, <1>5, <2>1 DEF Circuit!ProbeSucceeds, CircuitType
  <2> QED
    BY <1>1, <2>1, <2>2 DEF CircuitType, Owners
<1>6. CASE Circuit!ProbeInconclusive(t)
  <2>1. members = {} /\ members' = {} /\ probes' = {}
    BY <1>6 DEF Circuit!ProbeInconclusive, Owners
  <2>2. phase' = phase /\ streak' = streak /\ proven' = proven
    BY <1>6 DEF Circuit!ProbeInconclusive
  <2> QED
    BY <1>1, <2>1, <2>2 DEF CircuitType, Owners
<1>7. CASE t \notin members \cup probes /\ UNCHANGED circuit
  BY <1>7 DEF circuit, CircuitType, Owners
<1> QED
  BY <1>3, <1>4, <1>5, <1>6, <1>7 DEF Record, Circuit!Trip, Circuit!ProbeFails

LEMMA AdmittedEffect ==
    ASSUME CircuitType, Owners, NEW t, Admitted(t)
    PROVE  /\ CircuitType'
           /\ Owners'
           /\ members' \cup probes' \subseteq members \cup probes \cup {t}
<1>1. CASE Circuit!Admit(t)
  BY <1>1 DEF Circuit!Admit, CircuitType, Owners
<1>2. CASE Circuit!AdmitProbe(t)
  <2>1. Cardinality({t}) = 1
    BY FS_Singleton
  <2>2. members = {} /\ members' = {} /\ probes' = {t} /\ phase' = "HALF_OPEN"
    BY <1>2 DEF Circuit!AdmitProbe, Owners
  <2> QED
    BY <1>2, <2>1, <2>2 DEF Circuit!AdmitProbe, CircuitType, Owners
<1> QED
  BY <1>1, <1>2 DEF Admitted

LEMMA CircuitUntouched ==
    ASSUME CircuitType, Owners, UNCHANGED circuit
    PROVE  CircuitType' /\ Owners' /\ members' \cup probes' = members \cup probes
BY DEF CircuitType, Owners, circuit

-----------------------------------------------------------------------------
(* What a task leaves behind in the bulkhead when it goes on from there,   *)
(* to its call or out of the stack.                                        *)
LEMMA OthersStay ==
    ASSUME Inv, Inv', NEW t \in Tasks, NEW goes \in {"idle", "calling"}, place[t] # "waiting",
           NEW permits, NEW n, Settle(t, goes, permits, n),
           why' = [why EXCEPT ![t] = {}] \/ why' = why
    PROVE  /\ place'[t] = goes
           /\ t \notin Queued'
           /\ \A u \in Tasks \ {t} : /\ place'[u] \in Outside <=> place[u] \in Outside
                                     /\ u \in Queued' => u \in Queued
                                     /\ why'[u] = why[u]
<1>1. Woken(n) \subseteq At("waiting")
  BY WokenWait
<1>2. place'[t] = goes
  BY DEF Settle
<1>3. t \notin Queued'
  BY <1>2 DEF Inv, TypeOK
<1>4. \A u \in Tasks \ {t} : place'[u] \in Outside <=> place[u] \in Outside
  BY <1>1 DEF Settle, At, Outside
<1>5. \A u \in Tasks \ {t} : u \in Queued' => u \in Queued
  BY <1>1 DEF Inv, TypeOK, Settle, At
<1>6. \A u \in Tasks \ {t} : why'[u] = why[u]
  BY DEF Inv, TypeOK
<1> QED
  BY <1>2, <1>3, <1>4, <1>5, <1>6

LEMMA ReturnInv ==
    ASSUME StackInv, Inv', NEW t \in Tasks, NEW r, (t \in Queued /\ GiveUp(t)) \/ Leave(t),
           Return(t, r)
    PROVE  StackInv'
<1>1. place[t] # "waiting" /\ (why' = [why EXCEPT ![t] = {}] \/ why' = why)
  BY DEF GiveUp, LeaveQueue, Leave
<1>2. \E permits, n : Settle(t, "idle", permits, n)
  BY DEF GiveUp, Leave
<1>3. /\ place'[t] = "idle"
      /\ t \notin Queued'
      /\ \A u \in Tasks \ {t} : /\ place'[u] \in Outside <=> place[u] \in Outside
                                /\ u \in Queued' => u \in Queued
                                /\ why'[u] = why[u]
  BY <1>1, <1>2, OthersStay DEF StackInv
<1>4. CircuitType' /\ Owners' /\ members' \cup probes' \subseteq (members \cup probes) \ {t}
  BY RecordEffect DEF StackInv, Return, Report
<1>5. BreakerKnowsCalls'
  BY <1>3, <1>4 DEF StackInv, BreakerKnowsCalls
<1>6. told' = [told EXCEPT ![t] = "nothing"]
  BY DEF Return
<1>7. \A u \in Tasks \ {t} : told'[u] = told[u]
  BY <1>6 DEF StackInv, ToldInv
<1>8. \A u \in Tasks :
        /\ u \in Queued' => (told'[u] # "nothing" <=> "cancellation" \in why'[u])
        /\ place'[u] \in Outside => told'[u] = "nothing"
  BY <1>3, <1>6, <1>7 DEF StackInv, ToldInv
<1>9. ToldInv'
  BY <1>6, <1>8 DEF StackInv, ToldInv
<1> QED
  BY <1>4, <1>5, <1>9 DEF StackInv

LEMMA GetSlotInv ==
    ASSUME StackInv, Inv', NEW t \in Tasks, GetSlot(t)
    PROVE  StackInv'
<1>1. place[t] = "granted" /\ why' = [why EXCEPT ![t] = {}] /\ told' = told /\ UNCHANGED circuit
  BY DEF GetSlot, Serve, LeaveQueue
<1>2. \E n : Settle(t, "calling", value, n)
  BY DEF GetSlot, Serve
<1>3. /\ place'[t] = "calling"
      /\ t \notin Queued'
      /\ \A u \in Tasks \ {t} : /\ place'[u] \in Outside <=> place[u] \in Outside
                                /\ u \in Queued' => u \in Queued
                                /\ why'[u] = why[u]
  BY <1>1, <1>2, OthersStay DEF StackInv
<1>4. CircuitType' /\ Owners' /\ members' \cup probes' = members \cup probes
  BY <1>1, CircuitUntouched DEF StackInv
<1>5. BreakerKnowsCalls'
  BY <1>3, <1>4 DEF StackInv, BreakerKnowsCalls, Outside
<1>6. ToldInv'
  BY <1>1, <1>3 DEF StackInv, ToldInv, Outside
<1> QED
  BY <1>4, <1>5, <1>6 DEF StackInv

LEMMA CallInv ==
    ASSUME StackInv, Inv', NEW t \in Tasks, Call(t)
    PROVE  StackInv'
<1>1. place[t] \in Outside /\ told' = told /\ Admitted(t) /\ why' = why
  BY EnterMoves, WaitMoves DEF Call
<1>2. place'[t] \notin Outside /\ \A u \in Tasks \ {t} : place'[u] = place[u]
  BY EnterMoves, WaitMoves DEF Call, StackInv, Inv, TypeOK, Outside
<1>3. CircuitType' /\ Owners' /\ members' \cup probes' \subseteq members \cup probes \cup {t}
  BY <1>1, AdmittedEffect DEF StackInv
<1>4. BreakerKnowsCalls'
  BY <1>2, <1>3 DEF StackInv, BreakerKnowsCalls
<1>5. told[t] = "nothing" /\ "cancellation" \notin why[t]
  BY <1>1 DEF StackInv, ToldInv, Inv, TypeOK, Outside
<1>6. \A u \in Tasks \ {t} : u \in Queued' => u \in Queued
  BY <1>2 DEF StackInv, Inv, TypeOK
<1>7. ToldInv'
  BY <1>1, <1>2, <1>5, <1>6 DEF StackInv, ToldInv
<1> QED
  BY <1>3, <1>4, <1>7 DEF StackInv

(* Who is held up at the guard has not called the breaker yet.             *)
LEMMA AtGuardEffect ==
    ASSUME Inv, NEW t \in Tasks, AtGuard(t)
    PROVE  /\ Queued' = Queued /\ UNCHANGED <<circuit, told, why>>
           /\ \A u \in Tasks : place'[u] \in Outside <=> place[u] \in Outside
BY GuardMoves DEF AtGuard, Inv, TypeOK, Queued

LEMMA AtGuardInv ==
    ASSUME StackInv, Inv', NEW t \in Tasks, AtGuard(t)
    PROVE  StackInv'
<1>1. /\ Queued' = Queued /\ UNCHANGED <<circuit, told, why>>
      /\ \A u \in Tasks : place'[u] \in Outside <=> place[u] \in Outside
  BY AtGuardEffect DEF StackInv
<1>2. CircuitType' /\ Owners' /\ members' \cup probes' = members \cup probes
  BY <1>1, CircuitUntouched DEF StackInv
<1>3. BreakerKnowsCalls' /\ ToldInv'
  BY <1>1, <1>2 DEF StackInv, BreakerKnowsCalls, ToldInv
<1> QED
  BY <1>2, <1>3 DEF StackInv

(* To be told to stop takes nobody out of a call yet.                      *)
LEMMA StopEffect ==
    ASSUME Inv, NEW t \in Tasks, NEW cause \in Causes, Stop(t, cause)
    PROVE  /\ Queued' = Queued
           /\ \A u \in Tasks : place'[u] \in Outside <=> place[u] \in Outside
           /\ \A u \in Tasks : why'[u] = IF u = t THEN why[u] \cup {cause} ELSE why[u]
BY DEF Inv, TypeOK, Stop, Queued, Outside

LEMMA AcquireTimeoutInv ==
    ASSUME StackInv, Inv', NEW t \in Tasks, AcquireTimeout(t)
    PROVE  StackInv'
<1>1. Stop(t, "timeout") /\ told' = told /\ UNCHANGED circuit
  BY DEF AcquireTimeout, Expire
<1>2. /\ Queued' = Queued
      /\ \A u \in Tasks : place'[u] \in Outside <=> place[u] \in Outside
      /\ \A u \in Tasks : "cancellation" \in why'[u] <=> "cancellation" \in why[u]
  BY <1>1, StopEffect DEF StackInv, Causes
<1>3. CircuitType' /\ Owners' /\ members' \cup probes' = members \cup probes
  BY <1>1, CircuitUntouched DEF StackInv
<1>4. BreakerKnowsCalls' /\ ToldInv'
  BY <1>1, <1>2, <1>3 DEF StackInv, BreakerKnowsCalls, ToldInv
<1> QED
  BY <1>3, <1>4 DEF StackInv

LEMMA TellInv ==
    ASSUME StackInv, Inv', NEW t \in Tasks, NEW cause \in {"deadline", "cancellation"},
           Tell(t, cause)
    PROVE  StackInv'
<1>1. place[t] \notin Outside /\ told' = [told EXCEPT ![t] = cause] /\ UNCHANGED circuit
  BY DEF Tell
<1>2. CircuitType' /\ Owners' /\ members' \cup probes' = members \cup probes
  BY <1>1, CircuitUntouched DEF StackInv
<1>3. \A u \in Tasks : told'[u] = IF u = t THEN cause ELSE told[u]
  BY <1>1 DEF StackInv, ToldInv
<1>4. CASE t \in Queued /\ told[t] = "nothing"
  <2>1. Stop(t, "cancellation")
    BY <1>4 DEF Tell, Cancel
  <2>2. /\ Queued' = Queued
        /\ \A u \in Tasks : place'[u] \in Outside <=> place[u] \in Outside
        /\ \A u \in Tasks : why'[u] = IF u = t THEN why[u] \cup {"cancellation"} ELSE why[u]
    BY <2>1, StopEffect DEF StackInv, Causes
  <2>3. BreakerKnowsCalls'
    BY <1>2, <2>2 DEF StackInv, BreakerKnowsCalls
  <2>4. ToldInv'
    BY <1>1, <1>3, <2>2 DEF StackInv, ToldInv
  <2> QED
    BY <1>2, <2>3, <2>4 DEF StackInv
<1>5. CASE ~(t \in Queued /\ told[t] = "nothing")
  <2>1. UNCHANGED slots
    BY <1>5 DEF Tell
  <2>2. Queued' = Queued /\ place' = place /\ why' = why
    BY <2>1 DEF slots, Queued
  <2>3. BreakerKnowsCalls'
    BY <1>2, <2>2 DEF StackInv, BreakerKnowsCalls
  <2>4. ToldInv'
    BY <1>1, <1>3, <1>5, <2>2 DEF StackInv, ToldInv
  <2> QED
    BY <1>2, <2>3, <2>4 DEF StackInv
<1> QED
  BY <1>4, <1>5

LEMMA StackInvStep ==
    ASSUME StackInv, [StackNext]_stackVars
    PROVE  StackInv'
<1>1. Inv'
  BY StackStepsAreSteps, InvStep DEF StackInv
<1>2. CASE UNCHANGED <<slots, circuit, told>>
  <2>1. CircuitType' /\ Owners' /\ members' \cup probes' = members \cup probes
    BY <1>2, CircuitUntouched DEF StackInv
  <2>2. Queued' = Queued /\ place' = place /\ why' = why /\ told' = told
    BY <1>2 DEF slots, Queued
  <2>3. BreakerKnowsCalls' /\ ToldInv'
    BY <2>1, <2>2 DEF StackInv, BreakerKnowsCalls, ToldInv
  <2> QED
    BY <1>1, <2>1, <2>3 DEF StackInv
<1>3. ASSUME NEW t \in Tasks, Run(t) PROVE StackInv'
  <2>1. CASE GetSlot(t)
    BY <1>1, <2>1, GetSlotInv
  <2>2. CASE BulkheadFull(t)
    BY <1>1, <2>2, ReturnInv DEF BulkheadFull, Refuse
  <2>3. CASE StopsWaiting(t)
    BY <1>1, <2>3, ReturnInv DEF StopsWaiting, Abort
  <2>4. CASE Answer(t) \/ Interrupted(t)
    BY <1>1, <2>4, ReturnInv DEF Answer, Interrupted
  <2> QED
    BY <1>3, <2>1, <2>2, <2>3, <2>4 DEF Run
<1>4. ASSUME NEW t \in Tasks, AtGuard(t) \/ Call(t) \/ AcquireTimeout(t) PROVE StackInv'
  BY <1>1, <1>4, AtGuardInv, CallInv, AcquireTimeoutInv
<1>5. ASSUME NEW t \in Tasks, NEW cause \in {"deadline", "cancellation"}, Tell(t, cause)
      PROVE  StackInv'
  BY <1>1, <1>5, TellInv
<1> QED
  BY <1>2, <1>3, <1>4, <1>5 DEF StackNext, stackVars, Hang

LEMMA StackInvInit == StackInit => StackInv
<1> SUFFICES ASSUME StackInit PROVE StackInv
  OBVIOUS
<1>1. Inv
  BY InvInit DEF StackInit
<1>2. CircuitType /\ Owners
  BY FS_EmptySet, StackAssumption DEF StackInit, CircuitType, Owners
<1>3. BreakerKnowsCalls /\ ToldInv
  BY DEF StackInit, Init, BreakerKnowsCalls, ToldInv, Queued
<1> QED
  BY <1>1, <1>2, <1>3 DEF StackInv

(* Each part keeps its type, at most one probe is on its way, and what a   *)
(* queued task has been told is what it will learn.                        *)
THEOREM StackTypeCorrect == StackSafe => []StackTypeOK
<1>1. StackInv => StackTypeOK
  BY DEF StackInv, Inv, CircuitType, ToldInv, StackTypeOK
<1> QED
  BY <1>1, StackInvInit, StackInvStep, PTL DEF StackSafe

(* Every caller whose result the circuit counts on, member or probe, is    *)
(* still in its call: no refusal by the bulkhead, expiry or cancellation   *)
(* leaks the probe slot.                                                   *)
THEOREM NoResultIsLost == StackSafe => []BreakerKnowsCalls
<1>1. StackInv => BreakerKnowsCalls
  BY DEF StackInv
<1> QED
  BY <1>1, StackInvInit, StackInvStep, PTL DEF StackSafe

-----------------------------------------------------------------------------
(* Nobody's call ends but by the task's own step out of the stack.         *)
LEMMA WhoEnds ==
    ASSUME StackInv, StackNext, NEW t \in Tasks, Ends(t)
    PROVE  BulkheadFull(t) \/ StopsWaiting(t) \/ Answer(t) \/ Interrupted(t)
<1>1. place[t] \notin Outside /\ place'[t] \in Outside
  BY DEF Ends
<1>2. Inv /\ Inv'
  BY StackStepsAreSteps, InvStep DEF StackInv
<1>3. ASSUME NEW u \in Tasks, Run(u), ~(BulkheadFull(t) \/ StopsWaiting(t) \/ Answer(t) \/ Interrupted(t))
      PROVE  FALSE
  <2>1. CASE GetSlot(u)
    <3>1. place[u] # "waiting" /\ why' = [why EXCEPT ![u] = {}]
      BY <2>1 DEF GetSlot, Serve, LeaveQueue
    <3>2. \E n : Settle(u, "calling", value, n)
      BY <2>1 DEF GetSlot, Serve
    <3>3. place'[u] = "calling" /\ \A v \in Tasks \ {u} : place'[v] \in Outside <=> place[v] \in Outside
      BY <1>2, <3>1, <3>2, OthersStay
    <3> QED
      BY <1>1, <3>3 DEF Outside
  <2>2. CASE BulkheadFull(u) \/ StopsWaiting(u) \/ Answer(u) \/ Interrupted(u)
    <3>1. place[u] # "waiting" /\ (why' = [why EXCEPT ![u] = {}] \/ why' = why)
      BY <2>2 DEF BulkheadFull, StopsWaiting, Answer, Interrupted, Refuse, Abort, GiveUp,
                  LeaveQueue, Leave
    <3>2. \E permits, n : Settle(u, "idle", permits, n)
      BY <2>2 DEF BulkheadFull, StopsWaiting, Answer, Interrupted, Refuse, Abort, GiveUp, Leave
    <3>3. \A v \in Tasks \ {u} : place'[v] \in Outside <=> place[v] \in Outside
      BY <1>2, <3>1, <3>2, OthersStay
    <3> QED
      BY <1>1, <1>3, <2>2, <3>3
  <2> QED
    BY <1>3, <2>1, <2>2 DEF Run
<1>4. ASSUME NEW u \in Tasks, Call(u) PROVE FALSE
  BY <1>1, <1>2, <1>4, EnterMoves, WaitMoves DEF Call, Inv, TypeOK, Outside
<1>5. ASSUME NEW u \in Tasks, NEW cause \in Causes, Stop(u, cause) PROVE FALSE
  BY <1>1, <1>2, <1>5, StopEffect
<1>6. ASSUME UNCHANGED slots PROVE FALSE
  BY <1>1, <1>6 DEF slots
<1>7. ASSUME NEW u \in Tasks, NEW cause, Tell(u, cause) PROVE FALSE
  BY <1>5, <1>6, <1>7 DEF Tell, Cancel, Causes
<1>8. ASSUME NEW u \in Tasks, AcquireTimeout(u) PROVE FALSE
  BY <1>5, <1>8 DEF AcquireTimeout, Expire, Causes
<1>9. ASSUME NEW u \in Tasks, AtGuard(u) PROVE FALSE
  BY <1>1, <1>2, <1>9, AtGuardEffect
<1> QED
  BY <1>3, <1>4, <1>6, <1>7, <1>8, <1>9 DEF StackNext, Hang

(* What the breaker hears of a cancellation and of a full bulkhead is      *)
(* foreign to it: it frees the slot and changes nothing else ...           *)
LEMMA ForeignMovesNothing ==
    ASSUME NEW t, Record(t, "foreign")
    PROVE  UNCHANGED <<phase, streak, proven>>
<1>1. CASE Circuit!Settle(t) /\ streak' = streak
  BY <1>1 DEF Circuit!Settle
<1>2. CASE Circuit!ProbeInconclusive(t)
  BY <1>2 DEF Circuit!ProbeInconclusive
<1>3. CASE UNCHANGED circuit
  BY <1>3 DEF circuit
<1> QED
  BY <1>1, <1>2, <1>3 DEF Record

(* ... and an expired deadline is a failure to it.                         *)
LEMMA FailureCounts ==
    ASSUME Owners, NEW t, Record(t, "failure")
    PROVE  /\ t \in members => phase' = "OPEN" \/ streak' = streak + 1
           /\ t \in probes => phase' = "OPEN"
<1>1. CASE Circuit!Trip(t) \/ Circuit!ProbeFails(t)
  BY <1>1 DEF Circuit!Trip, Circuit!ProbeFails, Circuit!Open
<1>2. CASE Circuit!Settle(t) /\ streak' = streak + 1
  BY <1>2 DEF Circuit!Settle, Owners
<1>3. CASE t \notin members \cup probes
  BY <1>3
<1> QED
  BY <1>1, <1>2, <1>3 DEF Record

LEMMA ToldApartStep ==
    ASSUME StackInv, StackNext, NEW t \in Tasks, Ends(t)
    PROVE  CountsAsTold(t)
<1>1. CASE BulkheadFull(t)
  <2>1. told[t] # "deadline"
    <3>1. t \in Queued /\ "cancellation" \notin why[t]
      BY <1>1 DEF BulkheadFull, Refuse
    <3> QED
      BY <3>1 DEF StackInv, ToldInv
  <2>2. Classify(Deadline(t, "BulkheadFullError")) = "foreign"
    BY DEF Deadline, Classify
  <2>3. UNCHANGED <<phase, streak, proven>>
    BY <1>1, <2>2, ForeignMovesNothing DEF BulkheadFull, Return, Report
  <2> QED
    BY <2>1, <2>3 DEF CountsAsTold
<1>2. CASE StopsWaiting(t) \/ Interrupted(t)
  <2>1. Report(t, Deadline(t, "CancelledError"))
    BY <1>2 DEF StopsWaiting, Interrupted, OnError, Return
  <2>2. CASE told[t] = "deadline"
    <3>1. Classify(Deadline(t, "CancelledError")) = "failure"
      BY <2>2 DEF Deadline, Classify
    <3>2. Record(t, "failure")
      BY <2>1, <3>1 DEF Report
    <3> QED
      BY <2>2, <3>2, FailureCounts DEF StackInv, CountsAsTold
  <2>3. CASE told[t] # "deadline"
    <3>1. Classify(Deadline(t, "CancelledError")) = "foreign"
      BY <2>3 DEF Deadline, Classify
    <3>2. UNCHANGED <<phase, streak, proven>>
      BY <2>1, <3>1, ForeignMovesNothing DEF Report
    <3> QED
      BY <2>3, <3>2 DEF CountsAsTold
  <2> QED
    BY <2>2, <2>3
<1>3. CASE Answer(t)
  <2>1. told[t] = "nothing" /\ place[t] = "calling"
    BY <1>3 DEF Answer, Leave
  <2>2. t \notin Queued
    BY <2>1 DEF StackInv, Inv, TypeOK
  <2> QED
    BY <2>1, <2>2 DEF CountsAsTold
<1> QED
  BY <1>1, <1>2, <1>3, WhoEnds

(* The circuit is unmoved by cancellations and by a full bulkhead and      *)
(* counts an expired deadline as a failure, whichever of the three reaches *)
(* the task together with the others.                                      *)
THEOREM CausesAreToldApart == StackSafe => CausesToldApart
<1>1. StackInv /\ [StackNext]_stackVars =>
        [\A t \in Tasks : Ends(t) => CountsAsTold(t)]_stackVars
  BY ToldApartStep
<1> QED
  BY <1>1, StackInvInit, StackInvStep, PTL DEF StackSafe, CausesToldApart

===============================================================================
