---------------------------- MODULE RollingWindow ----------------------------
(***************************************************************************)
(* The time-bucketed success/failure counters behind the breaker's         *)
(* failure-rate mode: class _RollingWindow of                              *)
(* middleware/resilience/circuit_breaker.py.                               *)
(*                                                                         *)
(* A window is a record; every operator returns the window that the method *)
(* of the same name leaves behind.  Time is in clock ticks, BucketWidth    *)
(* ticks to a bucket; the code's slot -inf is NeverAdvanced, which is far  *)
(* enough in the past for the first reading (>= 0) to clear everything.    *)
(***************************************************************************)
EXTENDS Integers, Functions

CONSTANTS
    BucketCount,    \* _BUCKET_COUNT
    BucketWidth     \* _bucket_width, in clock ticks

ASSUME BucketAssumption ==
    /\ BucketCount \in Nat \ {0}
    /\ BucketWidth \in Nat \ {0}

Buckets == 0 .. BucketCount - 1

NeverAdvanced == -BucketCount

NoOutcomes == [i \in Buckets |-> 0]

Windows == [slot : Int, index : Buckets, success : [Buckets -> Int],
            failure : [Buckets -> Int], total : Int, failures : Int]

NewWindow ==
    [slot |-> NeverAdvanced, index |-> 0, success |-> NoOutcomes,
     failure |-> NoOutcomes, total |-> 0, failures |-> 0]

(* Faulty variant: the totals outlive the buckets.                         *)
Clear_KeepsTotals(w) ==
    [w EXCEPT !.success = NoOutcomes, !.failure = NoOutcomes]

(* The slot and the index survive: only the counts go.                     *)
Clear(w) ==
    [w EXCEPT !.success = NoOutcomes, !.failure = NoOutcomes,
              !.total = 0, !.failures = 0]

(* Faulty variant: the bucket the window moves into keeps its old counts.  *)
Forget_SkipsCurrent(w, current) ==
    LET stale == {s % BucketCount : s \in w.slot + 1 .. current - 1}
    IN [w EXCEPT
          !.total    = @ - SumFunctionOnSet(w.success, stale)
                         - SumFunctionOnSet(w.failure, stale),
          !.failures = @ - SumFunctionOnSet(w.failure, stale),
          !.success  = [i \in Buckets |-> IF i \in stale THEN 0 ELSE @[i]],
          !.failure  = [i \in Buckets |-> IF i \in stale THEN 0 ELSE @[i]]]

(* Zero the buckets of the slots entered since the last reading, which are *)
(* fewer than BucketCount, and take their counts out of the totals.        *)
Forget(w, current) ==
    LET stale == {s % BucketCount : s \in w.slot + 1 .. current}
    IN [w EXCEPT
          !.total    = @ - SumFunctionOnSet(w.success, stale)
                         - SumFunctionOnSet(w.failure, stale),
          !.failures = @ - SumFunctionOnSet(w.failure, stale),
          !.success  = [i \in Buckets |-> IF i \in stale THEN 0 ELSE @[i]],
          !.failure  = [i \in Buckets |-> IF i \in stale THEN 0 ELSE @[i]]]

Slot(now) == now \div BucketWidth

Advance(w, now) ==
    LET current == Slot(now)
        kept == IF current - w.slot >= BucketCount THEN Clear(w)
                                                   ELSE Forget(w, current)
    IN IF current <= w.slot
       THEN w
       ELSE [kept EXCEPT !.slot = current, !.index = current % BucketCount]

Record(w, now, failed) ==
    LET v == Advance(w, now)
    IN IF failed
       THEN [v EXCEPT !.failure[v.index] = @ + 1, !.failures = @ + 1,
                      !.total = @ + 1]
       ELSE [v EXCEPT !.success[v.index] = @ + 1, !.total = @ + 1]

(* What totals() returns; the window it leaves behind is Advance(w, now).  *)
Totals(w, now) ==
    LET v == Advance(w, now) IN [total |-> v.total, failures |-> v.failures]

=============================================================================
