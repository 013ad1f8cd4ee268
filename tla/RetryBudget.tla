----------------------------- MODULE RetryBudget -----------------------------
(***************************************************************************)
(* The token bucket that bounds retries: class RetryBudget of              *)
(* middleware/resilience/budget.py.                                        *)
(*                                                                         *)
(* deposit() and try_withdraw() read the clock, then take the lock and do  *)
(* the rest under it.  Deposit and Withdraw are what they do under the     *)
(* lock, with the slot that was read before it: by then other threads may  *)
(* have moved the window further.                                          *)
(*                                                                         *)
(* _index is slot % BucketCount whenever it is used, since the first call  *)
(* on a budget always rotates, and is not kept.                            *)
(***************************************************************************)
EXTENDS Integers, Functions

CONSTANTS
    BucketCount,        \* _BUCKET_COUNT
    PctNum, PctDen,     \* percent_can_retry = PctNum / PctDen
    Floor               \* int(min_retries_per_sec * ttl)

(* What _validate_budget_config requires.                                  *)
ASSUME BudgetAssumption ==
    /\ BucketCount \in Nat \ {0}
    /\ PctNum \in Nat /\ PctDen \in Nat \ {0}
    /\ Floor \in Nat

VARIABLES
    slot,               \* the current slot, or NoSlot
    bucket_deposits,
    bucket_withdrawn,
    deposits,
    withdrawn

budget == <<slot, bucket_deposits, bucket_withdrawn, deposits, withdrawn>>

Buckets == 0 .. BucketCount - 1

(* The slot -inf: so long ago that the first call empties every bucket.    *)
NoSlot == -BucketCount

Empty == [b \in Buckets |-> 0]

BudgetInit ==
    /\ slot = NoSlot
    /\ bucket_deposits = Empty
    /\ bucket_withdrawn = Empty
    /\ deposits = 0
    /\ withdrawn = 0

(* A reading older than the current slot counts in the current slot.       *)
Current(reading) == IF reading > slot THEN reading ELSE slot

AllStale(current) == current - slot >= BucketCount

(* Faulty variant: the bucket of the new slot is not emptied.              *)
Stale_SkipsCurrent(current) ==
    IF AllStale(current) THEN Buckets
                         ELSE {s % BucketCount : s \in slot + 1 .. current - 1}

(* The buckets that leave the window as it moves to slot current.          *)
Stale(current) ==
    IF AllStale(current) THEN Buckets
                         ELSE {s % BucketCount : s \in slot + 1 .. current}

(* What _rotate leaves of a ring and of its running total.                 *)
Kept(ring, current) ==
    [b \in Buckets |-> IF b \in Stale(current) THEN 0 ELSE ring[b]]

(* Faulty variant: a pause longer than the window leaves the totals.       *)
Left_KeepsOld(total, ring, current) ==
    IF AllStale(current) THEN total
                         ELSE total - SumFunctionOnSet(ring, Stale(current))

Left(total, ring, current) ==
    IF AllStale(current) THEN 0
                         ELSE total - SumFunctionOnSet(ring, Stale(current))

Move(current, deposited, taken) ==
    LET at == current % BucketCount
    IN /\ slot' = current
       /\ bucket_deposits' = [Kept(bucket_deposits, current) EXCEPT ![at] = @ + deposited]
       /\ bucket_withdrawn' = [Kept(bucket_withdrawn, current) EXCEPT ![at] = @ + taken]
       /\ deposits' = Left(deposits, bucket_deposits, current) + deposited
       /\ withdrawn' = Left(withdrawn, bucket_withdrawn, current) + taken

Deposit(reading) == Move(Current(reading), 1, 0)

(* ceil(made * percent_can_retry) + floor, with the ratio as it is meant:  *)
(* a float product a hair above a whole number, 100 * 0.07, is rounded up  *)
(* by the code, which then grants one retry more.                          *)
Ceiling(made) == (made * PctNum + PctDen - 1) \div PctDen + Floor

(* Faulty variant: one retry too many.                                     *)
Exhausted_OffByOne(reading) ==
    LET current == Current(reading)
    IN Left(withdrawn, bucket_withdrawn, current) >
         Ceiling(Left(deposits, bucket_deposits, current))

Exhausted(reading) ==
    LET current == Current(reading)
    IN Left(withdrawn, bucket_withdrawn, current) >=
         Ceiling(Left(deposits, bucket_deposits, current))

(* try_withdraw() returns TRUE, or FALSE.                                  *)
Withdraw(reading) == ~Exhausted(reading) /\ Move(Current(reading), 0, 1)

RefuseRetry(reading) == Exhausted(reading) /\ Move(Current(reading), 0, 0)

=============================================================================
