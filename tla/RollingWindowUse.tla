-------------------------- MODULE RollingWindowUse --------------------------
(***************************************************************************)
(* A rolling window driven by every sequence of the calls the breaker      *)
(* makes on it, beside the plain history it summarises: how many outcomes  *)
(* were recorded at each clock reading since the last clear().  The        *)
(* properties compare the two.                                             *)
(***************************************************************************)
EXTENDS RollingWindow

CONSTANTS
    MaxNow,         \* the clock stops here
    MaxOutcomes     \* outcomes recorded between two clears

ASSUME UseAssumption == MaxNow \in Nat /\ MaxOutcomes \in Nat

VARIABLES
    window,
    now,
    good,       \* good[t]: successes recorded at clock reading t
    bad         \* bad[t]: failures recorded at clock reading t

vars == <<window, now, good, bad>>

Times == 0 .. MaxNow

Nothing == [t \in Times |-> 0]

Init ==
    /\ window = NewWindow
    /\ now \in Times
    /\ good = Nothing
    /\ bad = Nothing

Recorded == SumFunctionOnSet(good, Times) + SumFunctionOnSet(bad, Times)

RecordOutcome(failed) ==
    /\ Recorded < MaxOutcomes
    /\ window' = Record(window, now, failed)
    /\ IF failed THEN bad' = [bad EXCEPT ![now] = @ + 1] /\ UNCHANGED good
                 ELSE good' = [good EXCEPT ![now] = @ + 1] /\ UNCHANGED bad
    /\ UNCHANGED now

ReadTotals ==
    /\ window' = Advance(window, now)
    /\ UNCHANGED <<now, good, bad>>

Recover ==
    /\ window' = Clear(window)
    /\ good' = Nothing
    /\ bad' = Nothing
    /\ UNCHANGED now

(* The breaker may go unused for any time between two calls.               *)
Wait ==
    /\ now' \in now + 1 .. MaxNow
    /\ UNCHANGED <<window, good, bad>>

Next ==
    \/ \E failed \in BOOLEAN : RecordOutcome(failed)
    \/ ReadTotals
    \/ Recover
    \/ Wait

Spec == Init /\ [][Next]_vars

-----------------------------------------------------------------------------
LiveTimes == {t \in Times : Slot(t) \in Slot(now) - BucketCount + 1 .. Slot(now)}

(* However long the pauses between calls, a reading of the totals returns  *)
(* exactly the outcomes recorded in the current slot and the BucketCount-1 *)
(* before it, whatever ring index they were stored under.                  *)
TotalsMatchHistory ==
    LET read == Totals(window, now)
        failures == SumFunctionOnSet(bad, LiveTimes)
    IN /\ read.failures = failures
       /\ read.total = SumFunctionOnSet(good, LiveTimes) + failures

(* In clock time: an outcome a whole window old is never counted, and one  *)
(* younger than the window less one bucket always is (the resolution that  *)
(* window_seconds / _BUCKET_COUNT gives).                                  *)
ForgetsByAge ==
    LET age(t) == now - t
        span == BucketCount * BucketWidth
        notExpired == {t \in Times : age(t) >= 0 /\ age(t) < span}
        recent == {t \in Times : age(t) >= 0 /\ age(t) <= span - BucketWidth}
        failures == Totals(window, now).failures
    IN /\ failures <= SumFunctionOnSet(bad, notExpired)
       /\ failures >= SumFunctionOnSet(bad, recent)

=============================================================================
