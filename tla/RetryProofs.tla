------------------------------ MODULE RetryProofs ------------------------------
(***************************************************************************)
(* Theorems about the callers that share a retry budget, for every number  *)
(* of buckets and of callers, every percentage, floor and number of        *)
(* attempts.                                                               *)
(***************************************************************************)
EXTENDS Retry, WindowLemmas

-----------------------------------------------------------------------------
(* The inductive invariant.                                                *)

(* A history as a count for every integer: nothing outside of Slots.       *)
Count(h) == [s \in Int |-> IF s \in Slots THEN h[s] ELSE 0]

(* A ring and its running total count what a history says of the window.   *)
RingOK(ring, total, h, last) ==
    /\ total = SumFunctionOnSet(ring, Buckets)
    /\ Mirrors(ring, BucketCount, Count(h), last)
    /\ \A s \in Slots : s > last => h[s] = 0

BudgetInv ==
    /\ slot # NoSlot => newest = slot
    /\ slot = NoSlot => newest = 0
    /\ RingOK(bucket_deposits, deposits, deposited, slot)
    /\ RingOK(bucket_withdrawn, withdrawn, granted, slot)

(* A caller between calls has made no attempt; one that is at the budget   *)
(* or past it has an attempt left.                                         *)
CallerInv ==
    \A c \in Callers :
        /\ pc[c] = "idle" => attempt[c] = 0
        /\ pc[c] \in {"withdrawing", "sleeping"} =>
             repeatable[c] /\ attempt[c] + 1 < MaxAttempts

Sleeping == {c \in Callers : pc[c] = "sleeping"}

PaidInv == IsFiniteSet(Sleeping) /\ RetriesPaid

IInv == TypeOK /\ BudgetInv /\ CallerInv /\ PaidInv /\ NoRetryStorm

-----------------------------------------------------------------------------
(* The ring of buckets.                                                    *)

LEMMA RingFacts ==
    /\ BucketCount \in Nat \ {0}
    /\ Buckets = 0 .. BucketCount - 1 /\ IsFiniteSet(Buckets)
    /\ IsFiniteSet(Slots)
    /\ \A last : IsFiniteSet(Window(last))
    /\ \A last : Window(last) \subseteq Slots
<1>1. BucketCount \in Nat \ {0} /\ LastSlot \in Nat
  BY BudgetAssumption, RetryAssumption
<1>2. IsFiniteSet(Buckets) /\ IsFiniteSet(Slots)
  BY <1>1, FS_Interval DEF Buckets, Slots
<1>3. \A last : Window(last) \subseteq Slots
  BY DEF Window
<1>4. \A last : IsFiniteSet(Window(last))
  BY <1>2, <1>3, FS_Subset
<1> QED
  BY <1>1, <1>2, <1>3, <1>4 DEF Buckets

(* A function with naturals has integers, on any part of its domain.       *)
LEMMA NatValues ==
    ASSUME NEW D, NEW f \in [D -> Nat], NEW S \in SUBSET D
    PROVE  Nats(f, S) /\ Ints(f, S)
BY DEF Nats, Ints

LEMMA SlotTypes ==
    ASSUME NEW last \in Slots \cup {NoSlot}
    PROVE  last \in Int /\ (\A s \in Slots : s \in Int /\ (last = NoSlot => s > last))
BY RingFacts DEF NoSlot, Slots

(* Live buckets add up to live slots.                                      *)
LEMMA WindowTotal ==
    ASSUME NEW last \in Slots, NEW ring, NEW total, NEW h \in [Slots -> Nat],
           RingOK(ring, total, h, last)
    PROVE  total = Sum(h, Window(last))
<1> DEFINE I == last - BucketCount + 1 .. last
           before == I \ Window(last)
           g == Count(h)
<1>0. last \in Int
  BY SlotTypes
<1>1. \A s \in I : g[s] \in Int
  <2>1. \A s \in I : s \in Int
    BY <1>0, RingFacts
  <2> HIDE DEF I
  <2> QED
    BY <2>1 DEF Count
<1>2. SumFunctionOnSet(ring, Buckets) = SumFunctionOnSet(g, I)
  <2>1. Mirrors(ring, BucketCount, g, last)
    BY DEF RingOK
  <2> HIDE DEF g
  <2> QED
    BY <1>0, <1>1, <2>1, RingFacts, RingTotal
<1>3. Window(last) \subseteq I
  BY <1>0, RingFacts DEF Window, Slots
<1>4. IsFiniteSet(I) /\ IsFiniteSet(before) /\ IsFiniteSet(Window(last))
  <2>1. IsFiniteSet(I)
    BY <1>0, RingFacts, FS_Interval
  <2>2. before \in SUBSET I
    OBVIOUS
  <2> HIDE DEF before, I
  <2> QED
    BY <2>1, <2>2, RingFacts, FS_Subset
<1>5. Window(last) \cup before = I /\ Window(last) \cap before = {}
  BY <1>3
<1>6. \A s \in before : g[s] = 0
  <2>1. \A s \in before : s \in Int /\ s \notin Slots
    BY <1>0, RingFacts DEF Window
  <2> QED
    BY <2>1 DEF Count
<1>7. \A s \in Window(last) : g[s] = h[s]
  BY RingFacts DEF Count, Slots
<1>8. Ints(g, I) /\ Ints(g, Window(last))
  BY <1>1, <1>3 DEF Ints
<1> HIDE DEF I, before, g
<1>9. SumFunctionOnSet(g, I) = SumFunctionOnSet(g, Window(last)) + SumFunctionOnSet(g, before)
  BY <1>4, <1>5, <1>8, SumOfUnion
<1>10. SumFunctionOnSet(g, before) = 0
  BY <1>4, <1>6, SumOfZeros
<1>11. SumFunctionOnSet(g, Window(last)) = SumFunctionOnSet(h, Window(last))
  BY <1>4, <1>7, <1>8, SumsEqual
<1>12. SumFunctionOnSet(g, Window(last)) \in Int
  BY <1>4, <1>8, SumIsInt
<1> QED
  BY <1>2, <1>9, <1>10, <1>11, <1>12 DEF RingOK, Sum

(* A ring as Move leaves it, and a history, with d more in slot current.   *)
RingWith(ring, current, d) ==
    [Kept(ring, current) EXCEPT ![current % BucketCount] = @ + d]

With(h, current, d) == [h EXCEPT ![current] = @ + d]

(* What Move does to one ring, its total and the history beside it.        *)
LEMMA RingStep ==
    ASSUME slot \in Slots \cup {NoSlot}, NEW current \in Slots, current >= slot,
           NEW ring \in [Buckets -> Nat], NEW total, NEW h \in [Slots -> Nat],
           RingOK(ring, total, h, slot), NEW d \in Nat
    PROVE  /\ Left(total, ring, current) \in Nat
           /\ RingWith(ring, current, d) \in [Buckets -> Nat]
           /\ With(h, current, d) \in [Slots -> Nat]
           /\ RingOK(RingWith(ring, current, d), Left(total, ring, current) + d,
                     With(h, current, d), current)
<1> DEFINE ring1 == RingWith(ring, current, d)
           h1 == With(h, current, d)
           stale == Swept(BucketCount, slot, current)
           kept == Kept(ring, current)
           left == Left(total, ring, current)
           at == current % BucketCount
<1>1. slot \in Int /\ current \in Int /\ BucketCount \in Nat \ {0}
  BY SlotTypes, RingFacts
<1>2. Stale(current) = stale /\ stale \subseteq Buckets
  <2>1. stale \subseteq Buckets
    BY <1>1, SweptBuckets DEF Buckets
  <2> QED
    BY <2>1 DEF Stale, AllStale, Swept, Buckets
<1>3. kept = KeptOf(ring, BucketCount, stale) /\ kept \in [Buckets -> Nat]
  BY <1>2 DEF Kept, KeptOf, Buckets
<1>4. at \in Buckets
  BY <1>1, RemainderRange DEF Buckets
<1>5. ring1 \in [Buckets -> Nat] /\ h1 \in [Slots -> Nat]
  BY <1>3, <1>4 DEF RingWith, With
<1>6. left = SumFunctionOnSet(kept, Buckets)
  <2>1. Ints(ring, Buckets)
    BY NatValues
  <2>2. /\ SumFunctionOnSet(kept, Buckets) =
             SumFunctionOnSet(ring, Buckets) - SumFunctionOnSet(ring, stale)
        /\ stale = Buckets => SumFunctionOnSet(kept, Buckets) = 0
    <3> HIDE DEF stale, kept
    <3> QED
      BY <1>1, <1>2, <1>3, <2>1, RingFacts, KeptTotal
  <2>3. AllStale(current) => stale = Buckets
    BY DEF AllStale, Swept, Buckets
  <2> QED
    BY <1>2, <2>2, <2>3 DEF Left, RingOK
<1>7. left \in Nat
  <2>1. Nats(kept, Buckets)
    BY <1>3, NatValues
  <2> HIDE DEF kept, left
  <2> QED
    BY <1>6, <2>1, RingFacts, SumIsNat
<1>8. SumFunctionOnSet(ring1, Buckets) = left + d
  <2>1. ring1[at] = kept[at] + d /\ \A b \in Buckets \ {at} : ring1[b] = kept[b]
    BY <1>3, <1>4 DEF RingWith
  <2>2. Ints(kept, Buckets)
    BY <1>3, NatValues
  <2>3. d \in Int
    OBVIOUS
  <2> HIDE DEF kept, at, left, ring1
  <2>4. SumFunctionOnSet(ring1, Buckets) = SumFunctionOnSet(kept, Buckets) + d
    BY <1>4, <2>1, <2>2, <2>3, RingFacts, SumOfChanged
  <2> QED
    BY <1>6, <2>4
<1>9. Mirrors(kept, BucketCount, Count(h), current)
  <2>1. \A s \in slot + 1 .. current : Count(h)[s] = 0
    <3>1. \A s \in slot + 1 .. current : s \in Int /\ s > slot
      BY <1>1
    <3> QED
      BY <3>1 DEF Count, RingOK
  <2>2. Mirrors(ring, BucketCount, Count(h), slot)
    BY DEF RingOK
  <2> HIDE DEF kept, stale
  <2> QED
    BY <1>1, <1>3, <2>1, <2>2, RingMoves DEF stale
<1>10. Mirrors(ring1, BucketCount, Count(h1), current)
  <2>1. Count(h1)[current] = Count(h)[current] + d
    BY <1>1 DEF Count, With
  <2>2. \A s \in current - BucketCount + 1 .. current - 1 : Count(h1)[s] = Count(h)[s]
    <3>1. \A s \in current - BucketCount + 1 .. current - 1 : s \in Int /\ s # current
      BY <1>1
    <3> QED
      BY <3>1 DEF Count, With
  <2>3. DOMAIN kept = 0 .. BucketCount - 1
    BY <1>3 DEF Buckets
  <2> HIDE DEF kept
  <2> QED
    BY <1>1, <1>9, <2>1, <2>2, <2>3, RingCounts DEF kept, RingWith
<1>11. \A s \in Slots : s > current => h1[s] = 0
  BY <1>1 DEF RingOK, Slots, With
<1> QED
  BY <1>5, <1>7, <1>8, <1>10, <1>11 DEF RingOK

-----------------------------------------------------------------------------
(* What a budget operation of a caller does.                               *)

LEMMA CurrentSlot ==
    ASSUME TypeOK, BudgetInv, NEW c \in Callers
    PROVE  /\ Current(reading[c]) = CountsIn(c)
           /\ CountsIn(c) \in Slots
           /\ CountsIn(c) >= slot /\ CountsIn(c) >= newest
<1>1. reading[c] \in Slots /\ newest \in Slots /\ slot \in Slots \cup {NoSlot}
  BY DEF TypeOK
<1>2. reading[c] \in Nat /\ newest \in Nat /\ NoSlot \in Int /\ NoSlot < 0
  BY <1>1, RingFacts DEF Slots, NoSlot
<1>3. CountsIn(c) = IF reading[c] > newest THEN reading[c] ELSE newest
  <2> DEFINE r == reading[c]
             P(x) == x \in {newest, r} /\ \A y \in {newest, r} : x >= y
  <2>1. r \in Nat
    BY <1>2
  <2>2. CountsIn(c) = CHOOSE x : P(x)
    BY DEF CountsIn, Max
  <2> HIDE DEF r
  <2>3. P(IF r > newest THEN r ELSE newest)
    BY <1>2, <2>1
  <2>4. \A x, y : P(x) /\ P(y) => x = y
    BY <1>2, <2>1
  <2> HIDE DEF P
  <2> QED
    BY <2>2, <2>3, <2>4 DEF r
<1> QED
  BY <1>1, <1>2, <1>3 DEF Current, BudgetInv

(* The budget after an operation that counts d deposits and w withdrawals. *)
Operation(c, d, w) ==
    /\ Move(Current(reading[c]), d, w)
    /\ newest' = CountsIn(c)
    /\ deposited' = With(deposited, CountsIn(c), d)
    /\ granted' = With(granted, CountsIn(c), w)

LEMMA OperationKeepsRings ==
    ASSUME TypeOK, BudgetInv, NEW c \in Callers, NEW d \in Nat, NEW w \in Nat,
           Operation(c, d, w)
    PROVE  /\ BudgetInv'
           /\ slot' \in Slots /\ slot' = CountsIn(c) /\ newest' = slot'
           /\ bucket_deposits' \in [Buckets -> Nat]
           /\ bucket_withdrawn' \in [Buckets -> Nat]
           /\ deposits' \in Nat /\ withdrawn' \in Nat
           /\ deposited' \in [Slots -> Nat] /\ granted' \in [Slots -> Nat]
<1> DEFINE current == CountsIn(c)
<1>1. Current(reading[c]) = current /\ current \in Slots /\ current >= slot
  BY CurrentSlot
<1>2. slot' = current /\ newest' = current
  BY <1>1 DEF Operation, Move
<1>3. slot \in Slots \cup {NoSlot}
  BY DEF TypeOK
<1>4. /\ bucket_deposits' = RingWith(bucket_deposits, current, d)
      /\ bucket_withdrawn' = RingWith(bucket_withdrawn, current, w)
      /\ deposits' = Left(deposits, bucket_deposits, current) + d
      /\ withdrawn' = Left(withdrawn, bucket_withdrawn, current) + w
      /\ deposited' = With(deposited, current, d)
      /\ granted' = With(granted, current, w)
  BY <1>1 DEF Operation, Move, RingWith
<1> HIDE DEF current
<1>5. /\ Left(deposits, bucket_deposits, current) \in Nat
      /\ bucket_deposits' \in [Buckets -> Nat]
      /\ deposited' \in [Slots -> Nat]
      /\ RingOK(bucket_deposits', Left(deposits, bucket_deposits, current) + d, deposited', current)
  <2>1. /\ bucket_deposits \in [Buckets -> Nat] /\ deposited \in [Slots -> Nat]
        /\ RingOK(bucket_deposits, deposits, deposited, slot)
    BY DEF TypeOK, BudgetInv
  <2> QED
    BY <1>1, <1>3, <1>4, <2>1, RingStep
<1>6. /\ Left(withdrawn, bucket_withdrawn, current) \in Nat
      /\ bucket_withdrawn' \in [Buckets -> Nat]
      /\ granted' \in [Slots -> Nat]
      /\ RingOK(bucket_withdrawn', Left(withdrawn, bucket_withdrawn, current) + w, granted', current)
  <2>1. /\ bucket_withdrawn \in [Buckets -> Nat] /\ granted \in [Slots -> Nat]
        /\ RingOK(bucket_withdrawn, withdrawn, granted, slot)
    BY DEF TypeOK, BudgetInv
  <2> QED
    BY <1>1, <1>3, <1>4, <2>1, RingStep
<1>7. slot' # NoSlot
  BY <1>1, <1>2, SlotTypes, RingFacts
<1>8. BudgetInv'
  BY <1>2, <1>4, <1>5, <1>6, <1>7 DEF BudgetInv
<1> QED
  BY <1>1, <1>2, <1>4, <1>5, <1>6, <1>8 DEF current

LEMMA AddNothing ==
    ASSUME NEW D, NEW f \in [D -> Nat], NEW x \in D
    PROVE  f = With(f, x, 0)
BY DEF With

LEMMA DepositIsOperation ==
    ASSUME TypeOK, BudgetInv, NEW c \in Callers, MakeDeposit(c)
    PROVE  Operation(c, 1, 0)
<1>1. granted = With(granted, CountsIn(c), 0)
  BY CurrentSlot, AddNothing DEF TypeOK
<1> QED
  BY <1>1 DEF MakeDeposit, Deposit, Operation, With

LEMMA WithdrawalIsOperation ==
    ASSUME TypeOK, BudgetInv, NEW c \in Callers, GetToken(c)
    PROVE  Operation(c, 0, 1)
<1>1. deposited = With(deposited, CountsIn(c), 0)
  BY CurrentSlot, AddNothing DEF TypeOK
<1> QED
  BY <1>1 DEF GetToken, Withdraw, Operation, With

LEMMA RefusalIsOperation ==
    ASSUME TypeOK, BudgetInv, NEW c \in Callers, GetRefused(c)
    PROVE  Operation(c, 0, 0)
<1>1. /\ deposited = With(deposited, CountsIn(c), 0)
      /\ granted = With(granted, CountsIn(c), 0)
  BY CurrentSlot, AddNothing DEF TypeOK
<1> QED
  BY <1>1 DEF GetRefused, RefuseRetry, Operation

(* The steps that leave the budget and its history alone.                  *)
LEMMA BudgetUntouched ==
    ASSUME BudgetInv, UNCHANGED <<budget, deposited, granted, newest>>
    PROVE  BudgetInv'
BY DEF BudgetInv, budget

-----------------------------------------------------------------------------
(* The parts of the invariant that are not about the budget.               *)

LEMMA InitInv == Init => TypeOK /\ BudgetInv /\ CallerInv
<1> SUFFICES ASSUME Init PROVE TypeOK /\ BudgetInv /\ CallerInv
  OBVIOUS
<1>1. 0 \in Slots /\ 0 \in 0 .. MaxAttempts - 1 /\ 0 \in 0 .. MaxCalls
  BY RetryAssumption DEF Slots
<1>2. TypeOK
  BY <1>1 DEF Init, BudgetInit, Empty, TypeOK
<1>3. \A s : s \in Int => s % BucketCount \in Buckets
  BY RingFacts, RemainderRange
<1>4. SumFunctionOnSet(Empty, Buckets) = 0
  <2>1. \A b \in Buckets : Empty[b] = 0
    BY DEF Empty
  <2> QED
    BY <2>1, RingFacts, SumOfZeros
<1>5. ASSUME NEW h, h = [s \in Slots |-> 0]
      PROVE  RingOK(Empty, 0, h, NoSlot)
  <2>1. \A s \in Int : Count(h)[s] = 0
    BY <1>5 DEF Count
  <2>2. \A s \in NoSlot - BucketCount + 1 .. NoSlot : s \in Int
    BY RingFacts DEF NoSlot
  <2>3. Mirrors(Empty, BucketCount, Count(h), NoSlot)
    BY <1>3, <2>1, <2>2, Zenon DEF Mirrors, Empty
  <2> QED
    BY <1>4, <1>5, <2>3 DEF RingOK
<1>6. BudgetInv
  BY <1>5 DEF Init, BudgetInit, BudgetInv
<1> QED
  BY <1>2, <1>6 DEF Init, CallerInv

(* The conjuncts of TypeOK about callers, with CallerInv.                  *)
CallersOK ==
    /\ clock \in Slots
    /\ pc \in [Callers -> {"idle", "depositing", "calling", "withdrawing", "sleeping"}]
    /\ reading \in [Callers -> Slots]
    /\ repeatable \in [Callers -> BOOLEAN]
    /\ attempt \in [Callers -> 0 .. MaxAttempts - 1]
    /\ \A c \in Callers : attempt[c] > 0 \/ pc[c] = "sleeping" => repeatable[c]
    /\ calls \in 0 .. MaxCalls
    /\ resent \in Nat /\ wasted \in Nat
    /\ CallerInv

BudgetType ==
    /\ slot \in Slots \cup {NoSlot}
    /\ bucket_deposits \in [Buckets -> Nat]
    /\ bucket_withdrawn \in [Buckets -> Nat]
    /\ deposits \in Nat /\ withdrawn \in Nat
    /\ deposited \in [Slots -> Nat] /\ granted \in [Slots -> Nat]
    /\ newest \in Slots

LEMMA TypeParts == TypeOK /\ CallerInv <=> CallersOK /\ BudgetType
BY DEF TypeOK, CallersOK, BudgetType

LEMMA BudgetTypeUntouched ==
    ASSUME BudgetType, UNCHANGED <<budget, deposited, granted, newest>>
    PROVE  BudgetType'
BY DEF BudgetType, budget

LEMMA EndKeepsCallers ==
    ASSUME CallersOK, NEW c \in Callers, End(c), UNCHANGED <<clock, calls>>,
           resent' \in Nat, wasted' \in Nat
    PROVE  CallersOK'
<1>1. 0 \in Slots /\ 0 \in 0 .. MaxAttempts - 1
  BY RetryAssumption DEF Slots
<1> QED
  BY <1>1 DEF CallersOK, CallerInv, End, Goto

LEMMA CallersStep ==
    ASSUME CallersOK, [Next]_vars
    PROVE  CallersOK'
<1>1. CASE UNCHANGED vars \/ Finished
  BY <1>1 DEF Finished, vars, history, CallersOK, CallerInv
<1>2. CASE Tick
  <2>1. clock' \in Slots
    BY <1>2, RetryAssumption DEF Tick, CallersOK, Slots
  <2> QED
    BY <1>2, <2>1 DEF Tick, CallersOK, CallerInv, history
<1>3. ASSUME NEW c \in Callers, Begin(c) PROVE CallersOK'
  <2>1. calls' \in 0 .. MaxCalls
    BY <1>3, RetryAssumption DEF Begin, CallersOK
  <2>2. repeatable' \in [Callers -> BOOLEAN] /\ \A d \in Callers \ {c} : repeatable'[d] = repeatable[d]
    BY <1>3 DEF Begin, CallersOK
  <2>3. pc' = [pc EXCEPT ![c] = "depositing"] /\ reading' = [reading EXCEPT ![c] = clock]
    BY <1>3 DEF Begin, Goto, ReadClock
  <2> QED
    BY <1>3, <2>1, <2>2, <2>3 DEF Begin, CallersOK, CallerInv, history
<1>4. ASSUME NEW c \in Callers, MakeDeposit(c) PROVE CallersOK'
  BY <1>4 DEF MakeDeposit, Goto, CallersOK, CallerInv
<1>5. ASSUME NEW c \in Callers, Finish(c) PROVE CallersOK'
  BY <1>5, EndKeepsCallers DEF Finish, CallersOK, history
<1>6. ASSUME NEW c \in Callers, Fail(c) PROVE CallersOK'
  <2>1. repeatable[c] /\ attempt[c] + 1 < MaxAttempts
    BY <1>6, RetryAssumption DEF Fail, MayRetry, LastAttempt, CallersOK
  <2> QED
    BY <1>6, <2>1 DEF Fail, Goto, ReadClock, CallersOK, CallerInv, history
<1>7. ASSUME NEW c \in Callers, GetToken(c) PROVE CallersOK'
  BY <1>7 DEF GetToken, Goto, CallersOK, CallerInv
<1>8. ASSUME NEW c \in Callers, GetRefused(c) PROVE CallersOK'
  BY <1>8, EndKeepsCallers DEF GetRefused, CallersOK
<1>9. ASSUME NEW c \in Callers, Wake(c) PROVE CallersOK'
  <2>1. repeatable[c] /\ attempt[c] + 1 \in 0 .. MaxAttempts - 1
    BY <1>9, RetryAssumption DEF Wake, CallersOK, CallerInv
  <2>2. attempt' = [attempt EXCEPT ![c] = attempt[c] + 1] /\ resent' \in Nat
    BY <1>9 DEF Wake, CallersOK
  <2> QED
    BY <1>9, <2>1, <2>2 DEF Wake, Goto, CallersOK, CallerInv
<1>10. ASSUME NEW c \in Callers, Interrupt(c) PROVE CallersOK'
  BY <1>10, EndKeepsCallers DEF Interrupt, CallersOK
<1> QED
  BY <1>1, <1>2, <1>3, <1>4, <1>5, <1>6, <1>7, <1>8, <1>9, <1>10 DEF Next, Step

(* A step that is no operation of the budget leaves it alone.              *)
LEMMA BudgetSteps ==
    ASSUME [Next]_vars
    PROVE  \/ UNCHANGED <<budget, deposited, granted, newest>>
           \/ \E c \in Callers : MakeDeposit(c) \/ GetToken(c) \/ GetRefused(c)
BY DEF Next, Step, Begin, Finish, Fail, Wake, Interrupt, Tick, Finished, vars, history

LEMMA OperationKeepsBudget ==
    ASSUME TypeOK, BudgetInv, NEW c \in Callers, NEW d \in Nat, NEW w \in Nat,
           Operation(c, d, w)
    PROVE  BudgetType' /\ BudgetInv'
BY OperationKeepsRings DEF BudgetType

LEMMA BudgetStep ==
    ASSUME TypeOK, BudgetInv, CallerInv, [Next]_vars
    PROVE  BudgetType' /\ BudgetInv'
<1>1. BudgetType
  BY TypeParts
<1>2. CASE UNCHANGED <<budget, deposited, granted, newest>>
  BY <1>1, <1>2, BudgetTypeUntouched, BudgetUntouched
<1>3. ASSUME NEW c \in Callers, MakeDeposit(c) PROVE BudgetType' /\ BudgetInv'
  BY <1>3, DepositIsOperation, OperationKeepsBudget
<1>4. ASSUME NEW c \in Callers, GetToken(c) PROVE BudgetType' /\ BudgetInv'
  BY <1>4, WithdrawalIsOperation, OperationKeepsBudget
<1>5. ASSUME NEW c \in Callers, GetRefused(c) PROVE BudgetType' /\ BudgetInv'
  BY <1>5, RefusalIsOperation, OperationKeepsBudget
<1> QED
  BY <1>2, <1>3, <1>4, <1>5, BudgetSteps

LEMMA TypeStep ==
    ASSUME TypeOK, BudgetInv, CallerInv, [Next]_vars
    PROVE  TypeOK' /\ BudgetInv' /\ CallerInv'
<1>1. CallersOK' /\ BudgetType' /\ BudgetInv'
  BY TypeParts, CallersStep, BudgetStep
<1> QED
  BY <1>1 DEF TypeOK, CallersOK, BudgetType

-----------------------------------------------------------------------------
(* The totals.                                                             *)

LEMMA LiveTotals ==
    ASSUME BudgetType, BudgetInv, slot # NoSlot
    PROVE  deposits = Sum(deposited, Window(slot)) /\ withdrawn = Sum(granted, Window(slot))
<1>1. slot \in Slots /\ deposited \in [Slots -> Nat] /\ granted \in [Slots -> Nat]
  BY DEF BudgetType
<1>2. /\ RingOK(bucket_deposits, deposits, deposited, slot)
      /\ RingOK(bucket_withdrawn, withdrawn, granted, slot)
  BY DEF BudgetInv
<1> QED
  BY <1>1, <1>2, WindowTotal

(* The same after a budget operation.                                      *)
LEMMA LiveTotalsAfter ==
    ASSUME TypeOK, BudgetInv, NEW c \in Callers, NEW d \in Nat, NEW w \in Nat,
           Operation(c, d, w)
    PROVE  /\ deposits' = Sum(deposited', Window(newest'))
           /\ withdrawn' = Sum(granted', Window(newest'))
<1>1. /\ slot' \in Slots /\ newest' = slot'
      /\ deposited' \in [Slots -> Nat] /\ granted' \in [Slots -> Nat]
      /\ BudgetInv'
  BY OperationKeepsRings
<1>2. /\ RingOK(bucket_deposits', deposits', deposited', slot')
      /\ RingOK(bucket_withdrawn', withdrawn', granted', slot')
  BY <1>1 DEF BudgetInv
<1> QED
  BY <1>1, <1>2, WindowTotal

(* What the budget compares when it is asked for a token.                  *)
LEMMA RefusedWhenSpent ==
    ASSUME TypeOK, BudgetInv, NEW c \in Callers, GetRefused(c)
    PROVE  Sum(granted, Window(newest')) >= Ceiling(Sum(deposited, Window(newest')))
<1>1. Operation(c, 0, 0)
  BY RefusalIsOperation
<1>2. /\ deposits' = Sum(deposited', Window(newest'))
      /\ withdrawn' = Sum(granted', Window(newest'))
      /\ deposits' \in Nat /\ withdrawn' \in Nat
  BY <1>1, LiveTotalsAfter, OperationKeepsRings
<1> DEFINE current == Current(reading[c])
           made == Left(deposits, bucket_deposits, current)
           taken == Left(withdrawn, bucket_withdrawn, current)
<1>3. /\ taken >= Ceiling(made)
      /\ deposits' = made + 0 /\ withdrawn' = taken + 0
      /\ deposited' = deposited /\ granted' = granted
  BY DEF GetRefused, RefuseRetry, Exhausted, Move
<1>4. made \in Nat /\ taken \in Nat
  <2>1. current \in Slots /\ current >= slot /\ slot \in Slots \cup {NoSlot}
    BY CurrentSlot DEF TypeOK
  <2>2. /\ bucket_deposits \in [Buckets -> Nat] /\ deposited \in [Slots -> Nat]
        /\ RingOK(bucket_deposits, deposits, deposited, slot)
        /\ bucket_withdrawn \in [Buckets -> Nat] /\ granted \in [Slots -> Nat]
        /\ RingOK(bucket_withdrawn, withdrawn, granted, slot)
    BY DEF TypeOK, BudgetInv
  <2> HIDE DEF current
  <2> QED
    BY <2>1, <2>2, RingStep
<1>5. deposits' = made /\ withdrawn' = taken
  <2> HIDE DEF made, taken
  <2> QED
    BY <1>3, <1>4
<1> HIDE DEF made, taken
<1> QED
  BY <1>2, <1>3, <1>5

-----------------------------------------------------------------------------
(* Tokens and attempts.                                                    *)

LEMMA GrantedMore ==
    ASSUME NEW h \in [Slots -> Nat], NEW s \in Slots, NEW d \in Nat
    PROVE  Sum(With(h, s, d), Slots) = Sum(h, Slots) + d
<1>1. Ints(h, Slots) /\ d \in Int /\ IsFiniteSet(Slots)
  BY NatValues, RingFacts
<1>2. With(h, s, d)[s] = h[s] + d /\ \A r \in Slots \ {s} : With(h, s, d)[r] = h[r]
  BY DEF With
<1> QED
  BY <1>1, <1>2, SumOfChanged DEF Sum

LEMMA SleepingStays ==
    ASSUME PaidInv, UNCHANGED <<granted, resent, wasted>>, Sleeping' = Sleeping
    PROVE  PaidInv'
BY DEF PaidInv, RetriesPaid, Sleeping

LEMMA SleeperLeaves ==
    ASSUME PaidInv, TypeOK, NEW c \in Callers, pc[c] = "sleeping",
           UNCHANGED granted, Sleeping' = Sleeping \ {c},
           resent' + wasted' = (resent + wasted) + 1
    PROVE  PaidInv'
<1>1. IsFiniteSet(Sleeping) /\ c \in Sleeping
  BY DEF PaidInv, Sleeping
<1>2. /\ IsFiniteSet(Sleeping \ {c}) /\ Cardinality(Sleeping) \in Nat
      /\ Cardinality(Sleeping \ {c}) = Cardinality(Sleeping) - 1
  BY <1>1, FS_RemoveElement, FS_CardinalityType
<1>3. Sum(granted, Slots) = (resent + wasted) + Cardinality(Sleeping)
  BY DEF PaidInv, RetriesPaid, Sleeping
<1>4. resent \in Nat /\ wasted \in Nat
  BY DEF TypeOK
<1>5. Sum(granted, Slots) = ((resent + wasted) + 1) + (Cardinality(Sleeping) - 1)
  BY <1>2, <1>3, <1>4
<1>6. Sum(granted', Slots) = (resent' + wasted') + Cardinality(Sleeping')
  BY <1>2, <1>5, Zenon
<1> QED
  BY <1>2, <1>6 DEF PaidInv, RetriesPaid, Sleeping

LEMMA SleeperJoins ==
    ASSUME PaidInv, TypeOK, NEW c \in Callers, pc[c] # "sleeping",
           Sum(granted', Slots) = Sum(granted, Slots) + 1,
           Sleeping' = Sleeping \cup {c}, UNCHANGED <<resent, wasted>>
    PROVE  PaidInv'
<1>1. IsFiniteSet(Sleeping) /\ c \notin Sleeping
  BY DEF PaidInv, Sleeping
<1>2. /\ IsFiniteSet(Sleeping \cup {c}) /\ Cardinality(Sleeping) \in Nat
      /\ Cardinality(Sleeping \cup {c}) = Cardinality(Sleeping) + 1
  BY <1>1, FS_AddElement, FS_CardinalityType
<1>3. Sum(granted, Slots) = (resent + wasted) + Cardinality(Sleeping)
  BY DEF PaidInv, RetriesPaid, Sleeping
<1>4. resent \in Nat /\ wasted \in Nat
  BY DEF TypeOK
<1>5. Sum(granted, Slots) + 1 = (resent + wasted) + (Cardinality(Sleeping) + 1)
  BY <1>2, <1>3, <1>4
<1>6. Sum(granted', Slots) = (resent' + wasted') + Cardinality(Sleeping')
  BY <1>2, <1>5, Zenon
<1> QED
  BY <1>2, <1>6 DEF PaidInv, RetriesPaid, Sleeping

LEMMA PaidStep ==
    ASSUME TypeOK, BudgetInv, PaidInv, [Next]_vars
    PROVE  PaidInv'
<1>0. pc \in [Callers -> {"idle", "depositing", "calling", "withdrawing", "sleeping"}]
  BY DEF TypeOK
<1>1. CASE UNCHANGED vars \/ Finished \/ Tick
  <2>1. UNCHANGED <<granted, resent, wasted, pc>>
    BY <1>1 DEF Finished, Tick, vars, history
  <2> QED
    BY <2>1, SleepingStays DEF Sleeping
<1>2. ASSUME NEW c \in Callers, Begin(c) \/ MakeDeposit(c) \/ Finish(c) \/ Fail(c) \/ GetRefused(c)
      PROVE  PaidInv'
  <2>1. UNCHANGED <<granted, resent, wasted>>
    BY <1>2 DEF Begin, MakeDeposit, Finish, Fail, GetRefused, history
  <2>2. pc[c] # "sleeping" /\ \E place : place # "sleeping" /\ pc' = [pc EXCEPT ![c] = place]
    BY <1>2 DEF Begin, MakeDeposit, Finish, Fail, GetRefused, End, Goto
  <2>3. Sleeping' = Sleeping
    BY <1>0, <2>2 DEF Sleeping
  <2> QED
    BY <2>1, <2>3, SleepingStays
<1>3. ASSUME NEW c \in Callers, GetToken(c) PROVE PaidInv'
  <2>1. granted' = With(granted, CountsIn(c), 1) /\ UNCHANGED <<resent, wasted>>
    BY <1>3 DEF GetToken, With
  <2>2. Sum(granted', Slots) = Sum(granted, Slots) + 1
    BY <2>1, CurrentSlot, GrantedMore DEF TypeOK
  <2>3. pc[c] # "sleeping" /\ Sleeping' = Sleeping \cup {c}
    BY <1>0, <1>3 DEF GetToken, Goto, Sleeping
  <2> QED
    BY <2>1, <2>2, <2>3, SleeperJoins
<1>4. ASSUME NEW c \in Callers, Wake(c) \/ Interrupt(c) PROVE PaidInv'
  <2>1. UNCHANGED granted /\ pc[c] = "sleeping"
    BY <1>4 DEF Wake, Interrupt
  <2>2. Sleeping' = Sleeping \ {c}
    BY <1>0, <1>4 DEF Wake, Interrupt, End, Goto, Sleeping
  <2>3. resent' + wasted' = (resent + wasted) + 1
    BY <1>4 DEF Wake, Interrupt, TypeOK
  <2> QED
    BY <2>1, <2>2, <2>3, SleeperLeaves
<1> QED
  BY <1>1, <1>2, <1>3, <1>4 DEF Next, Step

LEMMA InitPaid == Init => PaidInv
<1> SUFFICES ASSUME Init PROVE PaidInv
  OBVIOUS
<1>1. Sleeping = {}
  BY DEF Init, Sleeping
<1>2. Sum(granted, Slots) = 0
  BY RingFacts, SumOfZeros DEF Init, Sum
<1>3. IsFiniteSet({}) /\ Cardinality({}) = 0
  BY FS_EmptySet
<1>4. resent = 0 /\ wasted = 0
  BY DEF Init
<1> QED
  BY <1>1, <1>2, <1>3, <1>4 DEF PaidInv, RetriesPaid, Sleeping

-----------------------------------------------------------------------------
(* Retry storms.                                                           *)

(* The slots whose deposits pay for the retries of the window that ends    *)
(* with slot s.                                                            *)
Paying(s) == {r \in Slots : r > s - 2 * BucketCount /\ r <= s}

LEMMA PayingFacts ==
    ASSUME NEW s \in Slots
    PROVE  /\ IsFiniteSet(Paying(s)) /\ Paying(s) \subseteq Slots
           /\ \A r \in Window(s) : Window(r) \subseteq Paying(s)
<1>1. Paying(s) \subseteq Slots
  BY DEF Paying
<1>2. IsFiniteSet(Paying(s))
  BY <1>1, RingFacts, FS_Subset
<1>3. \A r \in Window(s) : Window(r) \subseteq Paying(s)
  BY RingFacts DEF Window, Paying, Slots
<1> QED
  BY <1>1, <1>2, <1>3

LEMMA SumFacts ==
    ASSUME NEW h \in [Slots -> Nat], NEW S \in SUBSET Slots
    PROVE  /\ Sum(h, S) \in Nat
           /\ \A T \in SUBSET S : Sum(h, T) <= Sum(h, S)
<1>1. IsFiniteSet(S) /\ Nats(h, S)
  BY RingFacts, FS_Subset, NatValues
<1> QED
  BY <1>1, SumIsNat, SumOfFewer DEF Sum

LEMMA CeilingOrdered ==
    ASSUME NEW a \in Nat, NEW b \in Nat, a <= b
    PROVE  Ceiling(a) \in Int /\ Ceiling(b) \in Int /\ Ceiling(a) <= Ceiling(b)
<1>1. PctNum \in Nat /\ PctDen \in Nat \ {0} /\ Floor \in Nat
  BY BudgetAssumption
<1> DEFINE x == a * PctNum + PctDen - 1
           y == b * PctNum + PctDen - 1
<1>2. x \in Int /\ y \in Int /\ x <= y
  <2>1. (b - a) * PctNum \in Nat
    BY <1>1
  <2>2. b * PctNum - a * PctNum = (b - a) * PctNum /\ a * PctNum \in Nat /\ b * PctNum \in Nat
    BY <1>1
  <2>3. b * PctNum >= a * PctNum
    BY <2>1, <2>2
  <2> QED
    BY <1>1, <2>2, <2>3
<1>3. Ceiling(a) = (x \div PctDen) + Floor /\ Ceiling(b) = (y \div PctDen) + Floor
  BY DEF Ceiling
<1> HIDE DEF x, y
<1>4. x \div PctDen \in Int /\ y \div PctDen \in Int /\ x \div PctDen <= y \div PctDen
  BY <1>1, <1>2, QuotientRemainder, QuotientsOrdered
<1> QED
  BY <1>1, <1>3, <1>4

(* NoRetryStorm of any two histories.                                      *)
StormFree(made, taken) ==
    \A s \in Slots : Sum(taken, Window(s)) <= Ceiling(Sum(made, Paying(s)))

LEMMA StormFreeSame == NoRetryStorm <=> StormFree(deposited, granted)
BY DEF NoRetryStorm, StormFree, Paying

LEMMA MoreDeposits ==
    ASSUME NEW made \in [Slots -> Nat], NEW taken \in [Slots -> Nat],
           StormFree(made, taken), NEW at \in Slots
    PROVE  StormFree(With(made, at, 1), taken)
<1> DEFINE made1 == With(made, at, 1)
<1>1. made1 \in [Slots -> Nat]
  BY DEF With
<1>2. ASSUME NEW s \in Slots
      PROVE  Sum(taken, Window(s)) <= Ceiling(Sum(made1, Paying(s)))
  <2>1. IsFiniteSet(Paying(s)) /\ Paying(s) \subseteq Slots
    BY PayingFacts
  <2>2. Sum(made, Paying(s)) \in Nat /\ Sum(made1, Paying(s)) \in Nat
    BY <1>1, <2>1, SumFacts
  <2>3. Ints(made, Paying(s))
    BY <2>1, NatValues
  <2>4. Sum(made, Paying(s)) <= Sum(made1, Paying(s))
    <3>1. CASE at \in Paying(s)
      <4>1. made1[at] = made[at] + 1 /\ \A r \in Paying(s) \ {at} : made1[r] = made[r]
        BY <2>1 DEF With
      <4> HIDE DEF made1
      <4>2. SumFunctionOnSet(made1, Paying(s)) = SumFunctionOnSet(made, Paying(s)) + 1
        BY <2>1, <2>3, <3>1, <4>1, SumOfChanged
      <4> QED
        BY <2>2, <4>2 DEF Sum
    <3>2. CASE at \notin Paying(s)
      <4>1. \A r \in Paying(s) : made[r] = made1[r]
        BY <2>1, <3>2 DEF With
      <4> HIDE DEF made1
      <4>2. SumFunctionOnSet(made, Paying(s)) = SumFunctionOnSet(made1, Paying(s))
        BY <2>1, <2>3, <4>1, SumsEqual
      <4> QED
        BY <2>2, <4>2 DEF Sum
    <3> QED
      BY <3>1, <3>2
  <2>5. Sum(taken, Window(s)) \in Nat /\ Sum(taken, Window(s)) <= Ceiling(Sum(made, Paying(s)))
    BY RingFacts, SumFacts DEF StormFree
  <2> HIDE DEF made1
  <2> QED
    BY <2>2, <2>4, <2>5, CeilingOrdered
<1> QED
  BY <1>2 DEF StormFree

(* A token is granted in slot at, after which nothing has happened yet:    *)
(* the windows that contain slot at have no more tokens than the window    *)
(* that ends with it, for which the budget has just checked.               *)
LEMMA OneMoreToken ==
    ASSUME NEW made \in [Slots -> Nat], NEW taken \in [Slots -> Nat], NEW at \in Slots,
           StormFree(made, taken),
           \A s \in Slots : s > at => taken[s] = 0,
           Sum(With(taken, at, 1), Window(at)) <= Ceiling(Sum(made, Window(at)))
    PROVE  StormFree(made, With(taken, at, 1))
<1> DEFINE taken1 == With(taken, at, 1)
<1>1. taken1 \in [Slots -> Nat] /\ \A s \in Slots : s > at => taken1[s] = 0
  BY DEF With, Slots
<1>2. ASSUME NEW s \in Slots
      PROVE  Sum(taken1, Window(s)) <= Ceiling(Sum(made, Paying(s)))
  <2>1. IsFiniteSet(Window(s)) /\ Window(s) \subseteq Slots /\ Paying(s) \subseteq Slots
    BY RingFacts, PayingFacts
  <2>2. CASE at \notin Window(s)
    <3>1. \A r \in Window(s) : taken[r] = taken1[r]
      BY <2>1, <2>2 DEF With
    <3>2. Ints(taken, Window(s))
      BY <2>1, NatValues
    <3> HIDE DEF taken1
    <3>3. SumFunctionOnSet(taken, Window(s)) = SumFunctionOnSet(taken1, Window(s))
      BY <2>1, <3>1, <3>2, SumsEqual
    <3> QED
      BY <3>3 DEF Sum, StormFree
  <2>3. CASE at \in Window(s)
    <3> DEFINE upto == Window(s) \cap Window(at)
               beyond == Window(s) \ Window(at)
    <3>1. Window(at) \subseteq Paying(s)
      BY <2>3, PayingFacts
    <3>2. Sum(made, Window(at)) <= Sum(made, Paying(s))
      BY <2>1, <3>1, SumFacts
    <3>3. /\ Sum(made, Window(at)) \in Nat /\ Sum(made, Paying(s)) \in Nat
          /\ Sum(taken1, Window(at)) \in Nat
      BY <1>1, <2>1, RingFacts, SumFacts
    <3>4. Ceiling(Sum(made, Window(at))) <= Ceiling(Sum(made, Paying(s)))
      BY <3>2, <3>3, CeilingOrdered
    <3>5. \A r \in beyond : taken1[r] = 0
      <4>1. \A r \in beyond : r \in Slots /\ r > at
        BY <2>3, RingFacts DEF Window, Slots
      <4> QED
        BY <1>1, <4>1
    <3>6. IsFiniteSet(upto) /\ IsFiniteSet(beyond) /\ Ints(taken1, Window(s))
      <4>1. upto \in SUBSET Window(s) /\ beyond \in SUBSET Window(s)
        OBVIOUS
      <4>2. Ints(taken1, Window(s))
        BY <1>1, <2>1, NatValues
      <4> HIDE DEF upto, beyond
      <4> QED
        BY <2>1, <4>1, <4>2, FS_Subset
    <3>7. Window(s) = upto \cup beyond /\ upto \cap beyond = {} /\ upto \in SUBSET Window(at)
      OBVIOUS
    <3> HIDE DEF upto, beyond, taken1
    <3>8. SumFunctionOnSet(taken1, Window(s)) =
            SumFunctionOnSet(taken1, upto) + SumFunctionOnSet(taken1, beyond)
      BY <3>6, <3>7, SumOfUnion
    <3>9. SumFunctionOnSet(taken1, beyond) = 0
      BY <3>5, <3>6, SumOfZeros
    <3>10. Sum(taken1, upto) \in Nat /\ Sum(taken1, upto) <= Sum(taken1, Window(at))
      BY <1>1, <3>7, RingFacts, SumFacts
    <3>11. Sum(taken1, Window(s)) = Sum(taken1, upto)
      BY <3>8, <3>9, <3>10 DEF Sum
    <3>12. Sum(taken1, Window(at)) <= Ceiling(Sum(made, Window(at)))
      BY DEF taken1
    <3> QED
      BY <3>3, <3>4, <3>10, <3>11, <3>12, CeilingOrdered
  <2> QED
    BY <2>2, <2>3
<1> QED
  BY <1>2 DEF StormFree

LEMMA TokenAllowed ==
    ASSUME TypeOK, BudgetInv, NEW c \in Callers, GetToken(c)
    PROVE  withdrawn' <= Ceiling(deposits')
<1> DEFINE current == Current(reading[c])
           made == Left(deposits, bucket_deposits, current)
           taken == Left(withdrawn, bucket_withdrawn, current)
<1>1. ~(taken >= Ceiling(made)) /\ deposits' = made + 0 /\ withdrawn' = taken + 1
  BY DEF GetToken, Withdraw, Exhausted, Move
<1>2. made \in Nat /\ taken \in Nat
  <2>1. current \in Slots /\ current >= slot /\ slot \in Slots \cup {NoSlot}
    BY CurrentSlot DEF TypeOK
  <2>2. /\ bucket_deposits \in [Buckets -> Nat] /\ deposited \in [Slots -> Nat]
        /\ RingOK(bucket_deposits, deposits, deposited, slot)
        /\ bucket_withdrawn \in [Buckets -> Nat] /\ granted \in [Slots -> Nat]
        /\ RingOK(bucket_withdrawn, withdrawn, granted, slot)
    BY DEF TypeOK, BudgetInv
  <2> HIDE DEF current
  <2> QED
    BY <2>1, <2>2, RingStep
<1> HIDE DEF made, taken
<1>3. deposits' = made /\ Ceiling(made) \in Int
  BY <1>1, <1>2, CeilingOrdered
<1>4. taken + 1 <= Ceiling(made)
  BY <1>1, <1>2, <1>3
<1> QED
  BY <1>1, <1>3, <1>4

LEMMA StormStep ==
    ASSUME TypeOK, BudgetInv, NoRetryStorm, [Next]_vars
    PROVE  NoRetryStorm'
<1>0. /\ deposited \in [Slots -> Nat] /\ granted \in [Slots -> Nat]
      /\ StormFree(deposited, granted)
  BY StormFreeSame DEF TypeOK
<1>1. CASE UNCHANGED <<budget, deposited, granted, newest>>
  BY <1>1 DEF NoRetryStorm
<1>2. ASSUME NEW c \in Callers, MakeDeposit(c) PROVE NoRetryStorm'
  <2>1. deposited' = With(deposited, CountsIn(c), 1) /\ granted' = granted
    BY <1>2 DEF MakeDeposit, With
  <2>2. StormFree(deposited', granted')
    BY <1>0, <2>1, CurrentSlot, MoreDeposits
  <2> QED
    BY <2>2 DEF NoRetryStorm, StormFree, Paying
<1>3. ASSUME NEW c \in Callers, GetToken(c) PROVE NoRetryStorm'
  <2> DEFINE at == CountsIn(c)
  <2>1. deposited' = deposited /\ granted' = With(granted, at, 1) /\ newest' = at
    BY <1>3 DEF GetToken, With
  <2>2. at \in Slots /\ \A s \in Slots : s > at => granted[s] = 0
    <3>1. at \in Slots /\ at >= slot /\ slot \in Slots \cup {NoSlot}
      BY CurrentSlot DEF TypeOK
    <3> HIDE DEF at
    <3>2. \A s \in Slots : s > at => s > slot
      BY <3>1, SlotTypes
    <3> QED
      BY <3>1, <3>2 DEF BudgetInv, RingOK
  <2>3. /\ deposits' = Sum(deposited', Window(at))
        /\ withdrawn' = Sum(granted', Window(at))
    BY <1>3, <2>1, WithdrawalIsOperation, LiveTotalsAfter
  <2> HIDE DEF at
  <2>4. Sum(With(granted, at, 1), Window(at)) <= Ceiling(Sum(deposited, Window(at)))
    BY <1>3, <2>1, <2>3, TokenAllowed
  <2>5. StormFree(deposited', granted')
    BY <1>0, <2>1, <2>2, <2>4, OneMoreToken
  <2> QED
    BY <2>5 DEF NoRetryStorm, StormFree, Paying
<1>4. ASSUME NEW c \in Callers, GetRefused(c) PROVE NoRetryStorm'
  BY <1>4 DEF GetRefused, NoRetryStorm
<1> QED
  BY <1>1, <1>2, <1>3, <1>4, BudgetSteps

LEMMA InitStormFree == Init => NoRetryStorm
<1> SUFFICES ASSUME Init, NEW s \in Slots
             PROVE  Sum(granted, Window(s)) <= Ceiling(Sum(deposited, Paying(s)))
  BY DEF NoRetryStorm, Paying
<1>1. IsFiniteSet(Window(s)) /\ Window(s) \subseteq Slots
  BY RingFacts
<1>2. IsFiniteSet(Paying(s)) /\ Paying(s) \subseteq Slots
  BY PayingFacts
<1>3. \A r \in Slots : deposited[r] = 0 /\ granted[r] = 0
  BY DEF Init
<1>4. Sum(granted, Window(s)) = 0 /\ Sum(deposited, Paying(s)) = 0
  BY <1>1, <1>2, <1>3, SumOfZeros DEF Sum
<1>5. Ceiling(0) >= 0
  <2>1. PctNum \in Nat /\ PctDen \in Nat \ {0} /\ Floor \in Nat
    BY BudgetAssumption
  <2>2. 0 * PctNum + PctDen - 1 = PctDen - 1 /\ PctDen - 1 \in Int /\ 0 <= PctDen - 1
    BY <2>1
  <2>3. 0 \div PctDen = 0 /\ 0 \div PctDen <= (PctDen - 1) \div PctDen /\ (PctDen - 1) \div PctDen \in Int
    BY <2>1, <2>2, QuotientsOrdered, QuotientRemainder
  <2> QED
    BY <2>1, <2>2, <2>3 DEF Ceiling
<1> QED
  BY <1>4, <1>5

-----------------------------------------------------------------------------
(* The theorems.                                                           *)

LEMMA Inductive == Spec => []IInv
<1>1. Init => IInv
  BY InitInv, InitPaid, InitStormFree DEF IInv
<1>2. IInv /\ [Next]_vars => IInv'
  BY TypeStep, PaidStep, StormStep DEF IInv
<1> QED
  BY <1>1, <1>2, PTL DEF Spec

(* The budget's ring and the callers are well-formed; no caller makes more *)
(* attempts than allowed, or a second one for a request that must not be   *)
(* repeated.                                                               *)
THEOREM RetryTypeCorrect == Spec => []TypeOK
<1>1. IInv => TypeOK
  BY DEF IInv
<1> QED
  BY <1>1, Inductive, PTL

(* However threads overtake each other between the clock and the lock, the *)
(* totals that the budget decides on are the deposits and withdrawals of   *)
(* the last BucketCount slots.                                             *)
THEOREM TotalsAreTheWindow == Spec => []TotalsMatchHistory
<1>1. IInv => TotalsMatchHistory
  BY TypeParts, LiveTotals DEF IInv, TotalsMatchHistory
<1> QED
  BY <1>1, Inductive, PTL

(* The budget refuses a retry only if the withdrawals in the live window   *)
(* have used up what its deposits and the floor allow.                     *)
THEOREM RefusalsJustified == Spec => RefusedOnlyWhenSpent
<1>1. IInv /\ [Next]_vars =>
        [\A c \in Callers : GetRefused(c) =>
           Sum(granted, Window(newest')) >= Ceiling(Sum(deposited, Window(newest')))]_vars
  BY RefusedWhenSpent DEF IInv
<1> QED
  BY <1>1, Inductive, PTL DEF Spec, RefusedOnlyWhenSpent

(* Every attempt but the first of its call has a token of its own; every   *)
(* token is an attempt made, a sleep under way or one that was given up.   *)
THEOREM EveryRetryPaid == Spec => []RetriesPaid
<1>1. IInv => RetriesPaid
  BY DEF IInv, PaidInv
<1> QED
  BY <1>1, Inductive, PTL

(* An outage cannot make the callers together send more retries in any     *)
(* window than its deposits and those of the window before it pay for.     *)
THEOREM StormsExcluded == Spec => []NoRetryStorm
<1>1. IInv => NoRetryStorm
  BY DEF IInv
<1> QED
  BY <1>1, Inductive, PTL

================================================================================
