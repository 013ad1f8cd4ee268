-------------------------- MODULE RollingWindowProofs --------------------------
(***************************************************************************)
(* Theorems about the rolling window, for every number and width of the    *)
(* buckets, and however long the calls on it are apart.                    *)
(***************************************************************************)
EXTENDS RollingWindowUse, WindowLemmas

-----------------------------------------------------------------------------
(* The inductive invariant.                                                *)

(* A tally has a count for each slot.                                      *)
Tallies == [Int -> Nat]

Blank == [s \in Int |-> 0]

Bump(h, s) == [h EXCEPT ![s] = @ + 1]

(* Counted up to slot last and no further.                                 *)
EndsAt(h, last) == \A s \in Int : s > last => h[s] = 0

Shaped(w) == w \in Windows /\ w.index = w.slot % BucketCount

(* A window counts what the tallies of successes and of failures have, in  *)
(* the slots it still knows.                                               *)
Counts(w, g, b) ==
    /\ Shaped(w)
    /\ Mirrors(w.success, BucketCount, g, w.slot)
    /\ Mirrors(w.failure, BucketCount, b, w.slot)
    /\ w.failures = SumFunctionOnSet(w.failure, Buckets)
    /\ w.total = SumFunctionOnSet(w.success, Buckets) + SumFunctionOnSet(w.failure, Buckets)

InSlots(S) == {t \in Times : Slot(t) \in S}

(* The tally of a history: what it has at the readings of each slot.       *)
BySlot(h) == [s \in Int |-> SumFunctionOnSet(h, InSlots({s}))]

Histories == [Times -> Nat]

(* Nothing was recorded later than now, or in slots after last.            *)
Unwritten(h, last) ==
    \A t \in Times : t > now \/ Slot(t) > last => h[t] = 0

IInv ==
    /\ now \in Times
    /\ good \in Histories /\ bad \in Histories
    /\ window.slot <= Slot(now)
    /\ Unwritten(good, window.slot) /\ Unwritten(bad, window.slot)
    /\ Counts(window, BySlot(good), BySlot(bad))

-----------------------------------------------------------------------------
(* The operations of the window, for any tallies.                          *)

LEMMA BucketFacts ==
    /\ BucketCount \in Nat \ {0} /\ BucketWidth \in Nat \ {0}
    /\ Buckets = 0 .. BucketCount - 1 /\ IsFiniteSet(Buckets)
    /\ \A n \in Int : Slot(n) \in Int
<1>1. BucketCount \in Nat \ {0} /\ BucketWidth \in Nat \ {0}
  BY BucketAssumption
<1>2. IsFiniteSet(Buckets)
  BY <1>1, FS_Interval DEF Buckets
<1> QED
  BY <1>1, <1>2 DEF Buckets, Slot

(* The buckets in use when the window moves from slot last to current.     *)
Moved(ring, last, current) == KeptOf(ring, BucketCount, Swept(BucketCount, last, current))

(* Whether it clears everything or the buckets of the slots in between,    *)
(* advancing sweeps a ring, and the totals lose what it sweeps out.        *)
LEMMA AdvanceMoves ==
    ASSUME NEW w, NEW g, NEW b, Counts(w, g, b), NEW n \in Int, w.slot < Slot(n)
    PROVE  LET v == Advance(w, n)
           IN /\ v \in Windows
              /\ v.slot = Slot(n) /\ v.index = Slot(n) % BucketCount
              /\ v.success = Moved(w.success, w.slot, Slot(n))
              /\ v.failure = Moved(w.failure, w.slot, Slot(n))
              /\ v.failures = SumFunctionOnSet(v.failure, Buckets)
              /\ v.total = SumFunctionOnSet(v.success, Buckets) + SumFunctionOnSet(v.failure, Buckets)
<1> DEFINE v == Advance(w, n)
           last == w.slot
           current == Slot(n)
           stale == Swept(BucketCount, last, current)
           good1 == Moved(w.success, last, current)
           bad1 == Moved(w.failure, last, current)
           Sum(f, S) == SumFunctionOnSet(f, S)
<1>1. /\ last \in Int /\ current \in Int /\ BucketCount \in Nat \ {0}
      /\ w \in Windows /\ w.success \in [Buckets -> Int] /\ w.failure \in [Buckets -> Int]
  BY BucketFacts DEF Counts, Shaped, Windows
<1>2. stale \in SUBSET Buckets
  BY <1>1, SweptBuckets DEF Buckets
<1>3. ASSUME NEW ring \in [Buckets -> Int]
      PROVE  LET kept == Moved(ring, last, current)
             IN /\ kept = [i \in Buckets |-> IF i \in stale THEN 0 ELSE ring[i]]
                /\ kept \in [Buckets -> Int]
                /\ Sum(ring, Buckets) \in Int /\ Sum(ring, stale) \in Int
                /\ Sum(kept, Buckets) = Sum(ring, Buckets) - Sum(ring, stale)
                /\ stale = Buckets => Sum(kept, Buckets) = 0
  <2> DEFINE kept == Moved(ring, last, current)
  <2>1. kept = [i \in Buckets |-> IF i \in stale THEN 0 ELSE ring[i]]
    BY DEF Moved, KeptOf, Buckets
  <2>2. kept \in [Buckets -> Int]
    BY <2>1
  <2>3. IsFiniteSet(Buckets) /\ IsFiniteSet(stale)
    BY <1>2, BucketFacts, FS_Subset
  <2>4. Ints(ring, Buckets) /\ Ints(ring, stale)
    BY <1>2 DEF Ints
  <2>5. Sum(ring, Buckets) \in Int /\ Sum(ring, stale) \in Int
    BY <2>3, <2>4, SumIsInt
  <2>6. kept = KeptOf(ring, BucketCount, stale)
    BY DEF Moved
  <2> HIDE DEF kept, stale
  <2>7. /\ Sum(kept, Buckets) = Sum(ring, Buckets) - Sum(ring, stale)
        /\ stale = Buckets => Sum(kept, Buckets) = 0
    BY <1>1, <1>2, <2>4, <2>6, KeptTotal DEF Buckets
  <2> QED
    BY <2>1, <2>2, <2>5, <2>7 DEF kept
<1>4. /\ Sum(w.success, Buckets) \in Int /\ Sum(w.failure, Buckets) \in Int
      /\ Sum(w.success, stale) \in Int /\ Sum(w.failure, stale) \in Int
      /\ good1 \in [Buckets -> Int] /\ bad1 \in [Buckets -> Int]
      /\ Sum(good1, Buckets) = Sum(w.success, Buckets) - Sum(w.success, stale)
      /\ Sum(bad1, Buckets) = Sum(w.failure, Buckets) - Sum(w.failure, stale)
      /\ stale = Buckets => Sum(good1, Buckets) = 0 /\ Sum(bad1, Buckets) = 0
  BY <1>1, <1>3
<1>5. current % BucketCount \in Buckets
  BY <1>1, RemainderRange DEF Buckets
<1>6. /\ w.failures = Sum(w.failure, Buckets)
      /\ w.total = Sum(w.success, Buckets) + Sum(w.failure, Buckets)
  BY DEF Counts
<1>7. ~(current <= last)
  BY <1>1
<1>8. CASE current - last >= BucketCount
  <2>1. stale = Buckets
    BY <1>8 DEF Swept, Buckets
  <2>2. good1 = NoOutcomes /\ bad1 = NoOutcomes
    BY <1>1, <1>3, <2>1 DEF NoOutcomes
  <2>3. v = [Clear(w) EXCEPT !.slot = current, !.index = current % BucketCount]
    BY <1>8, <1>7, Zenon DEF Advance
  <2>4. /\ v.slot = current /\ v.index = current % BucketCount
        /\ v.success = good1 /\ v.failure = bad1 /\ v.total = 0 /\ v.failures = 0
        /\ v = [slot |-> v.slot, index |-> v.index, success |-> v.success,
                failure |-> v.failure, total |-> v.total, failures |-> v.failures]
    BY <1>1, <2>2, <2>3 DEF Clear, Windows
  <2> HIDE DEF v, good1, bad1, current, last, stale
  <2>5. v \in Windows
    BY <1>1, <1>4, <1>5, <2>4 DEF Windows
  <2> QED
    BY <1>4, <2>1, <2>4, <2>5 DEF v, good1, bad1, current, last
<1>9. CASE ~(current - last >= BucketCount)
  <2>1. stale = {s % BucketCount : s \in last + 1 .. current}
    BY <1>9 DEF Swept
  <2>2. v = [Forget(w, current) EXCEPT !.slot = current, !.index = current % BucketCount]
    BY <1>9, <1>7, Zenon DEF Advance
  <2>3. Forget(w, current) =
          [w EXCEPT !.total = @ - Sum(w.success, stale) - Sum(w.failure, stale),
                    !.failures = @ - Sum(w.failure, stale),
                    !.success = good1, !.failure = bad1]
    <3>1. /\ good1 = [i \in Buckets |-> IF i \in stale THEN 0 ELSE w.success[i]]
          /\ bad1 = [i \in Buckets |-> IF i \in stale THEN 0 ELSE w.failure[i]]
      BY <1>1, <1>3
    <3> HIDE DEF good1, bad1, stale
    <3> QED
      BY <1>1, <2>1, <3>1 DEF Forget, Windows
  <2>4. /\ v.slot = current /\ v.index = current % BucketCount
        /\ v.success = good1 /\ v.failure = bad1
        /\ v.total = w.total - Sum(w.success, stale) - Sum(w.failure, stale)
        /\ v.failures = w.failures - Sum(w.failure, stale)
        /\ v = [slot |-> v.slot, index |-> v.index, success |-> v.success,
                failure |-> v.failure, total |-> v.total, failures |-> v.failures]
    <3> HIDE DEF good1, bad1, stale
    <3> QED
      BY <1>1, <2>2, <2>3 DEF Windows
  <2> HIDE DEF v, good1, bad1, current, last, stale
  <2>5. v \in Windows
    <3>1. w.total \in Int /\ w.failures \in Int
      BY <1>1 DEF Windows
    <3> QED
      BY <1>1, <1>4, <1>5, <2>4, <3>1 DEF Windows
  <2>6. /\ v.failures = Sum(bad1, Buckets)
        /\ v.total = Sum(good1, Buckets) + Sum(bad1, Buckets)
    BY <1>4, <1>6, <2>4
  <2> QED
    BY <2>4, <2>5, <2>6 DEF v, good1, bad1, current, last
<1> QED
  BY <1>8, <1>9

LEMMA AdvanceCounts ==
    ASSUME NEW w, NEW g \in Tallies, NEW b \in Tallies, Counts(w, g, b),
           NEW n \in Int, w.slot <= Slot(n), EndsAt(g, w.slot), EndsAt(b, w.slot)
    PROVE  Counts(Advance(w, n), g, b) /\ Advance(w, n).slot = Slot(n)
<1> DEFINE v == Advance(w, n)
           last == w.slot
           current == Slot(n)
<1>1. last \in Int /\ current \in Int /\ BucketCount \in Nat \ {0}
  BY BucketFacts DEF Counts, Shaped, Windows
<1>2. CASE last = current
  BY <1>1, <1>2 DEF Advance
<1>3. CASE last < current
  <2>1. ASSUME NEW ring, NEW h, EndsAt(h, last), Mirrors(ring, BucketCount, h, last)
        PROVE  Mirrors(Moved(ring, last, current), BucketCount, h, current)
    <3>1. \A s \in last + 1 .. current : h[s] = 0
      BY <1>1, <2>1 DEF EndsAt
    <3> HIDE DEF last, current
    <3> QED
      BY <1>1, <1>3, <2>1, <3>1, RingMoves DEF Moved
  <2>2. /\ Mirrors(w.success, BucketCount, g, last)
        /\ Mirrors(w.failure, BucketCount, b, last)
    BY DEF Counts
  <2>3. /\ Mirrors(Moved(w.success, last, current), BucketCount, g, current)
        /\ Mirrors(Moved(w.failure, last, current), BucketCount, b, current)
    BY <2>1, <2>2
  <2> QED
    BY <1>3, <2>3, AdvanceMoves DEF Counts, Shaped
<1> QED
  BY <1>1, <1>2, <1>3

LEMMA RecordCounts ==
    ASSUME NEW w, NEW g \in Tallies, NEW b \in Tallies, Counts(w, g, b),
           NEW n \in Int, w.slot <= Slot(n), EndsAt(g, w.slot), EndsAt(b, w.slot)
    PROVE  /\ Counts(Record(w, n, TRUE), g, Bump(b, Slot(n)))
           /\ Counts(Record(w, n, FALSE), Bump(g, Slot(n)), b)
           /\ Record(w, n, TRUE).slot = Slot(n)
           /\ Record(w, n, FALSE).slot = Slot(n)
<1> DEFINE v == Advance(w, n)
           at == Slot(n) % BucketCount
           Sum(f) == SumFunctionOnSet(f, Buckets)
<1>1. Counts(v, g, b) /\ v.slot = Slot(n)
  BY AdvanceCounts
<1>2. /\ Slot(n) \in Int /\ BucketCount \in Nat \ {0} /\ at \in Buckets /\ v.index = at
      /\ v \in Windows /\ v.success \in [Buckets -> Int] /\ v.failure \in [Buckets -> Int]
      /\ v.total \in Int /\ v.failures \in Int
  BY <1>1, BucketFacts, RemainderRange DEF Counts, Shaped, Windows, Buckets
<1> DEFINE bumped(ring) == [ring EXCEPT ![at] = @ + 1]
<1>3. ASSUME NEW ring \in [Buckets -> Int], NEW h \in Tallies,
             Mirrors(ring, BucketCount, h, Slot(n))
      PROVE  /\ bumped(ring) \in [Buckets -> Int]
             /\ Mirrors(bumped(ring), BucketCount, Bump(h, Slot(n)), Slot(n))
             /\ Sum(bumped(ring)) = Sum(ring) + 1
             /\ Sum(ring) \in Int
  <2>1. bumped(ring) \in [Buckets -> Int]
    BY <1>2
  <2>2. Mirrors(bumped(ring), BucketCount, Bump(h, Slot(n)), Slot(n))
    <3> DEFINE last == Slot(n)
               g1 == Bump(h, last)
    <3>1. g1[last] = h[last] + 1
      BY <1>2 DEF Bump, Tallies
    <3>2. \A s \in last - BucketCount + 1 .. last - 1 : g1[s] = h[s]
      BY <1>2 DEF Bump, Tallies
    <3>3. DOMAIN ring = 0 .. BucketCount - 1
      BY DEF Buckets
    <3>4. Mirrors(ring, BucketCount, h, last)
      BY <1>3
    <3> HIDE DEF g1, last
    <3>5. Mirrors([ring EXCEPT ![last % BucketCount] = @ + 1], BucketCount, g1, last)
      BY <1>2, <3>1, <3>2, <3>3, <3>4, RingCounts DEF last
    <3> QED
      BY <3>5 DEF g1, last
  <2>3. Ints(ring, Buckets) /\ IsFiniteSet(Buckets)
    BY BucketFacts DEF Ints
  <2>4. bumped(ring)[at] = ring[at] + 1 /\ \A i \in Buckets \ {at} : bumped(ring)[i] = ring[i]
    BY <1>2
  <2> HIDE DEF bumped, at
  <2>5. Sum(bumped(ring)) = Sum(ring) + 1
    BY <1>2, <2>3, <2>4, SumOfChanged
  <2> QED
    BY <2>1, <2>2, <2>3, <2>5, SumIsInt
<1>4. /\ Mirrors(v.success, BucketCount, g, Slot(n))
      /\ Mirrors(v.failure, BucketCount, b, Slot(n))
      /\ v.failures = Sum(v.failure) /\ v.total = Sum(v.success) + Sum(v.failure)
  BY <1>1 DEF Counts
<1>5. Counts(Record(w, n, TRUE), g, Bump(b, Slot(n))) /\ Record(w, n, TRUE).slot = Slot(n)
  <2> DEFINE r == Record(w, n, TRUE)
  <2>1. r = [v EXCEPT !.failure = bumped(v.failure), !.failures = v.failures + 1,
                      !.total = v.total + 1]
    <3> HIDE DEF v, at
    <3> QED
      BY <1>2, Zenon DEF Record, v
  <2>2. /\ r.slot = v.slot /\ r.index = v.index /\ r.success = v.success
        /\ r.failure = bumped(v.failure)
        /\ r.failures = v.failures + 1 /\ r.total = v.total + 1
        /\ r = [slot |-> r.slot, index |-> r.index, success |-> r.success,
                failure |-> r.failure, total |-> r.total, failures |-> r.failures]
    <3> HIDE DEF v, bumped, r
    <3> QED
      BY <1>2, <2>1 DEF Windows
  <2> HIDE DEF r, v, at, bumped
  <2>3. bumped(v.failure) \in [Buckets -> Int]
    BY <1>2, <1>3, <1>4
  <2>4. r \in Windows
    BY <1>1, <1>2, <2>2, <2>3 DEF Windows
  <2>5. /\ Mirrors(r.failure, BucketCount, Bump(b, Slot(n)), Slot(n))
        /\ Sum(r.failure) = Sum(v.failure) + 1
    BY <1>2, <1>3, <1>4, <2>2
  <2>6. Sum(v.success) \in Int /\ Sum(v.failure) \in Int
    BY <1>2, <1>3, <1>4
  <2>7. r.failures = Sum(r.failure) /\ r.total = Sum(r.success) + Sum(r.failure)
    BY <1>4, <2>2, <2>5, <2>6
  <2>8. r.index = r.slot % BucketCount /\ r.slot = Slot(n)
    BY <1>1, <1>2, <2>2 DEF at
  <2> QED
    BY <1>4, <2>2, <2>4, <2>5, <2>7, <2>8 DEF Counts, Shaped, r
<1>6. Counts(Record(w, n, FALSE), Bump(g, Slot(n)), b) /\ Record(w, n, FALSE).slot = Slot(n)
  <2> DEFINE r == Record(w, n, FALSE)
  <2>1. r = [v EXCEPT !.success = bumped(v.success), !.total = v.total + 1]
    <3> HIDE DEF v, at
    <3> QED
      BY <1>2, Zenon DEF Record, v
  <2>2. /\ r.slot = v.slot /\ r.index = v.index /\ r.failure = v.failure
        /\ r.success = bumped(v.success)
        /\ r.failures = v.failures /\ r.total = v.total + 1
        /\ r = [slot |-> r.slot, index |-> r.index, success |-> r.success,
                failure |-> r.failure, total |-> r.total, failures |-> r.failures]
    <3> HIDE DEF v, bumped, r
    <3> QED
      BY <1>2, <2>1 DEF Windows
  <2> HIDE DEF r, v, at, bumped
  <2>3. bumped(v.success) \in [Buckets -> Int]
    BY <1>2, <1>3, <1>4
  <2>4. r \in Windows
    BY <1>1, <1>2, <2>2, <2>3 DEF Windows
  <2>5. /\ Mirrors(r.success, BucketCount, Bump(g, Slot(n)), Slot(n))
        /\ Sum(r.success) = Sum(v.success) + 1
    BY <1>2, <1>3, <1>4, <2>2
  <2>6. Sum(v.success) \in Int /\ Sum(v.failure) \in Int
    BY <1>2, <1>3, <1>4
  <2>7. r.failures = Sum(r.failure) /\ r.total = Sum(r.success) + Sum(r.failure)
    BY <1>4, <2>2, <2>5, <2>6
  <2>8. r.index = r.slot % BucketCount /\ r.slot = Slot(n)
    BY <1>1, <1>2, <2>2 DEF at
  <2> QED
    BY <1>4, <2>2, <2>4, <2>5, <2>7, <2>8 DEF Counts, Shaped, r
<1> QED
  BY <1>5, <1>6

LEMMA ClearCounts ==
    /\ Counts(NewWindow, Blank, Blank) /\ Blank \in Tallies
    /\ \A w : Shaped(w) => Counts(Clear(w), Blank, Blank) /\ Clear(w).slot = w.slot
<1>1. NoOutcomes \in [Buckets -> Int] /\ SumFunctionOnSet(NoOutcomes, Buckets) = 0
  <2>1. \A i \in Buckets : NoOutcomes[i] = 0
    BY DEF NoOutcomes
  <2> QED
    BY <2>1, BucketFacts, SumOfZeros DEF NoOutcomes
<1>2. ASSUME NEW last \in Int PROVE Mirrors(NoOutcomes, BucketCount, Blank, last)
  <2> SUFFICES ASSUME NEW s \in last - BucketCount + 1 .. last
               PROVE  NoOutcomes[s % BucketCount] = Blank[s]
    BY DEF Mirrors
  <2>1. s \in Int
    BY BucketFacts
  <2>2. (s % BucketCount) \in Buckets
    BY <2>1, BucketFacts, RemainderRange
  <2> QED
    BY <2>1, <2>2, Zenon DEF NoOutcomes, Blank
<1>3. Counts(NewWindow, Blank, Blank)
  <2>1. NeverAdvanced \in Int /\ 0 \in Buckets /\ 0 = NeverAdvanced % BucketCount
    BY BucketFacts DEF NeverAdvanced
  <2>2. NewWindow \in Windows
    BY <1>1, <2>1 DEF NewWindow, Windows
  <2> QED
    BY <1>1, <1>2, <2>1, <2>2 DEF Counts, Shaped, NewWindow
<1>4. ASSUME NEW w, Shaped(w)
      PROVE  Counts(Clear(w), Blank, Blank) /\ Clear(w).slot = w.slot
  <2> DEFINE v == Clear(w)
  <2>1. w \in Windows /\ w.slot \in Int /\ w.index \in Buckets /\ w.index = w.slot % BucketCount
    BY <1>4 DEF Shaped, Windows
  <2>2. /\ v.slot = w.slot /\ v.index = w.index
        /\ v.success = NoOutcomes /\ v.failure = NoOutcomes /\ v.total = 0 /\ v.failures = 0
        /\ v = [slot |-> v.slot, index |-> v.index, success |-> v.success,
                failure |-> v.failure, total |-> v.total, failures |-> v.failures]
    <3>1. /\ w \in Windows
          /\ v = [w EXCEPT !.success = NoOutcomes, !.failure = NoOutcomes,
                          !.total = 0, !.failures = 0]
      BY <2>1 DEF Clear
    <3> HIDE DEF v
    <3> QED
      BY <3>1 DEF Windows
  <2> HIDE DEF v
  <2>3. v \in Windows
    BY <1>1, <2>1, <2>2 DEF Windows
  <2> QED
    BY <1>1, <1>2, <2>1, <2>2, <2>3 DEF Counts, Shaped, v
<1>5. Blank \in Tallies
  BY DEF Blank, Tallies
<1> QED
  BY <1>3, <1>4, <1>5

(* A window that was just read has the sums over its slots.                *)
LEMMA CountsTotals ==
    ASSUME NEW w, NEW g \in Tallies, NEW b \in Tallies, Counts(w, g, b)
    PROVE  LET slots == w.slot - BucketCount + 1 .. w.slot
           IN /\ w.failures = SumFunctionOnSet(b, slots)
              /\ w.total = SumFunctionOnSet(g, slots) + SumFunctionOnSet(b, slots)
<1>1. w.slot \in Int /\ BucketCount \in Nat \ {0}
  BY BucketFacts DEF Counts, Shaped, Windows
<1>2. ASSUME NEW ring, NEW h \in Tallies, Mirrors(ring, BucketCount, h, w.slot)
      PROVE  SumFunctionOnSet(ring, Buckets) =
               SumFunctionOnSet(h, w.slot - BucketCount + 1 .. w.slot)
  <2>1. \A s \in w.slot - BucketCount + 1 .. w.slot : h[s] \in Int
    BY <1>1 DEF Tallies
  <2> QED
    BY <1>1, <1>2, <2>1, RingTotal DEF Buckets
<1> QED
  BY <1>2 DEF Counts

-----------------------------------------------------------------------------
(* Histories and their tallies.                                            *)

LEMMA TimeFacts ==
    /\ BucketCount \in Nat \ {0} /\ BucketWidth \in Nat \ {0}
    /\ Times \subseteq Nat /\ IsFiniteSet(Times)
    /\ \A t \in Times : Slot(t) \in Nat
    /\ Buckets = 0 .. BucketCount - 1 /\ IsFiniteSet(Buckets)
<1>1. BucketCount \in Nat \ {0} /\ BucketWidth \in Nat \ {0} /\ MaxNow \in Nat
  BY BucketAssumption, UseAssumption
<1>2. Times \subseteq Nat /\ \A t \in Times : Slot(t) \in Nat
  BY <1>1 DEF Times, Slot
<1>3. IsFiniteSet(Times) /\ IsFiniteSet(Buckets)
  BY <1>1, FS_Interval DEF Times, Buckets
<1> QED
  BY <1>1, <1>2, <1>3 DEF Buckets

LEMMA HistoryFacts ==
    ASSUME NEW h \in Histories, NEW T \in SUBSET Times
    PROVE  IsFiniteSet(T) /\ Ints(h, T) /\ Nats(h, T) /\ SumFunctionOnSet(h, T) \in Nat
<1>1. IsFiniteSet(T)
  BY TimeFacts, FS_Subset
<1>2. Ints(h, T) /\ Nats(h, T)
  BY DEF Histories, Ints, Nats
<1> QED
  BY <1>1, <1>2, SumIsNat

LEMMA BySlotFacts ==
    ASSUME NEW h \in Histories
    PROVE  /\ BySlot(h) \in Tallies
           /\ \A s \in Int : /\ BySlot(h)[s] = SumFunctionOnSet(h, InSlots({s}))
                             /\ BySlot(h)[s] \in Nat
<1>1. \A s \in Int : InSlots({s}) \in SUBSET Times
  BY DEF InSlots
<1>2. \A s \in Int : SumFunctionOnSet(h, InSlots({s})) \in Nat
  BY <1>1, HistoryFacts
<1> QED
  BY <1>2 DEF BySlot, Tallies

LEMMA BySlotValues ==
    ASSUME NEW h \in Histories, NEW S \in SUBSET Int
    PROVE  Ints(BySlot(h), S)
<1>1. ASSUME NEW s \in S PROVE BySlot(h)[s] \in Int
  <2>1. s \in Int
    OBVIOUS
  <2>2. BySlot(h)[s] \in Nat
    BY <2>1, BySlotFacts
  <2> QED
    BY <2>2
<1> QED
  BY <1>1 DEF Ints

(* Slot by slot or reading by reading, the sum is the same.                *)
LEMMA SumBySlots ==
    ASSUME NEW h \in Histories, NEW S \in SUBSET Int, IsFiniteSet(S)
    PROVE  SumFunctionOnSet(BySlot(h), S) = SumFunctionOnSet(h, InSlots(S))
<1> DEFINE F == {T \in SUBSET S :
                   SumFunctionOnSet(BySlot(h), T) = SumFunctionOnSet(h, InSlots(T))}
<1>1. {} \in F
  <2>1. InSlots({}) = {}
    BY DEF InSlots
  <2> QED
    BY <2>1, SumOfNothing
<1>2. ASSUME NEW T \in SUBSET S, NEW s \in S, T \in F PROVE T \cup {s} \in F
  <2>1. CASE s \in T
    <3>1. T \cup {s} = T
      BY <2>1
    <3> QED
      BY <1>2, <3>1
  <2>2. CASE s \notin T
    <3>0. IsFiniteSet(T)
      BY FS_Subset
    <3>1. IsFiniteSet(T) /\ Ints(BySlot(h), T \cup {s})
      BY <3>0, BySlotValues
    <3>2. SumFunctionOnSet(BySlot(h), T \cup {s}) = BySlot(h)[s] + SumFunctionOnSet(BySlot(h), T)
      BY <2>2, <3>1, SumOfMore
    <3>3. /\ InSlots(T) \in SUBSET Times /\ InSlots({s}) \in SUBSET Times
          /\ InSlots(T \cup {s}) = InSlots(T) \cup InSlots({s})
          /\ InSlots(T) \cap InSlots({s}) = {}
      BY <2>2 DEF InSlots
    <3>4. InSlots(T \cup {s}) \in SUBSET Times
      BY <3>3
    <3>5. SumFunctionOnSet(h, InSlots(T \cup {s})) =
            SumFunctionOnSet(h, InSlots(T)) + SumFunctionOnSet(h, InSlots({s}))
      <4> DEFINE A == InSlots(T)
                 B == InSlots({s})
      <4>1. /\ IsFiniteSet(A) /\ IsFiniteSet(B) /\ Ints(h, A \cup B)
            /\ InSlots(T \cup {s}) = A \cup B /\ A \cap B = {}
        BY <3>3, <3>4, HistoryFacts
      <4> HIDE DEF A, B
      <4>2. SumFunctionOnSet(h, A \cup B) = SumFunctionOnSet(h, A) + SumFunctionOnSet(h, B)
        BY <4>1, SumOfUnion
      <4> QED
        BY <4>1, <4>2 DEF A, B
    <3>6. SumFunctionOnSet(h, InSlots(T)) \in Nat /\ BySlot(h)[s] \in Nat
          /\ BySlot(h)[s] = SumFunctionOnSet(h, InSlots({s}))
      BY <3>3, HistoryFacts, BySlotFacts
    <3>7. SumFunctionOnSet(BySlot(h), T) = SumFunctionOnSet(h, InSlots(T))
      BY <1>2
    <3> QED
      BY <3>2, <3>5, <3>6, <3>7
  <2> QED
    BY <2>1, <2>2
<1> HIDE DEF F
<1>3. S \in F
  BY <1>1, <1>2, SetsByElements
<1> QED
  BY <1>3 DEF F

(* A history with one more at reading n has one more in the slot of n.     *)
Add(h, n) == [h EXCEPT ![n] = @ + 1]

LEMMA AddedBySlot ==
    ASSUME NEW h \in Histories, NEW n \in Times
    PROVE  /\ Add(h, n) \in Histories
           /\ BySlot(Add(h, n)) = Bump(BySlot(h), Slot(n))
<1>1. Add(h, n) \in Histories
  BY DEF Add, Histories
<1>2. Slot(n) \in Int
  BY TimeFacts
<1>3. BySlot(Add(h, n))[Slot(n)] = BySlot(h)[Slot(n)] + 1
  <2> DEFINE T == InSlots({Slot(n)})
             g == Add(h, n)
  <2>1. T \in SUBSET Times /\ n \in T
    BY DEF InSlots
  <2>2. g[n] = h[n] + 1 /\ \A t \in T \ {n} : g[t] = h[t]
    BY <2>1 DEF Add, Histories
  <2> HIDE DEF T, g
  <2>3. SumFunctionOnSet(g, T) = SumFunctionOnSet(h, T) + 1
    BY <2>1, <2>2, HistoryFacts, SumOfChanged
  <2> QED
    BY <1>1, <1>2, <2>3, BySlotFacts DEF T, g
<1>4. ASSUME NEW s \in Int, s # Slot(n) PROVE BySlot(Add(h, n))[s] = BySlot(h)[s]
  <2> DEFINE T == InSlots({s})
             g == Add(h, n)
  <2>1. T \in SUBSET Times /\ n \notin T
    BY <1>4 DEF InSlots
  <2>2. \A t \in T : h[t] = g[t]
    BY <2>1 DEF Add, Histories
  <2> HIDE DEF T, g
  <2>3. SumFunctionOnSet(h, T) = SumFunctionOnSet(g, T)
    BY <2>1, <2>2, HistoryFacts, SumsEqual
  <2> QED
    BY <1>1, <2>3, BySlotFacts DEF T, g
<1>5. BySlot(Add(h, n)) \in Tallies /\ BySlot(h) \in Tallies
  BY <1>1, BySlotFacts
<1>6. BySlot(Add(h, n)) = Bump(BySlot(h), Slot(n))
  BY <1>2, <1>3, <1>4, <1>5 DEF Bump, Tallies
<1> QED
  BY <1>1, <1>6

LEMMA EmptyHistory ==
    /\ Nothing \in Histories
    /\ BySlot(Nothing) = Blank
<1>1. Nothing \in Histories /\ \A t \in Times : Nothing[t] = 0
  BY DEF Nothing, Histories
<1>2. ASSUME NEW s \in Int PROVE BySlot(Nothing)[s] = 0
  <2>1. InSlots({s}) \in SUBSET Times
    BY DEF InSlots
  <2>2. SumFunctionOnSet(Nothing, InSlots({s})) = 0
    BY <1>1, <2>1, HistoryFacts, SumOfZeros
  <2> QED
    BY <1>1, <2>2, BySlotFacts
<1>3. BySlot(Nothing) \in Tallies
  BY <1>1, BySlotFacts
<1> QED
  BY <1>1, <1>2, <1>3 DEF Blank, Tallies

-----------------------------------------------------------------------------
(* The invariant holds.                                                    *)

LEMMA InitIInv == Init => IInv
<1> SUFFICES ASSUME Init PROVE IInv
  OBVIOUS
<1>1. window = NewWindow /\ now \in Times /\ good = Nothing /\ bad = Nothing
  BY DEF Init
<1>2. window.slot <= Slot(now)
  BY <1>1, TimeFacts DEF NewWindow, NeverAdvanced
<1>3. Unwritten(good, window.slot) /\ Unwritten(bad, window.slot)
  BY <1>1 DEF Unwritten, Nothing
<1> QED
  BY <1>1, <1>2, <1>3, EmptyHistory, ClearCounts DEF IInv

(* What the lemmas about the window need.                                  *)
LEMMA TalliesFit ==
    ASSUME IInv
    PROVE  /\ BySlot(good) \in Tallies /\ BySlot(bad) \in Tallies
           /\ Counts(window, BySlot(good), BySlot(bad))
           /\ now \in Int /\ window.slot <= Slot(now)
           /\ EndsAt(BySlot(good), window.slot) /\ EndsAt(BySlot(bad), window.slot)
<1>1. /\ now \in Int /\ window.slot \in Int
      /\ \A t \in Times : Slot(t) \in Int
  BY TimeFacts DEF IInv, Counts, Shaped, Windows
<1>2. ASSUME NEW h \in Histories, Unwritten(h, window.slot)
      PROVE  BySlot(h) \in Tallies /\ EndsAt(BySlot(h), window.slot)
  <2>1. ASSUME NEW s \in Int, s > window.slot PROVE BySlot(h)[s] = 0
    <3>1. InSlots({s}) \in SUBSET Times /\ \A t \in InSlots({s}) : h[t] = 0
      BY <1>1, <1>2, <2>1 DEF InSlots, Unwritten
    <3>2. IsFiniteSet(InSlots({s})) /\ BySlot(h)[s] = SumFunctionOnSet(h, InSlots({s}))
      BY <3>1, HistoryFacts, BySlotFacts
    <3> QED
      BY <3>1, <3>2, SumOfZeros
  <2> QED
    BY <2>1, BySlotFacts DEF EndsAt
<1> QED
  BY <1>1, <1>2 DEF IInv

LEMMA AddUnwritten ==
    ASSUME now \in Times, NEW h \in Histories, NEW last \in Int, last <= Slot(now),
           Unwritten(h, last)
    PROVE  Unwritten(h, Slot(now)) /\ Unwritten(Add(h, now), Slot(now))
<1>1. ASSUME NEW t \in Times, t > now \/ Slot(t) > Slot(now) PROVE h[t] = 0 /\ t # now
  <2>1. t \in Int /\ Slot(t) \in Int /\ now \in Int /\ Slot(now) \in Int
    BY TimeFacts
  <2>2. t > now \/ Slot(t) > last
    BY <1>1, <2>1
  <2> QED
    BY <1>1, <2>1, <2>2 DEF Unwritten
<1>2. \A t \in Times : t # now => Add(h, now)[t] = h[t]
  BY DEF Add, Histories
<1> QED
  BY <1>1, <1>2 DEF Unwritten

LEMMA StepIInv == IInv /\ [Next]_vars => IInv'
<1> SUFFICES ASSUME IInv, [Next]_vars PROVE IInv'
  OBVIOUS
<1>1. /\ now \in Times /\ good \in Histories /\ bad \in Histories
      /\ window.slot \in Int /\ Slot(now) \in Int /\ window.slot <= Slot(now)
      /\ Counts(window, BySlot(good), BySlot(bad))
  BY TimeFacts DEF IInv, Counts, Shaped, Windows
<1>2. /\ Unwritten(good, Slot(now)) /\ Unwritten(Add(good, now), Slot(now))
      /\ Unwritten(bad, Slot(now)) /\ Unwritten(Add(bad, now), Slot(now))
  BY <1>1, AddUnwritten DEF IInv
<1>3. CASE UNCHANGED vars
  BY <1>3 DEF IInv, Unwritten, vars
<1>4. CASE RecordOutcome(TRUE)
  <2>1. /\ window' = Record(window, now, TRUE)
        /\ bad' = Add(bad, now) /\ good' = good /\ now' = now
    BY <1>4 DEF RecordOutcome, Add
  <2>2. Counts(window', BySlot(good'), BySlot(bad')) /\ window'.slot = Slot(now)
    <3> DEFINE w1 == Record(window, now, TRUE)
    <3>1. Counts(w1, BySlot(good), Bump(BySlot(bad), Slot(now))) /\ w1.slot = Slot(now)
      BY TalliesFit, RecordCounts
    <3>2. BySlot(Add(bad, now)) = Bump(BySlot(bad), Slot(now))
      BY <1>1, AddedBySlot
    <3> QED
      BY <2>1, <3>1, <3>2, Zenon
  <2>3. Unwritten(good, window.slot)' /\ Unwritten(bad, window.slot)'
    BY <1>2, <2>1, <2>2 DEF Unwritten
  <2>4. good' \in Histories /\ bad' \in Histories
    BY <1>1, <2>1, AddedBySlot
  <2>5. now' \in Times /\ window'.slot <= Slot(now')
    <3>1. Slot(now') = Slot(now)
      BY <2>1, Zenon
    <3>2. window'.slot = Slot(now') /\ Slot(now') \in Int
      BY <1>1, <2>2, <3>1, Zenon
    <3>3. now' \in Times
      BY <1>1, <2>1
    <3> QED
      BY <3>2, <3>3
  <2> QED
    BY <2>2, <2>3, <2>4, <2>5 DEF IInv
<1>5. CASE RecordOutcome(FALSE)
  <2>1. /\ window' = Record(window, now, FALSE)
        /\ good' = Add(good, now) /\ bad' = bad /\ now' = now
    BY <1>5 DEF RecordOutcome, Add
  <2>2. Counts(window', BySlot(good'), BySlot(bad')) /\ window'.slot = Slot(now)
    <3> DEFINE w1 == Record(window, now, FALSE)
    <3>1. Counts(w1, Bump(BySlot(good), Slot(now)), BySlot(bad)) /\ w1.slot = Slot(now)
      BY TalliesFit, RecordCounts
    <3>2. BySlot(Add(good, now)) = Bump(BySlot(good), Slot(now))
      BY <1>1, AddedBySlot
    <3> QED
      BY <2>1, <3>1, <3>2, Zenon
  <2>3. Unwritten(good, window.slot)' /\ Unwritten(bad, window.slot)'
    BY <1>2, <2>1, <2>2 DEF Unwritten
  <2>4. good' \in Histories /\ bad' \in Histories
    BY <1>1, <2>1, AddedBySlot
  <2>5. now' \in Times /\ window'.slot <= Slot(now')
    <3>1. Slot(now') = Slot(now)
      BY <2>1, Zenon
    <3>2. window'.slot = Slot(now') /\ Slot(now') \in Int
      BY <1>1, <2>2, <3>1, Zenon
    <3>3. now' \in Times
      BY <1>1, <2>1
    <3> QED
      BY <3>2, <3>3
  <2> QED
    BY <2>2, <2>3, <2>4, <2>5 DEF IInv
<1>6. CASE ReadTotals
  <2>1. window' = Advance(window, now) /\ UNCHANGED <<now, good, bad>>
    BY <1>6 DEF ReadTotals
  <2>2. Counts(window', BySlot(good'), BySlot(bad')) /\ window'.slot = Slot(now)
    BY <1>1, <2>1, TalliesFit, AdvanceCounts
  <2>3. Unwritten(good, window.slot)' /\ Unwritten(bad, window.slot)'
    BY <1>1, <2>1, <2>2, TimeFacts DEF IInv, Unwritten
  <2> QED
    BY <1>1, <2>1, <2>2, <2>3 DEF IInv
<1>7. CASE Recover
  <2>1. window' = Clear(window) /\ good' = Nothing /\ bad' = Nothing /\ now' = now
    BY <1>7 DEF Recover
  <2>2. Counts(window', BySlot(good'), BySlot(bad')) /\ window'.slot = window.slot
    BY <1>1, <2>1, EmptyHistory, ClearCounts DEF Counts
  <2>3. Unwritten(good, window.slot)' /\ Unwritten(bad, window.slot)'
    BY <2>1 DEF Unwritten, Nothing
  <2> QED
    BY <1>1, <2>1, <2>2, <2>3, EmptyHistory DEF IInv
<1>8. CASE Wait
  <2>1. now' \in now + 1 .. MaxNow /\ UNCHANGED <<window, good, bad>>
    BY <1>8 DEF Wait
  <2>2. now' \in Times /\ now <= now' /\ now \in Int /\ now' \in Int
    BY <1>1, <2>1, UseAssumption DEF Times
  <2>3. Slot(now) <= Slot(now')
    BY <2>2, TimeFacts, QuotientsOrdered DEF Slot
  <2>4. Slot(now') \in Int /\ window'.slot <= Slot(now')
    BY <1>1, <2>1, <2>2, <2>3, TimeFacts
  <2>5. Unwritten(good, window.slot)' /\ Unwritten(bad, window.slot)'
    BY <1>1, <2>1, <2>2, TimeFacts DEF IInv, Unwritten
  <2> QED
    BY <1>1, <2>1, <2>2, <2>4, <2>5 DEF IInv
<1> QED
  BY <1>3, <1>4, <1>5, <1>6, <1>7, <1>8 DEF Next

(* What a window holds is the tallies of its history, at all times.        *)
THEOREM WindowInv == Spec => []IInv
BY InitIInv, StepIInv, PTL DEF Spec

-----------------------------------------------------------------------------
(* A reading is the sums over the slots the window still has.              *)
LEMMA ReadingSums ==
    ASSUME IInv
    PROVE  /\ Totals(window, now).failures = SumFunctionOnSet(bad, LiveTimes)
           /\ Totals(window, now).total =
                SumFunctionOnSet(good, LiveTimes) + SumFunctionOnSet(bad, LiveTimes)
<1> DEFINE v == Advance(window, now)
           I == Slot(now) - BucketCount + 1 .. Slot(now)
<1>1. /\ now \in Times /\ good \in Histories /\ bad \in Histories
      /\ Slot(now) \in Int /\ BucketCount \in Nat \ {0}
  BY TimeFacts DEF IInv
<1>2. Counts(v, BySlot(good), BySlot(bad)) /\ v.slot = Slot(now)
  BY TalliesFit, AdvanceCounts
<1>3. I \in SUBSET Int /\ IsFiniteSet(I) /\ InSlots(I) = LiveTimes
  BY <1>1, FS_Interval DEF InSlots, LiveTimes
<1> HIDE DEF v
<1>4. /\ v.failures = SumFunctionOnSet(BySlot(bad), I)
      /\ v.total = SumFunctionOnSet(BySlot(good), I) + SumFunctionOnSet(BySlot(bad), I)
  BY <1>2, TalliesFit, CountsTotals
<1>5. /\ SumFunctionOnSet(BySlot(good), I) = SumFunctionOnSet(good, LiveTimes)
      /\ SumFunctionOnSet(BySlot(bad), I) = SumFunctionOnSet(bad, LiveTimes)
  <2> HIDE DEF I
  <2> QED
    BY <1>1, <1>3, SumBySlots
<1> QED
  BY <1>4, <1>5 DEF Totals, v

(* The totals that the breaker reads are exactly the outcomes of the last  *)
(* BucketCount slots, however many buckets there are and however the calls *)
(* on the window are spread over time: no bucket is cleared too early, too *)
(* late or twice when the ring wraps around.                               *)
THEOREM WindowTotalsExact == Spec => []TotalsMatchHistory
<1>1. IInv => TotalsMatchHistory
  BY ReadingSums DEF TotalsMatchHistory
<1> QED
  BY <1>1, WindowInv, PTL

(* By the clock: the slots of the window lie within its span, and hold     *)
(* everything that is at least a bucket younger than it.                   *)
LEMMA LiveByAge ==
    ASSUME IInv, NEW t \in Times
    PROVE  /\ t \in LiveTimes => now - t < BucketCount * BucketWidth
           /\ now - t >= 0 /\ now - t <= BucketCount * BucketWidth - BucketWidth => t \in LiveTimes
<1> DEFINE p == Slot(t)
           q == Slot(now)
           a == t % BucketWidth
           c == now % BucketWidth
           W == BucketWidth
           n == BucketCount
<1>1. /\ now \in Int /\ t \in Int /\ W \in Nat \ {0} /\ n \in Nat \ {0}
      /\ p \in Int /\ q \in Int
  BY TimeFacts DEF IInv
<1>2. t = W * p + a /\ now = W * q + c /\ a \in 0 .. W - 1 /\ c \in 0 .. W - 1
  BY <1>1, QuotientRemainder, RemainderRange DEF Slot
<1>3. t \in LiveTimes <=> p \in q - n + 1 .. q
  BY DEF LiveTimes
<1> HIDE DEF p, q, a, c, W, n
<1>4. now - t = W * (q - p) + (c - a) /\ W * n - W = W * (n - 1)
  BY <1>1, <1>2
<1>5. ASSUME p \in q - n + 1 .. q PROVE now - t < W * n
  <2>1. q - p <= n - 1 /\ q - p \in Int
    BY <1>1, <1>5
  <2>2. W * (q - p) <= W * (n - 1)
    <3> DEFINE k == n - 1 - (q - p)
    <3>1. k \in Nat
      BY <1>1, <2>1
    <3>2. W * k >= 0
      BY <1>1, <3>1
    <3>3. W * k = W * (n - 1) - W * (q - p)
      BY <1>1
    <3>4. W * k \in Int /\ W * (n - 1) \in Int /\ W * (q - p) \in Int
      BY <1>1
    <3> QED
      BY <3>2, <3>3, <3>4
  <2>3. W * (n - 1) = W * n - W /\ c - a <= W - 1 /\ W * n \in Int /\ W * (q - p) \in Int
    BY <1>1, <1>2
  <2> QED
    BY <1>1, <1>2, <1>4, <2>2, <2>3
<1>6. ASSUME now - t >= 0, now - t <= W * n - W PROVE p \in q - n + 1 .. q
  <2>1. p <= q
    BY <1>1, <1>6, QuotientsOrdered DEF p, q, W, Slot
  <2>2. W * (q - p - (n - 1)) < W
    <3>1. W * (q - p - (n - 1)) = W * (q - p) - W * (n - 1)
      BY <1>1
    <3>2. W * (q - p) \in Int /\ W * (n - 1) \in Int /\ a - c < W
      BY <1>1, <1>2
    <3> QED
      BY <1>1, <1>2, <1>4, <1>6, <3>1, <3>2
  <2>3. q - p - (n - 1) <= 0
    BY <1>1, <2>2, SmallMultiple
  <2> QED
    BY <1>1, <2>1, <2>3
<1> QED
  BY <1>1, <1>3, <1>5, <1>6 DEF W, n

(* In clock time, for every reading: a failure a whole window old never    *)
(* counts, and one at least a bucket younger always does.                  *)
THEOREM WindowForgetsByAge == Spec => []ForgetsByAge
<1>1. ASSUME IInv PROVE ForgetsByAge
  <2> DEFINE span == BucketCount * BucketWidth
             notExpired == {t \in Times : now - t >= 0 /\ now - t < span}
             recent == {t \in Times : now - t >= 0 /\ now - t <= span - BucketWidth}
             past == {t \in LiveTimes : t <= now}
             later == LiveTimes \ past
             Sum(S) == SumFunctionOnSet(bad, S)
  <2>1. bad \in Histories /\ now \in Int /\ \A t \in Times : t \in Int
    BY <1>1, TimeFacts DEF IInv
  <2>2. LiveTimes \in SUBSET Times /\ notExpired \in SUBSET Times
    BY DEF LiveTimes
  <2>3. past \in SUBSET notExpired
    BY <1>1, <2>1, <2>2, LiveByAge
  <2>4. recent \in SUBSET LiveTimes
    BY <1>1, LiveByAge
  <2>5. past \in SUBSET Times /\ later \in SUBSET Times
        /\ past \cup later = LiveTimes /\ past \cap later = {}
    BY <2>2
  <2>6. \A t \in later : bad[t] = 0
    <3>1. \A t \in later : t \in Times /\ t > now
      BY <2>1, <2>2
    <3> HIDE DEF later
    <3> QED
      BY <1>1, <3>1 DEF IInv, Unwritten
  <2> HIDE DEF past, later, notExpired, recent
  <2>7. Sum(LiveTimes) = Sum(past) + Sum(later) /\ Sum(later) = 0 /\ Sum(past) \in Nat
    BY <2>1, <2>2, <2>5, <2>6, HistoryFacts, SumOfUnion, SumOfZeros
  <2>8. Sum(past) <= Sum(notExpired) /\ Sum(recent) <= Sum(LiveTimes)
    BY <2>1, <2>2, <2>3, <2>4, HistoryFacts, SumOfFewer
  <2>9. Totals(window, now).failures = Sum(LiveTimes)
    BY <1>1, ReadingSums
  <2>10. Sum(notExpired) \in Nat /\ Sum(recent) \in Nat
    BY <2>1, <2>2, <2>4, HistoryFacts
  <2>11. Totals(window, now).failures <= Sum(notExpired) /\ Totals(window, now).failures >= Sum(recent)
    BY <2>7, <2>8, <2>9, <2>10
  <2> QED
    BY <2>11 DEF ForgetsByAge, notExpired, recent
<1> QED
  BY <1>1, WindowInv, PTL

================================================================================
