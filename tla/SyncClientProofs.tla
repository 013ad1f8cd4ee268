--------------------------- MODULE SyncClientProofs ---------------------------
(***************************************************************************)
(* Theorems about what the threads of a sync client share, for every       *)
(* number of threads, models, circuit keys, permits and cache entries.     *)
(***************************************************************************)
EXTENDS SyncClient, FiniteSetTheorems, SequenceTheorems, TLAPS

-----------------------------------------------------------------------------
(* Where the threads are.                                                  *)
Decoding == {"looking", "building", "clearing", "storing", "answered"}

PlaceInv ==
    /\ pc \in [Threads -> Places]
    /\ model \in [Threads -> Models \cup {NoModel}]
    /\ responded \in [Threads -> BOOLEAN]
    /\ \A t \in Threads : pc[t] \in Decoding => t \in Typed
    /\ \A t \in Typed : pc[t] # "idle" => model[t] \in Models

LEMMA MoveEffect ==
    ASSUME pc \in [Threads -> Places], NEW t \in Threads, NEW place, Goto(t, place)
    PROVE  /\ \A u \in Threads : pc'[u] = IF u = t THEN place ELSE pc[u]
           /\ \A p : At(p)' = IF p = place THEN At(p) \cup {t} ELSE At(p) \ {t}
<1>1. \A u \in Threads : pc'[u] = IF u = t THEN place ELSE pc[u]
  BY DEF Goto
<1>2. \A p : At(p)' = IF p = place THEN At(p) \cup {t} ELSE At(p) \ {t}
  BY <1>1 DEF At
<1> QED
  BY <1>1, <1>2

LEMMA AtFinite ==
    ASSUME NEW p
    PROVE  IsFiniteSet(At(p)) /\ Cardinality(At(p)) \in Nat
<1>1. At(p) \in SUBSET Threads
  BY DEF At
<1> QED
  BY <1>1, ThreadsAssumption, FS_Subset, FS_CardinalityType

-----------------------------------------------------------------------------
(* The circuits.                                                           *)
KeyedInv ==
    /\ KeyedType
    /\ OneCircuitPerKey
    /\ \A t \in Threads : pc[t] = "creating" \/ circuit[t] # NoCircuit => key[t] \in Keys

(* A thread forgets its circuit with its call.                             *)
LEMMA ForgetKeepsCircuits ==
    ASSUME PlaceInv, KeyedInv, NEW t \in Threads, NEW place, place # "creating",
           Goto(t, place), Forget(t)
    PROVE  KeyedInv'
<1>1. \A u \in Threads : pc'[u] = IF u = t THEN place ELSE pc[u]
  BY MoveEffect DEF PlaceInv
<1>2. states' = states /\ created' = created
  BY DEF Forget
<1>3. \A u \in Threads : circuit'[u] = IF u = t THEN NoCircuit ELSE circuit[u]
  BY DEF Forget, KeyedInv, KeyedType
<1>4. \A u \in Threads : u # t => key'[u] = key[u]
  BY DEF Forget, KeyedInv, KeyedType
<1>5. KeyedType'
  BY <1>2 DEF Forget, KeyedInv, KeyedType, NoCircuit
<1>6. OneCircuitPerKey'
  BY <1>2, <1>3, <1>4 DEF KeyedInv, OneCircuitPerKey
<1>7. \A u \in Threads : pc'[u] = "creating" \/ circuit'[u] # NoCircuit => key'[u] \in Keys
  BY <1>1, <1>3, <1>4 DEF KeyedInv
<1> QED
  BY <1>5, <1>6, <1>7 DEF KeyedInv

(* A thread goes elsewhere with the circuit it has.                        *)
LEMMA MoveKeepsCircuits ==
    ASSUME PlaceInv, KeyedInv, NEW t \in Threads, NEW place, place # "creating",
           Goto(t, place) \/ UNCHANGED pc, UNCHANGED keyedVars
    PROVE  KeyedInv'
<1>1. \A u \in Threads : pc'[u] = "creating" => pc[u] = "creating"
  BY MoveEffect DEF PlaceInv
<1> QED
  BY <1>1 DEF KeyedInv, KeyedType, OneCircuitPerKey, keyedVars

LEMMA GetKeepsCircuits ==
    ASSUME PlaceInv, KeyedInv, NEW t \in Threads, NEW k \in Keys, Get(t, k)
    PROVE  KeyedInv'
<1>1. \A u \in Threads : u # t => pc'[u] = pc[u]
  BY DEF Get, Goto, PlaceInv
<1>2. states' = states /\ created' = created
  BY DEF Get
<1>3. \A u \in Threads : /\ circuit'[u] = IF u = t THEN states[k] ELSE circuit[u]
                         /\ key'[u] = IF u = t THEN k ELSE key[u]
  BY DEF Get, KeyedInv, KeyedType
<1>4. KeyedType'
  BY <1>2 DEF Get, KeyedInv, KeyedType
<1>5. OneCircuitPerKey'
  BY <1>2, <1>3 DEF KeyedInv, OneCircuitPerKey
<1>6. \A u \in Threads : pc'[u] = "creating" \/ circuit'[u] # NoCircuit => key'[u] \in Keys
  BY <1>1, <1>3 DEF KeyedInv
<1> QED
  BY <1>4, <1>5, <1>6 DEF KeyedInv

(* The second look under the lock is what makes this hold: a circuit is    *)
(* only created for a key that nobody has one for.                         *)
LEMMA CreateKeepsCircuits ==
    ASSUME PlaceInv, KeyedInv, NEW t \in Threads, Create(t)
    PROVE  KeyedInv'
<1>1. key[t] \in Keys /\ key' = key /\ created \in Nat
  BY DEF Create, KeyedInv, KeyedType
<1>2. \A u \in Threads : pc'[u] = IF u = t THEN "acquiring" ELSE pc[u]
  BY MoveEffect DEF PlaceInv, Create
<1>3. CASE ~Missing(key[t])
  <2>1. states' = states /\ created' = created
    BY <1>3 DEF Create
  <2>2. \A u \in Threads : circuit'[u] = IF u = t THEN states[key[t]] ELSE circuit[u]
    BY <2>1 DEF Create, KeyedInv, KeyedType
  <2>3. KeyedType'
    BY <1>1, <2>1 DEF Create, KeyedInv, KeyedType
  <2>4. OneCircuitPerKey'
    BY <1>1, <2>1, <2>2 DEF KeyedInv, OneCircuitPerKey
  <2>5. \A u \in Threads : pc'[u] = "creating" \/ circuit'[u] # NoCircuit => key'[u] \in Keys
    BY <1>1, <1>2, <2>2 DEF KeyedInv
  <2> QED
    BY <2>3, <2>4, <2>5 DEF KeyedInv
<1>4. CASE Missing(key[t])
  <2> DEFINE new == created + 1
  <2>1. created' = new /\ states' = [states EXCEPT ![key[t]] = new] /\ new \in Nat
    BY <1>1, <1>4 DEF Create
  <2>2. \A k \in Keys : states'[k] = IF k = key[t] THEN new ELSE states[k]
    BY <2>1 DEF KeyedInv, KeyedType
  <2>3. \A u \in Threads : circuit'[u] = IF u = t THEN new ELSE circuit[u]
    BY <1>1, <2>2 DEF Create, KeyedInv, KeyedType
  <2>4. new # NoCircuit /\ \A k \in Keys : states[k] # new
    BY <1>1 DEF KeyedInv, KeyedType, NoCircuit
  <2>5. states[key[t]] = NoCircuit
    BY <1>4 DEF Missing
  <2>6. KeyedType'
    <3>1. 0 .. created \subseteq 0 .. new /\ new \in 0 .. new
      BY <1>1
    <3>2. states' \in [Keys -> 0 .. created']
      BY <2>1, <3>1 DEF KeyedInv, KeyedType
    <3>3. circuit' = [circuit EXCEPT ![t] = new]
      BY <1>1, <2>2 DEF Create
    <3>4. circuit' \in [Threads -> 0 .. created']
      BY <2>1, <3>1, <3>3 DEF KeyedInv, KeyedType
    <3> QED
      BY <1>1, <2>1, <3>2, <3>4 DEF KeyedInv, KeyedType
  <2> HIDE DEF new
  <2>7. OneCircuitPerKey'
    BY <1>1, <2>2, <2>3, <2>4, <2>5 DEF KeyedInv, OneCircuitPerKey
  <2>8. \A u \in Threads : pc'[u] = "creating" \/ circuit'[u] # NoCircuit => key'[u] \in Keys
    BY <1>1, <1>2, <2>3 DEF KeyedInv
  <2> QED
    BY <2>6, <2>7, <2>8 DEF KeyedInv
<1> QED
  BY <1>3, <1>4

-----------------------------------------------------------------------------
(* The decoder cache.                                                      *)
CacheInv ==
    /\ CacheType
    /\ IsFiniteSet(DOMAIN cache)
    /\ \A k \in DOMAIN cache : cache[k] \in Models /\ KeyOf[cache[k]] = k
    /\ RightAdapter
    /\ CacheBounded

LEMMA CacheTypeDef ==
    CacheType <=> /\ DOMAIN cache \subseteq {KeyOf[m] : m \in Models}
                  /\ cache \in [DOMAIN cache -> Models]
                  /\ model \in [Threads -> Models \cup {NoModel}]
                  /\ adapter \in [Threads -> Models \cup {NoModel}]
<1>1. ASSUME NEW K \in SUBSET {KeyOf[m] : m \in Models}, cache \in [K -> Models]
      PROVE  DOMAIN cache \subseteq {KeyOf[m] : m \in Models} /\ cache \in [DOMAIN cache -> Models]
  BY <1>1
<1> QED
  BY <1>1 DEF CacheType

LEMMA TypedFinite ==
    IsFiniteSet(Typed) /\ Cardinality(Typed) \in Nat
BY ClientAssumption, ThreadsAssumption, FS_Subset, FS_CardinalityType

LEMMA StoringTyped ==
    ASSUME PlaceInv
    PROVE  Cardinality(At("storing")) <= Cardinality(Typed)
<1>1. At("storing") \in SUBSET Typed
  BY DEF PlaceInv, At, Decoding
<1> QED
  BY <1>1, TypedFinite, FS_Subset

(* A thread goes anywhere but to the end of a lookup or into an insert,    *)
(* which changes nothing for the others.                                   *)
LEMMA MoveKeepsCache ==
    ASSUME PlaceInv, CacheInv, NEW t \in Threads, NEW place, place \notin {"storing", "answered"},
           Goto(t, place),
           cache' = cache,
           /\ model' \in [Threads -> Models \cup {NoModel}]
           /\ adapter' \in [Threads -> Models \cup {NoModel}],
           \A u \in Threads : u # t => model'[u] = model[u] /\ adapter'[u] = adapter[u]
    PROVE  CacheInv'
<1>1. CacheType'
  BY CacheTypeDef DEF CacheInv, CacheType
<1>2. At("storing")' \in SUBSET At("storing")
  BY MoveEffect DEF PlaceInv, At
<1>3. /\ Cardinality(At("storing")') <= Cardinality(At("storing"))
      /\ Cardinality(At("storing")') \in Nat
  BY <1>2, AtFinite, FS_Subset, FS_CardinalityType
<1>4. Cardinality(DOMAIN cache) \in Nat
  BY FS_CardinalityType DEF CacheInv
<1>5. CacheBounded'
  BY <1>3, <1>4, AtFinite, TypedFinite, CacheAssumption DEF CacheInv, CacheBounded
<1>6. RightAdapter'
  <2>1. \A u \in At("answered")' : u # t /\ u \in At("answered") /\ u \in Threads
    BY MoveEffect DEF PlaceInv, At
  <2> QED
    BY <2>1 DEF CacheInv, RightAdapter
<1> QED
  BY <1>1, <1>5, <1>6 DEF CacheInv

(* What is found under a model's key and may be used is the model's own.   *)
LEMMA CachedIsOwn ==
    ASSUME CacheInv, NEW m \in Models, Cached(m)
    PROVE  cache[KeyOf[m]] = m
BY CacheAssumption DEF CacheInv, Cached

(* A lookup ends with an adapter of the thread's own model.                *)
LEMMA GiveKeepsCache ==
    ASSUME PlaceInv, CacheInv, NEW t \in Threads, model[t] \in Models, Give(t, model[t]),
           UNCHANGED <<cache, model>>
    PROVE  CacheInv'
<1>1. adapter' = [adapter EXCEPT ![t] = model[t]] /\ Goto(t, "answered")
  BY DEF Give
<1>2. CacheType'
  BY <1>1, CacheTypeDef DEF CacheInv, CacheType
<1>3. At("storing")' \in SUBSET At("storing")
  BY <1>1, MoveEffect DEF PlaceInv
<1>4. /\ Cardinality(At("storing")') <= Cardinality(At("storing"))
      /\ Cardinality(At("storing")') \in Nat
  BY <1>3, AtFinite, FS_Subset, FS_CardinalityType
<1>5. Cardinality(DOMAIN cache) \in Nat
  BY FS_CardinalityType DEF CacheInv
<1>6. CacheBounded'
  BY <1>4, <1>5, AtFinite, TypedFinite, CacheAssumption DEF CacheInv, CacheBounded
<1>7. \A u \in Threads : adapter'[u] = IF u = t THEN model[t] ELSE adapter[u]
  BY <1>1, CacheTypeDef DEF CacheInv
<1>8. At("answered")' = At("answered") \cup {t} /\ At("answered") \subseteq Threads
  BY <1>1, MoveEffect DEF PlaceInv, At
<1>9. RightAdapter'
  BY <1>7, <1>8 DEF CacheInv, RightAdapter
<1> QED
  BY <1>2, <1>6, <1>9 DEF CacheInv

(* A thread starts to store only while there is room, and as many others   *)
(* may as have found room before.                                          *)
LEMMA BuildKeepsCache ==
    ASSUME PlaceInv, PlaceInv', CacheInv, NEW t \in Threads, Build(t)
    PROVE  CacheInv'
<1>1. UNCHANGED <<cache, model, adapter>>
  BY DEF Build, cacheVars
<1>2. CASE Full
  BY <1>1, <1>2, MoveKeepsCache, CacheTypeDef DEF Build, CacheInv
<1>3. CASE ~Full
  <2>1. Goto(t, "storing")
    BY <1>3 DEF Build
  <2>2. CacheType'
    BY <1>1 DEF CacheInv, CacheType
  <2>3. Cardinality(DOMAIN cache) \in Nat /\ Cardinality(DOMAIN cache) < MaxEntries
    BY <1>3, FS_CardinalityType, CacheAssumption DEF CacheInv, Full
  <2>4. At("storing")' \in SUBSET Typed
    BY DEF PlaceInv, At, Decoding
  <2>5. Cardinality(At("storing")') <= Cardinality(Typed) /\ Cardinality(At("storing")') \in Nat
    BY <2>4, TypedFinite, FS_Subset, FS_CardinalityType
  <2>6. CacheBounded'
    BY <1>1, <2>3, <2>5, TypedFinite, CacheAssumption DEF CacheBounded
  <2>7. At("answered")' \subseteq At("answered")
    BY <2>1, MoveEffect DEF PlaceInv
  <2>8. RightAdapter'
    BY <1>1, <2>7 DEF CacheInv, RightAdapter
  <2> QED
    BY <1>1, <2>2, <2>6, <2>8 DEF CacheInv
<1> QED
  BY <1>2, <1>3

LEMMA ClearKeepsCache ==
    ASSUME PlaceInv, PlaceInv', CacheInv, NEW t \in Threads, Clear(t)
    PROVE  CacheInv'
<1>1. cache' = <<>> /\ UNCHANGED <<model, adapter>> /\ Goto(t, "storing")
  BY DEF Clear
<1>2. DOMAIN cache' = {} /\ cache' \in [DOMAIN cache' -> Models]
  BY <1>1
<1>3. CacheType'
  BY <1>1, <1>2, CacheTypeDef DEF CacheInv, CacheType
<1>4. IsFiniteSet(DOMAIN cache') /\ Cardinality(DOMAIN cache') = 0
  BY <1>2, FS_EmptySet
<1>5. At("storing")' \in SUBSET Typed
  BY DEF PlaceInv, At, Decoding
<1>6. Cardinality(At("storing")') <= Cardinality(Typed) /\ Cardinality(At("storing")') \in Nat
  BY <1>5, TypedFinite, FS_Subset, FS_CardinalityType
<1>7. CacheBounded'
  BY <1>4, <1>6, TypedFinite, CacheAssumption DEF CacheBounded
<1>8. At("answered")' \subseteq At("answered")
  BY <1>1, MoveEffect DEF PlaceInv
<1>9. RightAdapter'
  BY <1>1, <1>8 DEF CacheInv, RightAdapter
<1> QED
  BY <1>2, <1>3, <1>4, <1>7, <1>9 DEF CacheInv

LEMMA StoreKeepsCache ==
    ASSUME PlaceInv, CacheInv, NEW t \in Threads, model[t] \in Models, Store(t)
    PROVE  CacheInv'
<1> DEFINE k == KeyOf[model[t]]
<1>1. /\ pc[t] = "storing"
      /\ cache' = [j \in DOMAIN cache \cup {k} |-> IF j = k THEN model[t] ELSE cache[j]]
      /\ adapter' = [adapter EXCEPT ![t] = model[t]] /\ Goto(t, "answered")
      /\ model' = model
  BY DEF Store, Give
<1>2. /\ DOMAIN cache' = DOMAIN cache \cup {k}
      /\ \A j \in DOMAIN cache' : cache'[j] = IF j = k THEN model[t] ELSE cache[j]
  BY <1>1
<1>3. \A j \in DOMAIN cache' : cache'[j] \in Models /\ KeyOf[cache'[j]] = j
  BY <1>2 DEF CacheInv
<1>4. DOMAIN cache' \subseteq {KeyOf[m] : m \in Models}
  BY <1>2, CacheTypeDef DEF CacheInv
<1>5. cache' \in [DOMAIN cache' -> Models]
  BY <1>1, <1>2, <1>3
<1>6. model' \in [Threads -> Models \cup {NoModel}] /\ adapter' \in [Threads -> Models \cup {NoModel}]
  BY <1>1, CacheTypeDef DEF CacheInv
<1>7. CacheType'
  BY <1>4, <1>5, <1>6 DEF CacheType
<1>8. /\ IsFiniteSet(DOMAIN cache')
      /\ Cardinality(DOMAIN cache') <= Cardinality(DOMAIN cache) + 1
      /\ Cardinality(DOMAIN cache') \in Nat /\ Cardinality(DOMAIN cache) \in Nat
  <2> DEFINE old == DOMAIN cache
  <2>1. IsFiniteSet(old)
    BY DEF CacheInv
  <2> HIDE DEF old, k
  <2>2. /\ IsFiniteSet(old \cup {k})
        /\ Cardinality(old \cup {k}) = IF k \in old THEN Cardinality(old) ELSE Cardinality(old) + 1
    BY <2>1, FS_AddElement
  <2>3. Cardinality(old \cup {k}) \in Nat /\ Cardinality(old) \in Nat
    BY <2>1, <2>2, FS_CardinalityType
  <2>4. Cardinality(old \cup {k}) <= Cardinality(old) + 1
    BY <2>2, <2>3
  <2> QED
    BY <1>2, <2>2, <2>3, <2>4 DEF old
<1>9. At("storing")' = At("storing") \ {t} /\ t \in At("storing")
  BY <1>1, MoveEffect DEF PlaceInv, At
<1>10. Cardinality(At("storing")') = Cardinality(At("storing")) - 1
  BY <1>9, AtFinite, FS_RemoveElement
<1>11. CacheBounded'
  BY <1>8, <1>10, AtFinite, TypedFinite, CacheAssumption DEF CacheInv, CacheBounded
<1>12. \A u \in Threads : adapter'[u] = IF u = t THEN model[t] ELSE adapter[u]
  BY <1>1, CacheTypeDef DEF CacheInv
<1>13. At("answered")' = At("answered") \cup {t} /\ At("answered") \subseteq Threads
  BY <1>1, MoveEffect DEF PlaceInv, At
<1>14. RightAdapter'
  BY <1>1, <1>12, <1>13 DEF CacheInv, RightAdapter
<1> QED
  BY <1>3, <1>7, <1>8, <1>11, <1>14 DEF CacheInv

LEMMA CacheStepKeepsCache ==
    ASSUME PlaceInv, PlaceInv', CacheInv, NEW t \in Threads, CacheStep(t)
    PROVE  CacheInv'
<1>1. model[t] \in Models
  BY DEF PlaceInv, Decoding, CacheStep, LookUp, CompareRaises, BuildUncached, Build, Clear, Store
<1>2. CASE LookUp(t)
  <2>1. CASE Cached(model[t])
    <3>1. Give(t, model[t]) /\ UNCHANGED <<cache, model>>
      BY <1>1, <1>2, <2>1, CachedIsOwn DEF LookUp
    <3> QED
      BY <1>1, <3>1, GiveKeepsCache
  <2>2. CASE ~Cached(model[t])
    <3>1. Goto(t, "building") /\ UNCHANGED <<cache, model, adapter>>
      BY <1>2, <2>2 DEF LookUp
    <3> QED
      BY <3>1, MoveKeepsCache, CacheTypeDef DEF CacheInv
  <2> QED
    BY <2>1, <2>2
<1>3. CASE CompareRaises(t) \/ BuildUncached(t)
  BY <1>1, <1>3, GiveKeepsCache DEF CompareRaises, BuildUncached
<1> QED
  BY <1>1, <1>2, <1>3, BuildKeepsCache, ClearKeepsCache, StoreKeepsCache DEF CacheStep

-----------------------------------------------------------------------------
(* The bulkhead.                                                           *)
BulkheadInv == BulkheadType /\ PermitsInUse

LEMMA ListFacts ==
    ASSUME BulkheadInv
    PROVE  /\ listed \in Seq(Threads) /\ IsInjective(listed) /\ Len(listed) \in Nat
           /\ DOMAIN listed = 1 .. Len(listed)
           /\ Listed \subseteq At("waiting")
           /\ listed = <<>> <=> Listed = {}
<1>1. listed \in Seq(Threads) /\ IsInjective(listed) /\ Listed \subseteq At("waiting")
  BY DEF BulkheadInv, BulkheadType
<1>2. Len(listed) \in Nat /\ DOMAIN listed = 1 .. Len(listed)
  BY <1>1, LenProperties
<1>3. listed = <<>> <=> Len(listed) = 0
  BY <1>1, EmptySeq
<1>4. DOMAIN listed = {} <=> Len(listed) = 0
  BY <1>2
<1>5. Listed = {} <=> DOMAIN listed = {}
  BY DEF Listed
<1> QED
  BY <1>1, <1>2, <1>3, <1>4, <1>5

(* A thread is taken off the list: the others stay as they are.            *)
LEMMA RemoveOne ==
    ASSUME NEW s \in Seq(Threads), IsInjective(s), NEW k \in DOMAIN s
    PROVE  /\ RemoveAt(s, k) \in Seq(Threads)
           /\ IsInjective(RemoveAt(s, k))
           /\ {RemoveAt(s, k)[i] : i \in DOMAIN RemoveAt(s, k)} = {s[i] : i \in DOMAIN s} \ {s[k]}
<1> DEFINE n == Len(s)
           old(j) == IF j < k THEN j ELSE j + 1
           a == SubSeq(s, 1, k - 1)
           b == SubSeq(s, k + 1, n)
           r == RemoveAt(s, k)
<1>1. n \in Nat /\ DOMAIN s = 1 .. n /\ k \in 1 .. n /\ \A i \in 1 .. n : s[i] \in Threads
  BY LenProperties, ElementOfSeq
<1>2. r = a \o b
  BY DEF RemoveAt
<1>3. a \in Seq(Threads) /\ Len(a) = k - 1 /\ \A i \in 1 .. k - 1 : a[i] = s[i]
  <2>1. 1 \in Int /\ k - 1 \in Int /\ \A i \in 1 .. k - 1 : s[i] \in Threads
    BY <1>1
  <2>2. /\ a \in Seq(Threads)
        /\ Len(a) = IF 1 <= k - 1 THEN (k - 1) - 1 + 1 ELSE 0
        /\ \A i \in 1 .. (k - 1) - 1 + 1 : a[i] = s[1 + i - 1]
    BY <2>1, SubSeqProperties
  <2> HIDE DEF a
  <2> QED
    BY <1>1, <2>2
<1>4. b \in Seq(Threads) /\ Len(b) = n - k /\ \A i \in 1 .. n - k : b[i] = s[k + i]
  <2> DEFINE m == k + 1
  <2>1. m \in Int /\ n \in Int /\ \A i \in m .. n : s[i] \in Threads
    BY <1>1
  <2> HIDE DEF m, n
  <2>2. /\ SubSeq(s, m, n) \in Seq(Threads)
        /\ Len(SubSeq(s, m, n)) = IF m <= n THEN n - m + 1 ELSE 0
        /\ \A i \in 1 .. n - m + 1 : SubSeq(s, m, n)[i] = s[m + i - 1]
    BY <2>1, SubSeqProperties
  <2>3. Len(SubSeq(s, m, n)) = n - k /\ n - m + 1 = n - k
    BY <1>1, <2>2 DEF m
  <2>4. \A i \in 1 .. n - k : m + i - 1 = k + i
    BY <1>1 DEF m
  <2> QED
    BY <2>2, <2>3, <2>4 DEF m
<1> HIDE DEF a, b, n
<1>5. /\ r \in Seq(Threads) /\ Len(r) = n - 1
      /\ \A j \in 1 .. n - 1 : r[j] = s[old(j)]
  <2>1. /\ a \o b \in Seq(Threads)
        /\ Len(a \o b) = Len(a) + Len(b)
        /\ \A i \in 1 .. Len(a) + Len(b) :
             (a \o b)[i] = IF i <= Len(a) THEN a[i] ELSE b[i - Len(a)]
    BY <1>3, <1>4, ConcatProperties
  <2>2. ASSUME NEW j \in 1 .. n - 1 PROVE (a \o b)[j] = s[old(j)]
    <3>1. CASE j < k
      BY <1>1, <1>3, <1>4, <2>1, <3>1
    <3>2. CASE ~(j < k)
      <4>1. j - (k - 1) \in 1 .. n - k /\ k + (j - (k - 1)) = j + 1
        BY <1>1, <3>2
      <4>2. (a \o b)[j] = b[j - (k - 1)]
        BY <1>1, <1>3, <1>4, <2>1, <3>2
      <4> QED
        BY <1>4, <3>2, <4>1, <4>2
    <3> QED
      BY <3>1, <3>2
  <2>3. Len(a) + Len(b) = n - 1
    BY <1>1, <1>3, <1>4
  <2> QED
    BY <1>2, <2>1, <2>2, <2>3
<1>6. DOMAIN r = 1 .. n - 1
  BY <1>5, LenProperties
<1>7. \A i, j \in 1 .. n : s[i] = s[j] => i = j
  BY <1>1 DEF IsInjective
<1>8. \A j \in 1 .. n - 1 : old(j) \in (1 .. n) \ {k}
  BY <1>1
<1>9. \A i, j \in 1 .. n - 1 : old(i) = old(j) => i = j
  BY <1>1
<1>10. \A i \in (1 .. n) \ {k} : \E j \in 1 .. n - 1 : old(j) = i
  <2> TAKE i \in (1 .. n) \ {k}
  <2>1. CASE i < k
    BY <1>1, <2>1
  <2>2. CASE i > k
    <3>1. i - 1 \in 1 .. n - 1 /\ old(i - 1) = i
      BY <1>1, <2>2
    <3> QED
      BY <3>1
  <2> QED
    BY <1>1, <2>1, <2>2
<1> HIDE DEF old, r
<1>11. IsInjective(r)
  BY <1>5, <1>6, <1>7, <1>8, <1>9 DEF IsInjective
<1>12. ASSUME NEW u \in {r[i] : i \in DOMAIN r} PROVE u \in {s[i] : i \in DOMAIN s} \ {s[k]}
  <2>1. PICK j \in 1 .. n - 1 : u = r[j]
    BY <1>6
  <2> QED
    BY <1>1, <1>5, <1>7, <1>8, <2>1
<1>13. ASSUME NEW u \in {s[i] : i \in DOMAIN s} \ {s[k]} PROVE u \in {r[i] : i \in DOMAIN r}
  <2>1. PICK i \in (1 .. n) \ {k} : u = s[i]
    BY <1>1
  <2>2. PICK j \in 1 .. n - 1 : old(j) = i
    BY <1>10
  <2> QED
    BY <1>5, <1>6, <2>1, <2>2
<1>14. {r[i] : i \in DOMAIN r} = {s[i] : i \in DOMAIN s} \ {s[k]}
  BY <1>12, <1>13
<1> QED
  BY <1>5, <1>11, <1>14 DEF r

LEMMA UnlistedEffect ==
    ASSUME BulkheadInv, NEW t, listed' = Unlisted(t)
    PROVE  listed' \in Seq(Threads) /\ IsInjective(listed') /\ Listed' = Listed \ {t}
<1>1. CASE t \in Listed
  <2> DEFINE k == CHOOSE i \in DOMAIN listed : listed[i] = t
  <2>1. k \in DOMAIN listed /\ listed[k] = t
    BY <1>1 DEF Listed
  <2> HIDE DEF k
  <2>2. listed' = RemoveAt(listed, k)
    BY <1>1 DEF Unlisted, k
  <2> QED
    BY <2>1, <2>2, ListFacts, RemoveOne DEF Listed
<1>2. CASE t \notin Listed
  BY <1>2, ListFacts DEF Unlisted, Listed
<1> QED
  BY <1>1, <1>2

LEMMA ListMore ==
    ASSUME BulkheadInv, NEW t \in Threads \ Listed, listed' = Append(listed, t)
    PROVE  listed' \in Seq(Threads) /\ IsInjective(listed') /\ Listed' = Listed \cup {t}
<1> DEFINE n == Len(listed)
<1>1. n \in Nat /\ DOMAIN listed = 1 .. n
  BY ListFacts
<1>2. /\ listed' \in Seq(Threads)
      /\ Len(listed') = n + 1
      /\ \A i \in 1 .. n : listed'[i] = listed[i]
      /\ listed'[n + 1] = t
  BY ListFacts, AppendProperties
<1>3. DOMAIN listed' = 1 .. n + 1
  BY <1>2, LenProperties
<1> HIDE DEF n
<1>4. \A i \in 1 .. n : listed[i] # t
  BY <1>1 DEF Listed
<1>5. \A i \in 1 .. n + 1 : i \in 1 .. n \/ i = n + 1
  BY <1>1
<1>6. 1 .. n \subseteq 1 .. n + 1 /\ n + 1 \in 1 .. n + 1
  BY <1>1
<1>7. IsInjective(listed')
  BY <1>1, <1>2, <1>3, <1>4, <1>5, ListFacts DEF IsInjective
<1>8. Listed' = Listed \cup {t}
  BY <1>1, <1>2, <1>3, <1>5, <1>6 DEF Listed
<1> QED
  BY <1>2, <1>7, <1>8

LEMMA NotifyEffect ==
    ASSUME BulkheadInv, listed # <<>>, listed' = Tail(listed)
    PROVE  /\ listed' \in Seq(Threads) /\ IsInjective(listed')
           /\ \E h \in Listed : Listed' = Listed \ {h}
<1> DEFINE n == Len(listed)
<1>1. /\ n \in Nat /\ n > 0 /\ DOMAIN listed = 1 .. n
      /\ listed \in Seq(Threads) /\ IsInjective(listed)
  BY ListFacts, EmptySeq
<1>2. /\ listed' \in Seq(Threads) /\ Len(listed') = n - 1
      /\ \A i \in 1 .. n - 1 : listed'[i] = listed[i + 1]
  BY <1>1, HeadTailProperties
<1>3. DOMAIN listed' = 1 .. n - 1
  BY <1>2, LenProperties
<1> HIDE DEF n
<1>4. \A i, j \in 1 .. n : listed[i] = listed[j] => i = j
  BY <1>1 DEF IsInjective
<1>5. \A i \in 1 .. n - 1 : i + 1 \in 1 .. n /\ i + 1 # 1
  BY <1>1
<1>6. 1 \in 1 .. n /\ \A i \in (1 .. n) \ {1} : i - 1 \in 1 .. n - 1 /\ (i - 1) + 1 = i
  BY <1>1
<1>7. IsInjective(listed')
  <2>1. \A i, j \in 1 .. n - 1 : i + 1 = j + 1 => i = j
    BY <1>1
  <2> QED
    BY <1>2, <1>3, <1>4, <1>5, <2>1 DEF IsInjective
<1>8. ASSUME NEW u \in Listed' PROVE u \in Listed \ {listed[1]}
  <2>1. PICK i \in 1 .. n - 1 : u = listed'[i]
    BY <1>3 DEF Listed
  <2> QED
    BY <1>1, <1>2, <1>4, <1>5, <1>6, <2>1 DEF Listed
<1>9. ASSUME NEW u \in Listed \ {listed[1]} PROVE u \in Listed'
  <2>1. PICK i \in (1 .. n) \ {1} : u = listed[i]
    BY <1>1 DEF Listed
  <2> QED
    BY <1>2, <1>3, <1>6, <2>1 DEF Listed
<1>10. listed[1] \in Listed
  BY <1>1, <1>6 DEF Listed
<1> QED
  BY <1>2, <1>7, <1>8, <1>9, <1>10

(* A thread that is not at the bulkhead goes elsewhere.                    *)
LEMMA ElsewhereKeepsBulkhead ==
    ASSUME PlaceInv, BulkheadInv, NEW t \in Threads, NEW place,
           pc[t] \notin {"waiting", "calling"}, place \notin {"waiting", "calling"},
           Goto(t, place), UNCHANGED bulkheadVars
    PROVE  BulkheadInv'
<1>1. /\ UNCHANGED <<value, listed, late>>
      /\ Listed' = Listed
  BY DEF bulkheadVars, Listed
<1>2. At("waiting")' = At("waiting") /\ At("calling")' = At("calling")
  BY MoveEffect DEF PlaceInv, At
<1>3. \A u \in Threads : pc'[u] = "waiting" <=> pc[u] = "waiting"
  BY MoveEffect DEF PlaceInv
<1>4. BulkheadType'
  BY <1>1, <1>2, <1>3 DEF BulkheadInv, BulkheadType
<1>5. PermitsInUse'
  BY <1>1, <1>2 DEF BulkheadInv, PermitsInUse
<1> QED
  BY <1>4, <1>5 DEF BulkheadInv

(* What the threads with a permit and those under way to one amount to.    *)
LEMMA BulkheadNumbers ==
    ASSUME BulkheadInv
    PROVE  /\ value \in Nat /\ MaxConcurrent \in Nat
           /\ Cardinality(At("calling")) \in Nat
           /\ value + Cardinality(At("calling")) = MaxConcurrent
           /\ IsFiniteSet(At("waiting") \ Listed)
           /\ Cardinality(At("waiting") \ Listed) \in Nat
           /\ Listed # {} => value <= Cardinality(At("waiting") \ Listed)
<1>1. IsFiniteSet(At("waiting") \ Listed) /\ Cardinality(At("waiting") \ Listed) \in Nat
  BY AtFinite, FS_Difference, FS_CardinalityType
<1>2. value \in Nat /\ MaxConcurrent \in Nat
  BY BulkheadAssumption DEF BulkheadInv, BulkheadType
<1> QED
  BY <1>1, <1>2, AtFinite, ListFacts DEF BulkheadInv, PermitsInUse

(* The permit of a thread that begins to call, or has called.              *)
LEMMA OneMoreCalls ==
    ASSUME PlaceInv, NEW t \in Threads, pc[t] # "calling", Goto(t, "calling")
    PROVE  Cardinality(At("calling")') = Cardinality(At("calling")) + 1
<1>1. At("calling")' = At("calling") \cup {t} /\ t \notin At("calling")
  BY MoveEffect DEF PlaceInv, At
<1> QED
  BY <1>1, AtFinite, FS_AddElement

LEMMA OneLessCalls ==
    ASSUME PlaceInv, NEW t \in Threads, NEW place, pc[t] = "calling", place # "calling",
           Goto(t, place)
    PROVE  Cardinality(At("calling")') = Cardinality(At("calling")) - 1
<1>1. At("calling")' = At("calling") \ {t} /\ t \in At("calling")
  BY MoveEffect DEF PlaceInv, At
<1> QED
  BY <1>1, AtFinite, FS_RemoveElement

LEMMA AcquireKeepsBulkhead ==
    ASSUME PlaceInv, BulkheadInv, NEW t \in Threads, Acquire(t)
    PROVE  BulkheadInv'
<1>1. /\ pc[t] = "acquiring" /\ value > 0 /\ value' = value - 1
      /\ Goto(t, "calling") /\ listed' = listed /\ late' = late /\ Listed' = Listed
  BY DEF Acquire, Listed
<1>2. At("waiting")' = At("waiting")
  BY <1>1, MoveEffect DEF PlaceInv, At
<1>3. \A u \in Threads : pc'[u] = "waiting" <=> pc[u] = "waiting"
  BY <1>1, MoveEffect DEF PlaceInv
<1>4. Cardinality(At("calling")') = Cardinality(At("calling")) + 1
  BY <1>1, OneMoreCalls
<1>5. value' \in 0 .. MaxConcurrent /\ value' + Cardinality(At("calling")') = MaxConcurrent
  BY <1>1, <1>4, BulkheadNumbers
<1>6. listed' # <<>> => value' <= Cardinality(At("waiting")' \ Listed')
  <2> DEFINE under == At("waiting") \ Listed
  <2>1. At("waiting")' \ Listed' = under
    BY <1>1, <1>2
  <2>2. /\ Cardinality(under) \in Nat /\ value \in Nat
        /\ Listed # {} => value <= Cardinality(under)
    BY BulkheadNumbers
  <2>3. listed' # <<>> => Listed # {}
    BY <1>1, ListFacts
  <2> HIDE DEF under
  <2>4. listed' # <<>> => value' <= Cardinality(under)
    BY <1>1, <2>2, <2>3
  <2> QED
    BY <2>1, <2>4, Zenon
<1>7. BulkheadType'
  BY <1>1, <1>2, <1>3, <1>5 DEF BulkheadInv, BulkheadType
<1> QED
  BY <1>5, <1>6, <1>7 DEF BulkheadInv, PermitsInUse

LEMMA WaitKeepsBulkhead ==
    ASSUME PlaceInv, BulkheadInv, NEW t \in Threads, Wait(t)
    PROVE  BulkheadInv'
<1>1. /\ pc[t] = "acquiring" /\ value = 0 /\ value' = 0 /\ late' = late
      /\ Goto(t, "waiting") /\ listed' = Append(listed, t)
  BY DEF Wait
<1>2. t \notin Listed
  BY <1>1, ListFacts DEF At
<1>3. listed' \in Seq(Threads) /\ IsInjective(listed') /\ Listed' = Listed \cup {t}
  BY <1>1, <1>2, ListMore
<1>4. At("waiting")' = At("waiting") \cup {t} /\ At("calling")' = At("calling")
  BY <1>1, MoveEffect DEF PlaceInv, At
<1>5. Listed' \subseteq At("waiting")'
  BY <1>3, <1>4, ListFacts
<1>6. \A u \in Threads : pc[u] = "waiting" => pc'[u] = "waiting"
  BY <1>1, MoveEffect DEF PlaceInv
<1>7. BulkheadType'
  BY <1>1, <1>3, <1>5, <1>6 DEF BulkheadInv, BulkheadType
<1>8. IsFiniteSet(At("waiting")' \ Listed') /\ Cardinality(At("waiting")' \ Listed') \in Nat
  BY <1>3, <1>4, BulkheadNumbers, AtFinite, FS_AddElement, FS_Difference, FS_CardinalityType
<1>9. PermitsInUse'
  BY <1>1, <1>4, <1>8 DEF BulkheadInv, PermitsInUse
<1> QED
  BY <1>7, <1>9 DEF BulkheadInv

(* A thread that stops waiting, wherever it goes.                          *)
LEMMA EndWaitEffect ==
    ASSUME PlaceInv, BulkheadInv, NEW t \in Threads, NEW place, place # "waiting",
           pc[t] = "waiting", Goto(t, place), EndWait(t)
    PROVE  /\ listed' \in Seq(Threads) /\ IsInjective(listed')
           /\ Listed' \subseteq At("waiting")'
           /\ late' \in [Threads -> BOOLEAN]
           /\ \A u \in Threads : late'[u] => pc'[u] = "waiting"
           /\ listed' # <<>> => Listed # {}
           /\ At("waiting")' \ Listed' = (At("waiting") \ Listed) \ {t}
<1>1. listed' \in Seq(Threads) /\ IsInjective(listed') /\ Listed' = Listed \ {t}
  BY UnlistedEffect DEF EndWait
<1>2. At("waiting")' = At("waiting") \ {t}
  BY MoveEffect DEF PlaceInv
<1>3. late' = [late EXCEPT ![t] = FALSE] /\ late \in [Threads -> BOOLEAN]
  BY DEF EndWait, BulkheadInv, BulkheadType
<1>4. \A u \in Threads : late'[u] => pc'[u] = "waiting"
  BY <1>3, MoveEffect DEF PlaceInv, BulkheadInv, BulkheadType
<1>5. listed' # <<>> => Listed # {}
  <2>1. Listed = {} => listed' = <<>>
    BY ListFacts DEF EndWait, Unlisted
  <2> QED
    BY <2>1
<1>6. Listed' \subseteq At("waiting")'
  BY <1>1, <1>2, ListFacts
<1>7. At("waiting")' \ Listed' = (At("waiting") \ Listed) \ {t}
  BY <1>1, <1>2
<1> QED
  BY <1>1, <1>3, <1>4, <1>5, <1>6, <1>7

(* The thread that takes a permit was, unless its time was up, one of      *)
(* those under way to one.                                                 *)
LEMMA TakeKeepsBulkhead ==
    ASSUME PlaceInv, BulkheadInv, NEW t \in Threads, Take(t)
    PROVE  BulkheadInv'
<1>1. /\ pc[t] = "waiting" /\ value > 0 /\ value' = value - 1
      /\ Goto(t, "calling") /\ EndWait(t)
  BY DEF Take, Runs
<1> DEFINE under == At("waiting") \ Listed
<1>2. /\ listed' \in Seq(Threads) /\ IsInjective(listed') /\ Listed' \subseteq At("waiting")'
      /\ late' \in [Threads -> BOOLEAN] /\ \A u \in Threads : late'[u] => pc'[u] = "waiting"
      /\ listed' # <<>> => Listed # {}
      /\ At("waiting")' \ Listed' = under \ {t}
  BY <1>1, EndWaitEffect
<1>3. Cardinality(At("calling")') = Cardinality(At("calling")) + 1
  BY <1>1, OneMoreCalls
<1>4. value' \in 0 .. MaxConcurrent /\ value' + Cardinality(At("calling")') = MaxConcurrent
  BY <1>1, <1>3, BulkheadNumbers
<1>5. /\ IsFiniteSet(under) /\ Cardinality(under) \in Nat
      /\ Listed # {} => value <= Cardinality(under)
  BY BulkheadNumbers
<1> HIDE DEF under
<1>6. Cardinality(under \ {t}) >= Cardinality(under) - 1 /\ Cardinality(under \ {t}) \in Nat
  <2>1. /\ IsFiniteSet(under \ {t})
        /\ Cardinality(under \ {t}) = IF t \in under THEN Cardinality(under) - 1 ELSE Cardinality(under)
    BY <1>5, FS_RemoveElement
  <2>2. Cardinality(under \ {t}) \in Nat
    BY <2>1, FS_CardinalityType
  <2> QED
    BY <1>5, <2>1, <2>2
<1>7. listed' # <<>> => value' <= Cardinality(At("waiting")' \ Listed')
  <2>1. value \in Nat
    BY BulkheadNumbers
  <2>2. listed' # <<>> => value' <= Cardinality(under \ {t})
    BY <1>1, <1>2, <1>5, <1>6, <2>1
  <2>3. Cardinality(At("waiting")' \ Listed') = Cardinality(under \ {t})
    BY <1>2, Zenon
  <2> QED
    BY <2>2, <2>3, Zenon
<1>8. BulkheadType'
  BY <1>2, <1>4 DEF BulkheadType
<1> QED
  BY <1>4, <1>7, <1>8 DEF BulkheadInv, PermitsInUse

LEMMA RefuseKeepsBulkhead ==
    ASSUME PlaceInv, BulkheadInv, NEW t \in Threads, Refuse(t)
    PROVE  BulkheadInv'
<1>1. /\ pc[t] = "waiting" /\ value = 0 /\ value' = 0
      /\ Goto(t, "idle") /\ EndWait(t)
  BY DEF Refuse, Runs
<1> DEFINE under == At("waiting") \ Listed
<1>2. /\ listed' \in Seq(Threads) /\ IsInjective(listed') /\ Listed' \subseteq At("waiting")'
      /\ late' \in [Threads -> BOOLEAN] /\ \A u \in Threads : late'[u] => pc'[u] = "waiting"
      /\ At("waiting")' \ Listed' = under \ {t}
  BY <1>1, EndWaitEffect
<1>3. At("calling")' = At("calling")
  BY <1>1, MoveEffect DEF PlaceInv, At
<1>4. IsFiniteSet(under)
  BY BulkheadNumbers
<1> HIDE DEF under
<1>5. Cardinality(under \ {t}) \in Nat
  BY <1>4, FS_RemoveElement, FS_CardinalityType
<1>6. BulkheadType'
  BY <1>1, <1>2, BulkheadAssumption DEF BulkheadType
<1>7. value' + Cardinality(At("calling")') = MaxConcurrent
  BY <1>1, <1>3, BulkheadNumbers
<1>8. value' <= Cardinality(At("waiting")' \ Listed')
  <2>1. value' <= Cardinality(under \ {t})
    BY <1>1, <1>5
  <2>2. Cardinality(At("waiting")' \ Listed') = Cardinality(under \ {t})
    BY <1>2, Zenon
  <2> QED
    BY <2>1, <2>2, Zenon
<1> QED
  BY <1>6, <1>7, <1>8 DEF BulkheadInv, PermitsInUse

LEMMA WaitAgainKeepsBulkhead ==
    ASSUME PlaceInv, BulkheadInv, NEW t \in Threads, WaitAgain(t)
    PROVE  BulkheadInv'
<1>1. /\ pc[t] = "waiting" /\ t \notin Listed /\ value = 0 /\ value' = 0
      /\ listed' = Append(listed, t) /\ pc' = pc /\ late' = late
  BY DEF WaitAgain, Runs
<1>2. listed' \in Seq(Threads) /\ IsInjective(listed') /\ Listed' = Listed \cup {t}
  BY <1>1, ListMore
<1>3. At("waiting")' = At("waiting") /\ At("calling")' = At("calling") /\ t \in At("waiting")
  BY <1>1 DEF At
<1>4. Listed' \subseteq At("waiting")'
  BY <1>2, <1>3, ListFacts
<1>5. IsFiniteSet(At("waiting")' \ Listed') /\ Cardinality(At("waiting")' \ Listed') \in Nat
  BY <1>3, AtFinite, FS_Difference, FS_CardinalityType
<1>6. BulkheadType'
  BY <1>1, <1>2, <1>4 DEF BulkheadInv, BulkheadType
<1>7. PermitsInUse'
  BY <1>1, <1>3, <1>5 DEF BulkheadInv, PermitsInUse
<1> QED
  BY <1>6, <1>7 DEF BulkheadInv

LEMMA ExpireKeepsBulkhead ==
    ASSUME PlaceInv, BulkheadInv, NEW t \in Threads, Expire(t)
    PROVE  BulkheadInv'
<1>1. /\ UNCHANGED <<pc, value, listed>> /\ late' = [late EXCEPT ![t] = TRUE]
      /\ pc[t] = "waiting"
      /\ Listed' = Listed /\ At("waiting")' = At("waiting") /\ At("calling")' = At("calling")
  BY DEF Expire, Listed, At
<1>2. BulkheadType'
  BY <1>1 DEF BulkheadInv, BulkheadType
<1>3. PermitsInUse'
  BY <1>1 DEF BulkheadInv, PermitsInUse
<1> QED
  BY <1>2, <1>3 DEF BulkheadInv

(* The permit that comes back has a thread of its own under way to it, if  *)
(* anybody was on the list.                                                *)
LEMMA ReleaseKeepsBulkhead ==
    ASSUME PlaceInv, BulkheadInv, NEW t \in Threads, NEW place,
           place \notin {"waiting", "calling"}, Release(t, place)
    PROVE  BulkheadInv'
<1>1. /\ pc[t] = "calling" /\ value' = value + 1 /\ Goto(t, place) /\ late' = late
      /\ listed' = IF listed = <<>> THEN <<>> ELSE Tail(listed)
  BY DEF Release
<1>2. At("waiting")' = At("waiting")
  BY <1>1, MoveEffect DEF PlaceInv, At
<1>3. \A u \in Threads : pc[u] = "waiting" => pc'[u] = "waiting"
  BY <1>1, MoveEffect DEF PlaceInv
<1>4. Cardinality(At("calling")') = Cardinality(At("calling")) - 1
  BY <1>1, OneLessCalls
<1>5. Cardinality(At("calling")') \in Nat
  <2>1. At("calling")' = At("calling") \ {t}
    BY <1>1, MoveEffect DEF PlaceInv
  <2> QED
    BY <2>1, AtFinite, FS_RemoveElement, FS_CardinalityType
<1>6. value' \in 0 .. MaxConcurrent /\ value' + Cardinality(At("calling")') = MaxConcurrent
  BY <1>1, <1>4, <1>5, BulkheadNumbers
<1>7. CASE listed = <<>>
  <2>1. listed' = listed /\ Listed' = Listed
    BY <1>1, <1>7 DEF Listed
  <2>2. BulkheadType'
    BY <1>1, <1>2, <1>3, <1>6, <2>1 DEF BulkheadInv, BulkheadType
  <2> QED
    BY <1>6, <1>7, <2>1, <2>2 DEF BulkheadInv, PermitsInUse
<1>8. CASE listed # <<>>
  <2> DEFINE under == At("waiting") \ Listed
  <2>1. listed' \in Seq(Threads) /\ IsInjective(listed')
    BY <1>1, <1>8, NotifyEffect
  <2>2. PICK h \in Listed : Listed' = Listed \ {h}
    BY <1>1, <1>8, NotifyEffect
  <2>3. Listed' \subseteq At("waiting")'
    BY <1>2, <2>2, ListFacts
  <2>4. At("waiting")' \ Listed' = under \cup {h} /\ h \notin under
    BY <1>2, <2>2, ListFacts
  <2>5. IsFiniteSet(under) /\ Cardinality(under) \in Nat /\ value <= Cardinality(under)
    BY <1>8, BulkheadNumbers, ListFacts
  <2> HIDE DEF under
  <2>6. Cardinality(under \cup {h}) = Cardinality(under) + 1
    BY <2>4, <2>5, FS_AddElement
  <2>7. value' <= Cardinality(At("waiting")' \ Listed')
    <3>1. value' <= Cardinality(under \cup {h})
      BY <1>1, <2>5, <2>6, BulkheadNumbers
    <3> QED
      BY <2>4, <3>1, Zenon
  <2>8. BulkheadType'
    BY <1>1, <1>3, <1>6, <2>1, <2>3 DEF BulkheadInv, BulkheadType
  <2> QED
    BY <1>6, <2>7, <2>8 DEF BulkheadInv, PermitsInUse
<1> QED
  BY <1>7, <1>8

-----------------------------------------------------------------------------
(* The client.                                                             *)
OnCircuit ==
    \A t \in Threads : pc[t] \in {"acquiring", "waiting", "calling"} => circuit[t] # NoCircuit

(* The inductive invariant.                                                *)
Inv == PlaceInv /\ KeyedInv /\ CacheInv /\ BulkheadInv /\ OnCircuit

LEMMA InitEstablishesInv ==
    ASSUME Init
    PROVE  Inv
<1>1. PlaceInv
  BY ClientAssumption DEF Init, PlaceInv, Places, Decoding, CacheInit, NoModel
<1>2. KeyedInv
  <2>1. KeyedType
    BY DEF Init, KeyedInit, KeyedType, NoCircuit
  <2>2. OneCircuitPerKey
    BY DEF Init, KeyedInit, OneCircuitPerKey
  <2> QED
    BY <2>1, <2>2 DEF Init, KeyedInit, KeyedInv
<1>3. CacheInv
  <2>1. cache = <<>> /\ DOMAIN cache = {} /\ cache \in [DOMAIN cache -> Models]
    BY DEF Init, CacheInit
  <2>2. CacheType
    BY <2>1, CacheTypeDef DEF Init, CacheInit
  <2>3. IsFiniteSet(DOMAIN cache) /\ Cardinality(DOMAIN cache) = 0
    BY <2>1, FS_EmptySet
  <2>4. At("answered") = {} /\ At("storing") = {}
    BY DEF Init, At
  <2>5. CacheBounded
    <3>1. Cardinality(At("storing")) = 0
      BY <2>4, FS_EmptySet
    <3> QED
      BY <2>3, <3>1, TypedFinite, CacheAssumption DEF CacheBounded
  <2> QED
    BY <2>1, <2>2, <2>3, <2>4, <2>5 DEF CacheInv, RightAdapter
<1>4. BulkheadInv
  <2>1. At("calling") = {} /\ Cardinality(At("calling")) = 0
    BY FS_EmptySet DEF Init, At
  <2>2. listed = <<>> /\ listed \in Seq(Threads) /\ IsInjective(listed) /\ Listed = {}
    BY DEF Init, BulkheadInit, IsInjective, Listed
  <2>3. BulkheadType
    BY <2>2, BulkheadAssumption DEF Init, BulkheadInit, BulkheadType
  <2>4. PermitsInUse
    BY <2>1, <2>2, BulkheadAssumption DEF Init, BulkheadInit, PermitsInUse
  <2> QED
    BY <2>3, <2>4 DEF BulkheadInv
<1>5. OnCircuit
  BY DEF Init, OnCircuit
<1> QED
  BY <1>1, <1>2, <1>3, <1>4, <1>5 DEF Inv

(* A thread goes to another place, and to its model only what it may do.   *)
LEMMA MoveKeepsPlace ==
    ASSUME PlaceInv, NEW t \in Threads, NEW place \in Places,
           Goto(t, place),
           place \in Decoding => t \in Typed,
           model' \in [Threads -> Models \cup {NoModel}],
           \A u \in Threads : u # t => model'[u] = model[u],
           t \in Typed /\ place # "idle" => model'[t] \in Models,
           responded' \in [Threads -> BOOLEAN]
    PROVE  PlaceInv'
<1>1. \A u \in Threads : pc'[u] = IF u = t THEN place ELSE pc[u]
  BY MoveEffect DEF PlaceInv
<1>2. pc' \in [Threads -> Places]
  BY DEF Goto, PlaceInv
<1> QED
  BY <1>1, <1>2, ClientAssumption DEF PlaceInv

LEMMA MoveKeepsOnCircuit ==
    ASSUME PlaceInv, OnCircuit, NEW t \in Threads, NEW place,
           Goto(t, place),
           \A u \in Threads : u # t => circuit'[u] = circuit[u],
           place \in {"acquiring", "waiting", "calling"} => circuit'[t] # NoCircuit
    PROVE  OnCircuit'
<1>1. \A u \in Threads : pc'[u] = IF u = t THEN place ELSE pc[u]
  BY MoveEffect DEF PlaceInv
<1> QED
  BY <1>1 DEF OnCircuit

(* A call ends, however: what concerns the bulkhead aside.                 *)
LEMMA EndKeepsInv ==
    ASSUME Inv, NEW t \in Threads, Goto(t, "idle"), Forget(t), BulkheadInv'
    PROVE  Inv'
<1>1. PlaceInv /\ KeyedInv /\ CacheInv /\ OnCircuit
  BY DEF Inv
<1>2. PlaceInv'
  BY <1>1, MoveKeepsPlace DEF Forget, PlaceInv, Places, Decoding
<1>3. KeyedInv'
  BY <1>1, ForgetKeepsCircuits
<1>4. CacheInv'
  <2>1. /\ model \in [Threads -> Models \cup {NoModel}]
        /\ adapter \in [Threads -> Models \cup {NoModel}]
    BY <1>1, CacheTypeDef DEF CacheInv
  <2>2. /\ model' \in [Threads -> Models \cup {NoModel}]
        /\ adapter' \in [Threads -> Models \cup {NoModel}]
        /\ \A u \in Threads : u # t => model'[u] = model[u] /\ adapter'[u] = adapter[u]
        /\ cache' = cache
    BY <2>1 DEF Forget
  <2> QED
    BY <1>1, <2>2, MoveKeepsCache
<1>5. OnCircuit'
  BY <1>1, MoveKeepsOnCircuit DEF Forget, KeyedInv, KeyedType
<1> QED
  BY <1>2, <1>3, <1>4, <1>5 DEF Inv

LEMMA BeginKeepsInv ==
    ASSUME Inv, NEW t \in Threads, Begin(t)
    PROVE  Inv'
<1>1. PlaceInv /\ KeyedInv /\ CacheInv /\ BulkheadInv /\ OnCircuit
  BY DEF Inv
<1>2. /\ pc[t] = "idle" /\ t \in Typed /\ Goto(t, "looking")
      /\ UNCHANGED <<cache, adapter, keyedVars, bulkheadVars, responded>>
  BY DEF Begin
<1>3. PICK m \in Models : model' = [model EXCEPT ![t] = m]
  BY DEF Begin
<1>4. /\ model' \in [Threads -> Models \cup {NoModel}] /\ model'[t] \in Models
      /\ \A u \in Threads : u # t => model'[u] = model[u]
  BY <1>1, <1>3 DEF PlaceInv
<1>5. PlaceInv'
  BY <1>1, <1>2, <1>4, MoveKeepsPlace DEF PlaceInv, Places
<1>6. KeyedInv'
  BY <1>1, <1>2, MoveKeepsCircuits
<1>7. CacheInv'
  BY <1>1, <1>2, <1>4, MoveKeepsCache, CacheTypeDef DEF CacheInv
<1>8. BulkheadInv'
  BY <1>1, <1>2, ElsewhereKeepsBulkhead
<1>9. OnCircuit'
  BY <1>1, <1>2, MoveKeepsOnCircuit DEF keyedVars
<1> QED
  BY <1>5, <1>6, <1>7, <1>8, <1>9 DEF Inv

LEMMA UseCacheKeepsInv ==
    ASSUME Inv, NEW t \in Threads, UseCache(t)
    PROVE  Inv'
<1>1. PlaceInv /\ KeyedInv /\ CacheInv /\ BulkheadInv /\ OnCircuit
  BY DEF Inv
<1>2. CacheStep(t) /\ UNCHANGED <<keyedVars, bulkheadVars, responded>> /\ model' = model
  BY DEF UseCache, CacheStep, LookUp, CompareRaises, BuildUncached, Build, Clear, Store, cacheVars
<1>3. pc[t] \in Decoding /\ t \in Typed /\ model[t] \in Models
  BY <1>1, <1>2 DEF CacheStep, LookUp, CompareRaises, BuildUncached, Build, Clear, Store, PlaceInv, Decoding
<1>4. PICK place \in Decoding : Goto(t, place)
  BY <1>2 DEF CacheStep, LookUp, CompareRaises, BuildUncached, Build, Clear, Store, Give, Decoding
<1>5. place \in Places /\ place \notin {"creating", "acquiring", "waiting", "calling", "idle"}
  BY DEF Decoding, Places
<1>6. PlaceInv'
  BY <1>1, <1>2, <1>3, <1>4, <1>5, MoveKeepsPlace DEF PlaceInv
<1>7. KeyedInv'
  BY <1>1, <1>2, <1>4, <1>5, MoveKeepsCircuits
<1>8. CacheInv'
  BY <1>1, <1>2, <1>6, CacheStepKeepsCache
<1>9. BulkheadInv'
  BY <1>1, <1>2, <1>3, <1>4, <1>5, ElsewhereKeepsBulkhead DEF Decoding
<1>10. OnCircuit'
  BY <1>1, <1>2, <1>4, <1>5, MoveKeepsOnCircuit DEF keyedVars
<1> QED
  BY <1>6, <1>7, <1>8, <1>9, <1>10 DEF Inv

LEMMA DispatchKeepsInv ==
    ASSUME Inv, NEW t \in Threads, Dispatch(t)
    PROVE  Inv'
<1>1. PlaceInv /\ KeyedInv /\ CacheInv /\ BulkheadInv /\ OnCircuit
  BY DEF Inv
<1>2. PICK k \in KeysOf[t] : Get(t, k)
  BY DEF Dispatch
<1>3. k \in Keys
  BY ClientAssumption
<1>4. UNCHANGED <<cache, model, adapter, bulkheadVars, responded>>
  BY DEF Dispatch, cacheVars
<1>5. pc[t] = "answered" \/ (pc[t] = "idle" /\ t \notin Typed)
  BY DEF Dispatch
<1>6. PICK place \in {"creating", "acquiring"} :
        Goto(t, place) /\ (place = "acquiring" => states[k] # NoCircuit)
  BY <1>2 DEF Get
<1>7. PlaceInv'
  BY <1>1, <1>4, <1>5, <1>6, MoveKeepsPlace DEF PlaceInv, Places, Decoding
<1>8. KeyedInv'
  BY <1>1, <1>2, <1>3, GetKeepsCircuits
<1>9. CacheInv'
  BY <1>1, <1>4, <1>6, MoveKeepsCache, CacheTypeDef DEF CacheInv
<1>10. BulkheadInv'
  BY <1>1, <1>4, <1>5, <1>6, ElsewhereKeepsBulkhead
<1>11. \A u \in Threads : circuit'[u] = IF u = t THEN states[k] ELSE circuit[u]
  BY <1>1, <1>2 DEF Get, KeyedInv, KeyedType
<1>12. OnCircuit'
  BY <1>1, <1>6, <1>11, MoveKeepsOnCircuit
<1> QED
  BY <1>7, <1>8, <1>9, <1>10, <1>12 DEF Inv

LEMMA PickCircuitKeepsInv ==
    ASSUME Inv, NEW t \in Threads, PickCircuit(t)
    PROVE  Inv'
<1>1. PlaceInv /\ KeyedInv /\ CacheInv /\ BulkheadInv /\ OnCircuit
  BY DEF Inv
<1>2. /\ Create(t) /\ pc[t] = "creating" /\ Goto(t, "acquiring")
      /\ UNCHANGED <<cache, model, adapter, bulkheadVars, responded>>
  BY DEF PickCircuit, Create, cacheVars
<1>3. PlaceInv'
  BY <1>1, <1>2, MoveKeepsPlace DEF PlaceInv, Places, Decoding
<1>4. KeyedInv'
  BY <1>1, <1>2, CreateKeepsCircuits
<1>5. CacheInv'
  BY <1>1, <1>2, MoveKeepsCache, CacheTypeDef DEF CacheInv
<1>6. BulkheadInv'
  BY <1>1, <1>2, ElsewhereKeepsBulkhead
<1>7. /\ circuit'[t] = states'[key[t]]
      /\ \A u \in Threads : u # t => circuit'[u] = circuit[u]
  BY <1>1, <1>2 DEF Create, KeyedInv, KeyedType
<1>8. states'[key[t]] # NoCircuit
  BY <1>1, <1>2 DEF Create, KeyedInv, KeyedType, Missing, NoCircuit
<1>9. OnCircuit'
  BY <1>1, <1>2, <1>7, <1>8, MoveKeepsOnCircuit
<1> QED
  BY <1>3, <1>4, <1>5, <1>6, <1>9 DEF Inv

LEMMA UseBulkheadKeepsInv ==
    ASSUME Inv, NEW t \in Threads, UseBulkhead(t)
    PROVE  Inv'
<1>1. PlaceInv /\ KeyedInv /\ CacheInv /\ BulkheadInv /\ OnCircuit
  BY DEF Inv
<1>2. BulkheadStep(t) \/ Expire(t)
  BY DEF UseBulkhead
<1>3. UNCHANGED <<cache, model, adapter, keyedVars, responded>>
  BY DEF UseBulkhead, cacheVars
<1>4. BulkheadInv'
  BY <1>1, <1>2, AcquireKeepsBulkhead, WaitKeepsBulkhead, TakeKeepsBulkhead,
     WaitAgainKeepsBulkhead, ExpireKeepsBulkhead DEF BulkheadStep
<1>5. KeyedInv'
  BY <1>1, <1>2, <1>3, MoveKeepsCircuits
     DEF BulkheadStep, Acquire, Wait, Take, WaitAgain, Expire
<1>6. CASE UNCHANGED pc
  <2>1. PlaceInv'
    BY <1>1, <1>3, <1>6 DEF PlaceInv
  <2>2. CacheInv'
    BY <1>1, <1>3, <1>6 DEF CacheInv, CacheType, RightAdapter, CacheBounded, At
  <2>3. OnCircuit'
    BY <1>1, <1>3, <1>6 DEF OnCircuit, keyedVars
  <2> QED
    BY <1>4, <1>5, <2>1, <2>2, <2>3 DEF Inv
<1>7. CASE Acquire(t) \/ Wait(t) \/ Take(t)
  <2>1. pc[t] \in {"acquiring", "waiting"}
    BY <1>7 DEF Acquire, Wait, Take, Runs
  <2>2. PICK place \in {"waiting", "calling"} : Goto(t, place)
    <3>1. Goto(t, "waiting") \/ Goto(t, "calling")
      BY <1>7 DEF Acquire, Wait, Take
    <3> QED
      BY <3>1
  <2>3. PlaceInv'
    BY <1>1, <1>3, <2>1, <2>2, MoveKeepsPlace DEF PlaceInv, Places, Decoding
  <2>4. CacheInv'
    BY <1>1, <1>3, <2>2, MoveKeepsCache, CacheTypeDef DEF CacheInv
  <2>5. circuit' = circuit /\ circuit[t] # NoCircuit
    BY <1>1, <1>3, <2>1 DEF keyedVars, OnCircuit
  <2>6. OnCircuit'
    BY <1>1, <2>2, <2>5, MoveKeepsOnCircuit
  <2> QED
    BY <1>4, <1>5, <2>3, <2>4, <2>6 DEF Inv
<1> QED
  BY <1>2, <1>6, <1>7 DEF BulkheadStep, WaitAgain, Expire

LEMMA RespondKeepsInv ==
    ASSUME Inv, NEW t \in Threads, Respond(t)
    PROVE  Inv'
<1>1. PlaceInv /\ KeyedInv /\ CacheInv /\ BulkheadInv /\ OnCircuit
  BY DEF Inv
<1>2. /\ t \in Typed /\ Release(t, "looking") /\ pc[t] = "calling" /\ Goto(t, "looking")
      /\ responded' = [responded EXCEPT ![t] = TRUE]
      /\ UNCHANGED <<cache, model, adapter, keyedVars>>
  BY DEF Respond, Release, cacheVars
<1>3. PlaceInv'
  BY <1>1, <1>2, MoveKeepsPlace DEF PlaceInv, Places
<1>4. KeyedInv'
  BY <1>1, <1>2, MoveKeepsCircuits
<1>5. CacheInv'
  BY <1>1, <1>2, MoveKeepsCache, CacheTypeDef DEF CacheInv
<1>6. BulkheadInv'
  BY <1>1, <1>2, ReleaseKeepsBulkhead
<1>7. OnCircuit'
  BY <1>1, <1>2, MoveKeepsOnCircuit DEF keyedVars
<1> QED
  BY <1>3, <1>4, <1>5, <1>6, <1>7 DEF Inv

LEMMA StepKeepsInv ==
    ASSUME Inv, [Next]_vars
    PROVE  Inv'
<1>1. CASE UNCHANGED vars
  <2>1. UNCHANGED <<pc, cache, model, adapter, states, created, key, circuit,
                    value, listed, late, responded>>
    BY <1>1 DEF vars, cacheVars, keyedVars, bulkheadVars
  <2>2. PlaceInv'
    BY <2>1 DEF Inv, PlaceInv
  <2>3. KeyedInv'
    BY <2>1 DEF Inv, KeyedInv, KeyedType, OneCircuitPerKey
  <2>4. CacheInv'
    BY <2>1 DEF Inv, CacheInv, CacheType, RightAdapter, CacheBounded, At
  <2>5. BulkheadInv'
    BY <2>1 DEF Inv, BulkheadInv, BulkheadType, PermitsInUse, Listed, At
  <2>6. OnCircuit'
    BY <2>1 DEF Inv, OnCircuit
  <2> QED
    BY <2>2, <2>3, <2>4, <2>5, <2>6 DEF Inv
<1>2. ASSUME NEW t \in Threads, Begin(t) \/ Dispatch(t) \/ Continue(t)
      PROVE  Inv'
  <2>1. PlaceInv /\ BulkheadInv
    BY DEF Inv
  <2>2. CASE Unclaimed(t) \/ CircuitOpen(t) \/ Decode(t)
    <3>1. /\ Goto(t, "idle") /\ Forget(t) /\ UNCHANGED bulkheadVars
          /\ pc[t] \notin {"waiting", "calling"}
      BY <2>2 DEF Unclaimed, CircuitOpen, Decode
    <3> QED
      BY <2>1, <3>1, ElsewhereKeepsBulkhead, EndKeepsInv
  <2>3. CASE BulkheadFull(t)
    BY <2>1, <2>3, RefuseKeepsBulkhead, EndKeepsInv DEF BulkheadFull, Refuse
  <2>4. CASE Return(t)
    BY <2>1, <2>4, ReleaseKeepsBulkhead, EndKeepsInv DEF Return, Release
  <2> QED
    BY <1>2, <2>2, <2>3, <2>4, BeginKeepsInv, UseCacheKeepsInv, DispatchKeepsInv,
       PickCircuitKeepsInv, UseBulkheadKeepsInv, RespondKeepsInv DEF Continue
<1> QED
  BY <1>1, <1>2 DEF Next

LEMMA Invariance ==
    Spec => []Inv
BY InitEstablishesInv, StepKeepsInv, PTL DEF Spec

(* The state of every part stays what it is meant to be, and no thread     *)
(* goes upstream without a circuit.                                        *)
THEOREM ClientTypeCorrect ==
    Spec => []TypeOK
<1>1. Inv => TypeOK
  BY DEF Inv, TypeOK, PlaceInv, CacheInv, KeyedInv, BulkheadInv, OnCircuit
<1> QED
  BY <1>1, Invariance, PTL

(* Two threads that meet a new circuit key at the same time end up with    *)
(* the same circuit, and two keys never share one: _create()'s second look *)
(* under the lock.                                                         *)
THEOREM CircuitsAreShared ==
    Spec => []OneCircuitPerKey
<1>1. Inv => OneCircuitPerKey
  BY DEF Inv, KeyedInv
<1> QED
  BY <1>1, Invariance, PTL

(* A response is decoded with its own model's adapter, whatever the other  *)
(* threads store and clear under the same key.                             *)
THEOREM AdaptersAreRight ==
    Spec => []RightAdapter
<1>1. Inv => RightAdapter
  BY DEF Inv, CacheInv
<1> QED
  BY <1>1, Invariance, PTL

(* The lockless cache overshoots _MAX_ENTRIES by at most one entry for     *)
(* each other thread that decodes.                                         *)
THEOREM CacheStaysSmall ==
    Spec => []CacheBounded
<1>1. Inv => CacheBounded
  BY DEF Inv, CacheInv
<1> QED
  BY <1>1, Invariance, PTL

(* The sync bulkhead's permits are in the counter or with callers, and a   *)
(* free one has a waiter under way to it, timeouts and newcomers or not.   *)
THEOREM PermitsAreUsed ==
    Spec => []PermitsInUse
<1>1. Inv => PermitsInUse
  BY DEF Inv, BulkheadInv
<1> QED
  BY <1>1, Invariance, PTL

=============================================================================
