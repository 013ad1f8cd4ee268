------------------------------ MODULE DecoderCache ------------------------------
(***************************************************************************)
(* The adapter cache of a decoder, decoders/_caching.py, shared by threads *)
(* without a lock.                                                         *)
(*                                                                         *)
(* A dict operation is one step.  Between the get that misses, the build,  *)
(* the look at the size, the clear and the insert the other threads run.   *)
(***************************************************************************)
EXTENDS ClientThreads

CONSTANTS
    Models,         \* the response_models in use
    Unhashable,     \* those of them that are keyed by their repr
    KeyOf,          \* the key of each model, or NoKey if it has none
    NoKey,
    Undecodable,    \* those the decoder builds no adapter for
    MaxEntries      \* _MAX_ENTRIES

(* What _key promises: that hashable models have keys of their own.        *)
ASSUME CacheAssumption ==
    /\ Unhashable \subseteq Models /\ Undecodable \subseteq Models
    /\ \A m \in Models : KeyOf[m] = NoKey => m \in Unhashable
    /\ \A m, n \in Models : KeyOf[m] = KeyOf[n] /\ m # n => {m, n} \subseteq Unhashable
    /\ MaxEntries \in Nat \ {0}

VARIABLES
    cache,      \* _adapters: by key, the model whose adapter it holds
    model,      \* the response_model of each thread's call, or NoModel
    adapter     \* the model whose adapter the thread was given, or NoModel

cacheVars == <<cache, model, adapter>>

NoModel == "None"

CacheInit ==
    /\ cache = <<>>
    /\ model = [t \in Threads |-> NoModel]
    /\ adapter = [t \in Threads |-> NoModel]

(* Faulty variant: one repr, one adapter.                                  *)
Cached_ByReprAlone(m) == KeyOf[m] \in DOMAIN cache

(* The cache has an entry to use for m; an entry found under a repr may    *)
(* be another model's.                                                     *)
Cached(m) ==
    /\ KeyOf[m] \in DOMAIN cache
    /\ m \in Unhashable => cache[KeyOf[m]] = m

Give(t, m) ==
    /\ adapter' = [adapter EXCEPT ![t] = m]
    /\ Goto(t, "answered")

LookUp(t) ==
    /\ pc[t] = "looking"
    /\ IF Cached(model[t])
       THEN Give(t, cache[KeyOf[model[t]]])
       ELSE Goto(t, "building") /\ UNCHANGED adapter
    /\ UNCHANGED <<cache, model>>

(* Found under its repr, but the == that tells whose it is raises.         *)
CompareRaises(t) ==
    /\ pc[t] = "looking"
    /\ model[t] \in Unhashable /\ KeyOf[model[t]] \in DOMAIN cache
    /\ Give(t, model[t])
    /\ UNCHANGED <<cache, model>>

(* A model with neither hash nor repr.                                     *)
BuildUncached(t) ==
    /\ pc[t] = "building"
    /\ KeyOf[model[t]] = NoKey
    /\ Give(t, model[t])
    /\ UNCHANGED <<cache, model>>

(* Faulty variant: a full cache grows on.                                  *)
Full_Never == FALSE

Full == Cardinality(DOMAIN cache) >= MaxEntries

Build(t) ==
    /\ pc[t] = "building"
    /\ KeyOf[model[t]] # NoKey
    /\ Goto(t, IF Full THEN "clearing" ELSE "storing")
    /\ UNCHANGED cacheVars

Clear(t) ==
    /\ pc[t] = "clearing"
    /\ cache' = <<>>
    /\ Goto(t, "storing")
    /\ UNCHANGED <<model, adapter>>

(* The thread goes on with the entry it has built, stored or not.          *)
Store(t) ==
    /\ pc[t] = "storing"
    /\ cache' = [k \in DOMAIN cache \cup {KeyOf[model[t]]} |->
                   IF k = KeyOf[model[t]] THEN model[t] ELSE cache[k]]
    /\ Give(t, model[t])
    /\ UNCHANGED model

CacheStep(t) ==
    \/ LookUp(t) \/ CompareRaises(t) \/ BuildUncached(t)
    \/ Build(t) \/ Clear(t) \/ Store(t)

(* can_decode()'s answer                                                   *)
CanDecode(t) == adapter[t] \notin Undecodable

-----------------------------------------------------------------------------
CacheType ==
    /\ cache \in UNION {[K -> Models] : K \in SUBSET {KeyOf[m] : m \in Models}}
    /\ model \in [Threads -> Models \cup {NoModel}]
    /\ adapter \in [Threads -> Models \cup {NoModel}]

(* A response is decoded with the adapter of its own model, also if        *)
(* another thread has just stored, or thrown out, one under the same key.  *)
RightAdapter == \A t \in At("answered") : adapter[t] = model[t]

=============================================================================
