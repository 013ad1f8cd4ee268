----------------------------- MODULE ClientThreads -----------------------------
(***************************************************************************)
(* The threads that make requests through one Client, and where each is in *)
(* its call.  DecoderCache, KeyedStates and Bulkhead are what they share;  *)
(* SyncClient puts the three together.                                     *)
(***************************************************************************)
EXTENDS Integers, FiniteSets, SequencesExt

CONSTANT Threads

ASSUME ThreadsAssumption == IsFiniteSet(Threads)

VARIABLE pc     \* where each thread is

At(place) == {t \in Threads : pc[t] = place}

Goto(t, place) == pc' = [pc EXCEPT ![t] = place]

=============================================================================
