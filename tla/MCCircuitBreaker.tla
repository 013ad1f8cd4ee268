--------------------------- MODULE MCCircuitBreaker ---------------------------
EXTENDS CircuitBreaker, TLC

Symmetry == Permutations(Threads)

=============================================================================
