------------------------- MODULE MCAsyncCircuitBreaker -------------------------
EXTENDS AsyncCircuitBreaker

Symmetry == Permutations(Tasks)

=============================================================================
