-------------------------------- MODULE MCRetry --------------------------------
EXTENDS Retry, TLC

Symmetry == Permutations(Callers)

=============================================================================
