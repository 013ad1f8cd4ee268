------------------------------ MODULE MCAsyncStack ------------------------------
EXTENDS AsyncStack

CONSTANTS a1, a2, a3, b1

TwoLoops == [t \in Tasks |-> IF t = b1 THEN "B" ELSE "A"]

=============================================================================
