SPECIFICATION Spec
CONSTANTS
    MaxRedirects = 2
    Cap = 2
    MaxBody = 4
    MaxChunk = 2
INVARIANTS
    TypeOK
    HoldsOneConnection
    BodiesWhole
    RefusedOnlyWhenLarge
    SendsBounded
