\* Three batches, one too long for RSA, two workers, one retry.
SPECIFICATION FairSpec
CONSTANTS
    b1 = b1
    b2 = b2
    b3 = b3
    w1 = w1
    w2 = w2
    Batches = {b1, b2, b3}
    Big = {b2}
    Workers = {w1, w2}
    Attempts = 2
    NoBatch = NoBatch
    NoSum = NoSum
INVARIANTS
    TypeOK
    AtMostOnce
    AppliedWhenConfigured
PROPERTIES
    ContractSpec
    Terminates
