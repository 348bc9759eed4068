\* A secret on both sides: the first report is refused.
SPECIFICATION Spec
CONSTANTS
    b1 = b1
    b2 = b2
    b3 = b3
    w1 = w1
    w2 = w2
    Batches = {b1, b2}
    Big = {b2}
    Workers = {w1, w2}
    Attempts = 3
    NoBatch = NoBatch
    NoSum = NoSum
INVARIANTS
    SignedReportsAccepted
