\* A save cut off by a crash, and the next start.
SPECIFICATION Spec
CONSTANTS
    hits = hits
    load = load
    Ids = {hits, load}
    Gauges = {load}
    Batches <- SinglesAndPair
    RestoreOnStart = TRUE
    NoFile = NoFile
    MaxVersion = 2
INVARIANTS
    StartsAfterCrash
