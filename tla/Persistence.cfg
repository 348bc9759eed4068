\* Two metrics, one of which can be NaN; two updates of each, alone or in a batch.
SPECIFICATION FairSpec
CONSTANTS
    hits = hits
    load = load
    Ids = {hits, load}
    Gauges = {load}
    Batches <- SinglesAndPair
    RestoreOnStart = TRUE
    NoFile = NoFile
    MaxVersion = 2
INVARIANTS
    TypeOK
    SavedWasReal
    StartableBetweenWrites
PROPERTIES
    CompletedSaveSurvives
    UpdatesAreSaved
