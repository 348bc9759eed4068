\* Backpressure: a channel of two, when three samples can wait for it.
SPECIFICATION FairSpec
CONSTANTS
    custom = custom
    ps = ps
    randomValue = randomValue
    totalMemory = totalMemory
    m1 = m1
    m2 = m2
    Pollers = {custom, ps}
    CustomPoller = custom
    Fallible = {ps}
    Gauges = {randomValue, totalMemory}
    GaugesOf <- OneGaugeEach
    PollCount = PollCount
    Cap = 2
    Maps = {m1, m2}
    NoMap = NoMap
    MaxRounds <- TwoRoundsAndOne
INVARIANTS
    TypeOK
    ExactlyOnce
    CleanExitWasAskedFor
PROPERTIES
    ReportIsPrivate
    GaugesMoveForward
    LedgerSpec
    SendsKeepContract
    PollsReachTheServer
    ShutdownEndsOrBlocks
CHECK_DEADLOCK FALSE
