\* Two of two posts and a call, with a database and without.
SPECIFICATION FairSpec
CONSTANTS
    p1 = p1
    p2 = p2
    c1 = c1
    Posts = {p1, p2}
    Calls = {c1}
    Load = 2
INVARIANTS
    TypeOK
    CleanExitWasAskedFor
    AuditedWasApplied
PROPERTIES
    CallsDrained
    ContractSpec
    ShutdownEndsOrWaits
    CallsEndAtShutdown
    AuditsEnd
