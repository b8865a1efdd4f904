SPECIFICATION StoresSpec
CONSTANTS
    p1 = p1
    p2 = p2
    t1 = t1
    t2 = t2
    r1 = r1
    r2 = r2
    Publisher = {p1, p2}
    NoPublisher = NoPublisher
    Ticker = {t1, t2}
    MaxRefreshes = 3
    MaxLosses = 1
    Reader = {r1, r2}
    NoReader = NoReader
    a = a
    b = b
    writer1 = writer1
    writer2 = writer2
    reader1 = reader1
    Record = {a, b}
    Version <- Versions
    Offered <- Offers
    Writer = {writer1, writer2}
    PackReader = {reader1}
    MaxRuns = 2
    MaxDeaths = 1
    Events = 5
    Charge = 12
    Largest = 4
    MaxFiles = 2
SYMMETRY StoresSymmetric
CHECK_DEADLOCK FALSE
INVARIANTS
    SnapshotsComplete
    CoverageDescribesRows
    FreshAnswer
    ReadersFind
    EachCostOnce
    ImportsHold
PROPERTIES
    ImplementsRegister
    KeepsContents
