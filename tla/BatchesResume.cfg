SPECIFICATION PoolSpec
CONSTANTS
    a = a
    b = b
    writer1 = writer1
    writer2 = writer2
    reader1 = reader1
    Record = {a, b}
    Version <- Versions
    Offered <- Offers
    Writer = {writer1, writer2}
    PackReader = {reader1}
    MaxRuns = 2
    MaxDeaths = 1
CHECK_DEADLOCK FALSE
INVARIANT BatchesResume
