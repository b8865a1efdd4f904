SPECIFICATION ServicesSpec
CONSTANTS
    c1 = c1
    c2 = c2
    k1 = k1
    k2 = k2
    k3 = k3
    Caller = {c1, c2}
    Key = {k1, k2, k3}
    Capacity = 2
    MaxLoads = 3
    r1 = r1
    r2 = r2
    Refresher = {r1, r2}
    MaxLogins = 2
    MaxTurns = 2
    MaxMishaps = 2
    old = old
    new = new
    manifest = manifest
    database = database
    created = created
    App = {old, new}
    NoApp = NoApp
    AppVersion <- Versions
    Entry = {manifest, database, created}
    Manifest = manifest
    Original = {manifest, database}
    MaxEdits = 2
    MaxLosses = 2
    i1 = i1
    Instrument = {i1}
    MonitorSnapshots = 2
    HeldIn <- Sold
    MaxOutages = 1
    MaxSnapshot = 1
    MaxPoint = 2
    MaxDay = 1
    MaxDeploys = 1
    MaxKills = 1
CHECK_DEADLOCK FALSE
INVARIANTS
    OneLoadPerKey
    NothingSpoiled
    NoLateLogin
    ConnectionWorks
    RecordsKept
    OneSnapshotShown
    CapturesAreWhole
    PointsSurvive
PROPERTIES
    EveryCallReturns
    StartsWhole
    UpgradeSettles
    MonitorSettles
    QueueDrains
