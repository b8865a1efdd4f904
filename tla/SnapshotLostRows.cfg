SPECIFICATION Spec
CONSTANTS
    p1 = p1
    p2 = p2
    t1 = t1
    t2 = t2
    Publisher = {p1, p2}
    NoPublisher = NoPublisher
    Ticker = {t1, t2}
    MaxRefreshes = 3
    MaxLosses = 1
SYMMETRY Symmetric
CHECK_DEADLOCK FALSE
PROPERTIES UntouchedRowsSurvive
