CONSTANTS
    Collectors = {c1, a1}
    AutoStart = {a1}
    Proxies = {p1}
    BatchSize = 2
    PointSize = 2
    MaxItems = 3
    MaxPoints <- MCMaxPoints
    DialMayFail = TRUE
    Nothing = Nothing
SPECIFICATION FairSpec
INVARIANTS BatchesAreContiguous CacheKeepsEveryBatch CacheLagsOneBatch
PROPERTIES SendsDatagrams HandOverReturns
CHECK_DEADLOCK FALSE
