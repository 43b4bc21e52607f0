SPECIFICATION LiveSpec
CONSTANTS
    i1 = i1
    d1 = d1
    d2 = d2
    k1 = k1
    NoCronRow = NoCronRow
    NoKey = NoKey
    e1 = e1
    q1 = q1
    w1 = w1
    w2 = w2
    c1 = c1
    c2 = c2
    c3 = c3
    h1 = h1
    h2 = h2
    NoEvent = NoEvent
    NoWorker = NoWorker
    x1 = x1
    z1 = z1
    z2 = z2
    EdgeApps = {x1}
    ShopDomains = {z1, z2}
    ShopOf <- MCShopOf
    EdgeRequests = {1, 2}
    NoApp = NoApp
PROPERTIES
    RowsSettle
    JobsSettle
    GenerationsSettle
    RequestsSettle
CHECK_DEADLOCK FALSE
