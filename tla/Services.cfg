SPECIFICATION AllSpec
CONSTANTS
    Threshold = 2
    Reset = 2
    Callers = {c1, c2, c3}
    Attempts = 2
    NestedCallers = {"p", "q"}
    NestedStores = {"vector", "web"}
    NestedConfigured = {"vector"}
    NestedDetailed = {"vector"}
    NestedHybrids <- ThreeHybrids
    FlatCallers = {"p"}
    FlatStores = {"sql", "graph", "web"}
    FlatConfigured = {"sql", "graph"}
    FanLimit = 1
    FanReset = 1
    ModelCalls = {"a", "b", "c", "d"}
    ModelNeed <- OneOrTwo
    ModelRequests = 2
    ModelTokens = 2
    ModelShare = 3
    ModelTime = 5
    Clients = {"a", "b"}
    PerMinute = 3
    Burst = 2
    Window = 2
    QuotaTime = 4
    HttpRequests = {"r1", "r2"}
    Docs = {"d"}
    Owner <- OwnedByFirst
    Keys = {"k1", "k2"}
    Bindings <- FirstIsBound
    Tenants = {"t1", "t2"}
    Isolations = {TRUE, FALSE}
    Kinds <- AnyRouteAndQuery
INVARIANTS
    TypesOK
    FanOutIsHonest
    RatesHold
    KeptToTenant
    EndsAreSettled
PROPERTIES
    ProbesApart
    ContractKept
    StoresRejoin
    EndsInTime
CHECK_DEADLOCK FALSE
