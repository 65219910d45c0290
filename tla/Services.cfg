SPECIFICATION MCSpec
CONSTANTS
    q1 = q1  q2 = q2  g1 = g1
    None = None
    HOUR = 2
    DAY = 4
    Shapes <- MCShapes
    Queries <- MCQueries
    MAX_MODELS = 2
    LastTime = 5
    MaxEvents = 3
    PoolConfigs <- MCPoolConfigs
    NoPool = NoPool
    PoolModels = {"a", "b", "c"}
    MaxActive = 2
    Absent = Absent
    Specs = {"k", "u"}
    Keyed = {"k"}
    ApiAnswers <- MCApiAnswers
    MAX_PAGES = 2
    LeftOut = {"ft"}
    DevAnswers <- MCDevAnswers
    Bases <- MCBases
    Gateways = {g1}
    Additions = {1, 2, 3, 4}
    Wanted <- MCWanted
    Connections = {"env", "new"}
    EnvModels <- MCEnvModels
    MaxSaveFaults = 2
    MaxRestarts = 1
    Nobody = Nobody
    WorkerRequests = {q1, q2}
    MaxInsertFailures = 2
INVARIANTS ReportsAgree PoolsFair FollowsSources LoopGoesOn AddedModelsKept ShippedBeforeEnd
PROPERTIES RatesKept RequestsEnd
CHECK_DEADLOCK FALSE
