SPECIFICATION MCSpec
CONSTANTS
    s1 = s1  s2 = s2  s3 = s3
    Nobody = Nobody
    SessionTokens = {s1, s2}
    Loads = {1, 2}
    ViewRequests = {1}
    MaxTroubles = 1
    Changes = {"a", "i", "j"}
    Issuing = {"i", "j"}
    Refreshes = {1, 2}
    Nothing = Nothing
    Selections = {"24h", "7d"}
    Effects = {1, 2, 3}
    NoReport = NoReport
    ChatModels = {"m", "n"}
    DecisionModels = {"d"}
    PoolIds = {"pool/p"}
    StartConfigs <- MCStartConfigs
    OtherConfigs <- MCOtherConfigs
    MaxEdits = 3
    NoConfig = NoConfig
INVARIANTS NeverSomeoneElse OwnChangesShown ExactlyOneLoop EditsKept KeepsShape
PROPERTIES HonouredSessionsKept
CHECK_DEADLOCK FALSE
