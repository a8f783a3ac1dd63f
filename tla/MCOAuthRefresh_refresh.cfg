SPECIFICATION FairSpec
CONSTANTS
    b1 = b1
    b2 = b2
    q1 = q1
    Refreshers = {b1, b2}
    Requests = {q1}
    instance <- TwoInstances
    MaxRotations = 1
    MaxGrants = 1
    Troubles = {"unlocked", "lost", "fruitless"}
    MaxTroubles = 1
INVARIANT DisabledOnlyWhenLost
INVARIANT CacheFollowsRow
PROPERTY ReauthorisationKept
PROPERTY HealthyNotDisabled
PROPERTY DueIsRefreshed
CHECK_DEADLOCK FALSE
