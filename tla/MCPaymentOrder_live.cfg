SPECIFICATION FairSpec
CONSTANTS
    Orders = {o1}
    Workers = {w1, w2}
    OrderType <- SubscriptionOrder
    MaxFaults = 0
    MaxCrashes = 1
    MaxSlow = 0
PROPERTY PaidOrderSettles
CHECK_DEADLOCK FALSE
