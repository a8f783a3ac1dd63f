SPECIFICATION FairSpec
CONSTANTS
    w1 = w1
    w2 = w2
    p1 = p1
    f1 = f1
    r1 = r1
    Writers = {w1, w2}
    Pollers = {p1}
    Rebuilders = {f1}
    Readers = {r1}
    Scenarios <- Instances
INVARIANT ServedIsFresh AnnouncedIsCovered
PROPERTY DecisionsInOrder RebuildsInOrder Converges
CHECK_DEADLOCK FALSE
