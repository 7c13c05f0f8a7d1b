CONSTANTS
    Pages = {p1, p2, p3}
    LastPage = p3
    StopOnEnter = {TRUE, FALSE}
    Orders = {TRUE, FALSE}
    MaxLosses = 1
    Conns = {c1, c2}
    MaxFrames = 2
    Overlaps = {TRUE, FALSE}
    Nobody = Nobody
SPECIFICATION MCSpec
INVARIANTS
    PauseFollowsSession
    OwnSessionSafe
    SocketsAreSound
PROPERTIES
    MonitoringComesBack
CHECK_DEADLOCK FALSE
