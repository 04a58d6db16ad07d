CONSTANTS
    p1 = p1  p2 = p2  g = g  a = a  b = b  c = c
    Addr <- OnePeer
    NoPeer = NoPeer
    ID <- SmallID
    Genesis = g
    Par <- SmallPar
    Score <- SmallScore
    Replies <- SmallAnyReplies
    PeerScores = {3}
    NoScore = NoScore
    NoDiff = NoDiff
    RestartThreshold = 2
    Honest = FALSE
    StorageFails = TRUE
SPECIFICATION DSpec
CHECK_DEADLOCK FALSE
INVARIANTS DTypeOK FailuresBounded ClosedUnused
PROPERTIES ReceivedKept PackageReceived
