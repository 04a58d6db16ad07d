CONSTANTS
    p1 = p1  p2 = p2  g = g  a = a  b = b  c = c
    Addr <- TwoPeers
    NoPeer = NoPeer
    ID <- SmallID
    Genesis = g
    Par <- SmallPar
    Score <- SmallScore
    Replies <- SmallReplies
    PeerScores = {3}
    NoScore = NoScore
    NoDiff = NoDiff
    RestartThreshold = 2
    Honest = TRUE
    StorageFails = FALSE
SPECIFICATION Spec
CHECK_DEADLOCK FALSE
INVARIANTS TypeOK NeverStuck FailuresBounded
PROPERTIES ReceivedKept SilentPeerReleased
