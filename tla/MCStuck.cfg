CONSTANTS
    p1 = p1  p2 = p2  g = g  a = a  b = b  c = c
    Addr <- OnePeer
    NoPeer = NoPeer
    ID <- MCID
    Genesis = g
    Par <- MCPar
    Score <- MCScore
    Replies <- AnyReplies
    PeerScores = {3}
    NoScore = NoScore
    NoDiff = NoDiff
    RestartThreshold = 1
    Honest = FALSE
    StorageFails = FALSE
SPECIFICATION Spec
CHECK_DEADLOCK FALSE
PROPERTIES SilentPeerReleased
