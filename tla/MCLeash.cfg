CONSTANTS
    p1 = p1  p2 = p2  g = g  a = a  b = b  c = c
    Addr <- OnePeer
    NoPeer = NoPeer
    ID <- MCID
    Genesis = g
    Par <- MCPar
    Score <- MCScore
    Replies <- ChainReplies
    PeerScores = {3}
    NoScore = NoScore
    NoDiff = NoDiff
    RestartThreshold = 2
    Honest = TRUE
    StorageFails = FALSE
SPECIFICATION GSpec
CHECK_DEADLOCK FALSE
INVARIANTS LeashKeepsUp
