CONSTANTS
    p1 = p1  p2 = p2  p3 = p3
    g0 = g0  a1 = a1  b2 = b2  c1 = c1  m1 = m1  k2 = k2  none = none  unknown = unknown
    x = x  y = y  panic = panic
    Addr <- MCAddr
    ID <- MCID
    Genesis = g0
    NoID = none
    Generator <- MCGenerator
    Blocks <- MCBlocks
    MicroInvs <- MCMicroInvs
    GenesisTarget = 6
    GenesisGenerator = x
    MaxBlockScore = 12
    LongForkThreshold = 1
    Counts = {}
    Panic = panic
SPECIFICATION Spec
INVARIANTS TypeOK IndexConsistent ChainsGrowByOne LeashStored HeadsInverse HeadIsTip HeadlessSuperseded ForksAgainstMain ViewsAgree 
PROPERTIES HeadsAdvance ImplementsHistory
