CONSTANTS
    p1 = p1  p2 = p2
    gen1 = gen1  gen2 = gen2  panic = panic
    Addr <- OnePeer
    ID <- TwinID
    Genesis = "t1"
    NoID = "none"
    Generator <- MCGenerator
    Blocks <- TwinBlocks
    MicroInvs <- NoMicros
    GenesisTarget = 6
    GenesisGenerator = gen1
    MaxBlockScore = 12
    LongForkThreshold = 5
    Counts <- MCCounts
    Panic = panic
SPECIFICATION Spec
INVARIANTS AnyTwoChainsHaveLCB
