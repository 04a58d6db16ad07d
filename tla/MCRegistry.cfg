CONSTANTS
    node = node  out1 = out1  in1 = in1  in2 = in2
    Addr <- MCAddr
    Out <- MCOut
    In <- OneIn
    Versions <- MCVersions
    NodeVersions = {2, 5}
    StorageFails = TRUE
SPECIFICATION Spec
INVARIANTS TypeOK AddressKnown RegisteredEnds PendingIsDialled VersionOffered
PROPERTIES ScoreKept DialledAgain EveryVersionTried
