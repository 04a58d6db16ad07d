CONSTANTS
    node = node  out1 = out1  in1 = in1  in2 = in2
    Addr <- MCAddr
    Out <- MCOut
    In <- TwoIn
    Versions <- MCVersions
    NodeVersions = {5}
    StorageFails = FALSE
SPECIFICATION Spec
PROPERTIES ConnectedIsListed
