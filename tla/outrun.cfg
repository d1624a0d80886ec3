SPECIFICATION RunAheadSpec

CONSTANTS
    p1 = p1
    p2 = p2
    p3 = p3
    p4 = p4
    Node <- Peers
    Rank <- MCRank
    Elected <- ElectThree
    Bottom = Bottom
    Empty = Empty
    Err = Err
    Nil = Nil
    Tx = {}
    BlockSize = 2
    BlockTake = 1
    MaxRound = 3
    MaxPeriod = 1
    MaxStep = 3
    MaxErrors = 1

INVARIANTS
    ChainsLinked
    ValuesOfRound

PROPERTIES
    Forward

CHECK_DEADLOCK FALSE
