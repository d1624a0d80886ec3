SPECIFICATION Spec

CONSTANTS
    p1 = p1
    p2 = p2
    p3 = p3
    p4 = p4
    Node <- Peers
    Rank <- MCRank
    Elected <- ElectTwo
    Bottom = Bottom
    Empty = Empty
    Err = Err
    Nil = Nil
    Tx = {}
    BlockSize = 2
    BlockTake = 1
    MaxRound = 1
    MaxPeriod = 1
    MaxStep = 2
    MaxErrors = 1

INVARIANTS
    TalliesBacked

CHECK_DEADLOCK FALSE
