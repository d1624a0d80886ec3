SPECIFICATION InOrderSpec

CONSTANTS
    p1 = p1
    p2 = p2
    p3 = p3
    p4 = p4
    Node <- Peers
    Rank <- MCRank
    Elected <- ElectAll
    Bottom = Bottom
    Empty = Empty
    Err = Err
    Nil = Nil
    Tx = {}
    BlockSize = 2
    BlockTake = 1
    MaxRound = 1
    MaxPeriod = 1
    MaxStep = 3
    MaxErrors = 0
    Slack = 1

PROPERTIES
    HaltsOnQuorum

CHECK_DEADLOCK FALSE
