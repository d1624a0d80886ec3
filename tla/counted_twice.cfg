SPECIFICATION PacedSpec

CONSTANTS
    p1 = p1
    p2 = p2
    p3 = p3
    p4 = p4
    Node <- Peers
    Rank <- MCRank
    Elected <- ElectThree
    Bottom = Bottom
    Empty = Empty
    Err = Err
    Nil = Nil
    Tx = {}
    BlockSize = 2
    BlockTake = 1
    MaxRound = 1
    MaxPeriod = 1
    MaxStep = 5
    MaxErrors = 1
    Slack = 1

INVARIANTS
    NextVotesBacked

CHECK_DEADLOCK FALSE
