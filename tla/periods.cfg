SPECIFICATION InOrderSpec

CONSTANTS
    p1 = p1
    p2 = p2
    p3 = p3
    p4 = p4
    Node <- Peers
    Rank <- MCRank
    Elected <- ElectAll
    Bottom = Bottom
    Empty = Empty
    Err = Err
    Nil = Nil
    Tx = {}
    BlockSize = 2
    BlockTake = 1
    MaxRound = 1
    MaxPeriod = 2
    MaxStep = 5
    MaxErrors = 0
    Slack = 2

INVARIANTS
    Step1NeverErr
    CertAgreement

CHECK_DEADLOCK FALSE
