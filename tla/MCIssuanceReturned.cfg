SPECIFICATION Spec
CONSTANTS
    ann = ann
    bob = bob
    cat = cat
    i1 = i1
    i2 = i2
    i3 = i3
    None = None
    Users = {ann, bob}
    Invs = {i1, i2, i3}
    Rounds <- MCTwoRounds
    Workers = {w1, w2}
    InvUser <- MCInvUser
    InvShares <- MCInvShares
    InvRound <- MCInvRound
    ForSale <- MCForSale
    TotalShares <- MCTotalShares
    Referrer <- MCCycle
    PaidLevels = {1, 2}
    MaxPool = 3
PROPERTY DeletionReturnsShares
CHECK_DEADLOCK FALSE
