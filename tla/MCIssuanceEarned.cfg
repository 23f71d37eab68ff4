SPECIFICATION Spec
CONSTANTS
    ann = ann
    bob = bob
    cat = cat
    i1 = i1
    i2 = i2
    i3 = i3
    None = None
    Users = {ann, bob, cat}
    Invs = {i1, i2, i3}
    Rounds <- MCTwoRounds
    Workers = {w1, w2}
    InvUser <- MCInvUser
    InvShares <- MCInvShares
    InvRound <- MCInvRound
    ForSale <- MCForSale
    TotalShares <- MCTotalShares
    Referrer <- MCChain
    PaidLevels = {1, 2}
    MaxPool = 3
INVARIANT EarnedCommissionsRemoved
CHECK_DEADLOCK FALSE
