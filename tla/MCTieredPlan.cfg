SPECIFICATION PlanSpec
CONSTANTS
    Bands = {1, 2, 3}
    RateTables <- MCRateTables
    EqualRate = 9
    BonusRate = 6
    Unit = 100
    MaxAccounts = 4
    MaxPool = 52
    MaxRevenue = 70
INVARIANTS PlanTypeOK BonusSharedOut PoolSharedOut QuotaRule BetterBandNotLess
CHECK_DEADLOCK FALSE
