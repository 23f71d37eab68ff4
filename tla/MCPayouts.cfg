SPECIFICATION Spec
CONSTANTS
    ann = ann
    bob = bob
    Dividends = {d1}
    Holders = {ann, bob}
    Admins = {bob}
    Workers = {w1, w2, w3}
    Holdings <- MCHoldings
    Totals = {2}
INVARIANTS PaidOnce PayoutsWithinTotal RecordsMatchDistributions DeletedLeaveNoPayout
PROPERTIES PayAllPaysAll EveryRequestEnds
CHECK_DEADLOCK FALSE
