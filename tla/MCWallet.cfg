SPECIFICATION Spec
CONSTANTS
    order = order
    investment = investment
    dividend = dividend
    ann = ann
    bob = bob
    seller = seller
    affiliate = affiliate
    level1 = level1
    payout = payout
    Users = {ann, bob}
    Causes = {order, investment, dividend}
    Credits = {seller, affiliate, level1, payout}
    KindOf <- MCKindOf
    CauseOf <- MCCauseOf
    OwnerOf <- MCOwnerOf
    Net <- MCNet
    Requests = {r1, r2}
    Amounts = {2}
INVARIANTS OverdrawnOnlyIfDisturbed ListMatchesBalance
CHECK_DEADLOCK FALSE
