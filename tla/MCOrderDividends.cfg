SPECIFICATION Spec
CONSTANTS
    admin = admin
    saler = saler
    None = None
    Orders <- MCTwoOrders
    Workers = {w1, w2, w3}
    Admins = {admin}
    Salers = {saler}
    SellerOf <- MCSellerOf
INVARIANTS TypeOK SharedOnce SweptIffShared SplitIffPaid NoDeadlock
PROPERTY ImplementsSharing
CHECK_DEADLOCK FALSE
