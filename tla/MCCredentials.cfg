SPECIFICATION Spec
CONSTANTS
    Users = {ann}
    Roles = {customer, saler}
    Passwords = {p1, p2}
    Links = {l1, l2}
    Workers = {w1, w2}
INVARIANTS FreshTokensCurrent LinkUsedOnce OneLiveLink
SYMMETRY Symmetric
CHECK_DEADLOCK FALSE
