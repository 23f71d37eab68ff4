SPECIFICATION Spec
CONSTANTS
    Users = {ann, bob}
    Contracts = {c1, c2}
    Tiers = {t1}
    Workers = {w1, w2}
    Keys = {k1}
    NoKey = NoKey
    Terms = {small, large}
    NoTerms = NoTerms
INVARIANTS SignedIffInvested KeysUnique TierOfContractExists
PROPERTY ImplementsSigning
SYMMETRY Symmetric
CHECK_DEADLOCK FALSE
