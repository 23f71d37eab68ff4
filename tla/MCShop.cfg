SPECIFICATION Spec
CONSTANTS
    Affiliates = {a1, a2}
    House = house
    Phones = {phone}
    Products = {tonic, tea}
    Slugs = {s1, s2}
    Orders = {o1}
    Workers = {w1, w2}
    NoOne = NoOne
    NoSlug = NoSlug
INVARIANTS FirstTouchKept SlugKept
SYMMETRY Symmetric
