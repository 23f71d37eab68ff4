SPECIFICATION Spec
CONSTANTS
    Users = {ann, bob}
    Records = {k1}
    Files = {f1}
    Workers = {w1, w2}
    NoOne = NoOne
INVARIANTS ApprovedIsSaler UploadsLoad NoStrayFiles
SYMMETRY Symmetric
CHECK_DEADLOCK FALSE
