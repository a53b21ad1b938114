SPECIFICATION Spec
CONSTANTS
    Workers = {w1, w2}
    Reports = {"finished"}
    MaxSets = 2
    MaxResults = 3
SYMMETRY Symmetric
INVARIANTS TypeOK SetsAndResults RefusedForGood
CHECK_DEADLOCK FALSE
