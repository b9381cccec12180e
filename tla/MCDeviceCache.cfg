\* Two goroutines, two IDs.
SPECIFICATION CacheSpec
CONSTANTS
    w1 = w1
    w2 = w2
    d1 = d1
    d2 = d2
    d3 = d3
    i1 = i1
    i2 = i2
    Ids = {i1, i2}
    Objs = {d1, d2, d3}
    Workers = {w1, w2}
    Nil = Nil
    MaxCalls = 3
    MaxChanges = 2
    MayClose = TRUE
VIEW View
SYMMETRY Symmetry
INVARIANTS CacheInv FoundByIPIsPermanent
