CONSTANTS
    w1 = w1
    w2 = w2
    k1 = k1
    k2 = k2
    june = june
    july = july
    None = None
    RawScale = 1000
    KvScale = 100
    ShareScale = 100
    Members = {1, 2}
    Periods = {june, july}
    Keys = {k1, k2}
    Points = {3, 5}
    Averages = {100}
    Caps = {100}
    CouncilCap = 100
    Workers = {w1, w2}
    MaxContributions = 2
SPECIFICATION Spec
SYMMETRY Symmetric
CHECK_DEADLOCK FALSE
INVARIANTS KeyRegistersOnce ReadingsAreCurrent SharesAddUp
