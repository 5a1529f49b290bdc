SPECIFICATION Spec
CONSTANTS
    Threads = {t1, t2}
    Keys = {tiny, small, medium, large, huge}
    Entries = {c1, c2, c3}
    Pipelines = {p1, p2, p3}
    Size <- MCSize
    MaxEntries = 2
    MaxBytes = 6
    NoKey = NoKey
    NoEntry = NoEntry
    NoPipeline = NoPipeline
    Nobody = Nobody
    tiny = tiny
    small = small
    medium = medium
    large = large
    huge = huge
INVARIANTS
    LeasesCounted
    WithinBudget
    CopiesBounded
PROPERTIES
    EvictsLeastRecent
SYMMETRY CacheSymmetry
CHECK_DEADLOCK FALSE
