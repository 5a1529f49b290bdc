CONSTANTS
    m1 = m1  b1 = b1  i1 = i1  v1 = v1  t1 = t1  f1 = f1
    x1 = x1  s1 = s1  p1 = p1  c1 = c1
    Memories = {m1}
    Buffers = {b1}
    Images = {i1}
    TexelViews = {t1}
    ImageViews = {v1}
    Framebuffers = {f1}
    Plain = {x1}
    Sets = {s1}
    Primaries = {p1}
    Secondaries = {c1}
    CommandPools = {"primary", "secondary"}
    CommandPool <- PoolOfLevel
    Bindable = {s1}
    Usages <- UsagesOfLevel
    Commands <- Menu
    MaxRecorded = 1
    MaxGeneration = 3
    MaxQueued = 3
SPECIFICATION Spec
INVARIANTS
    GpuTouchesLive
    RecordingsNameLive
    SetsAsRecorded
    ChildrenAsRecorded
    PinsAreQueued
