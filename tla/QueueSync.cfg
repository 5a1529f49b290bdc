SPECIFICATION Spec
CONSTANTS
    bsem = bsem
    tsem = tsem
    fence1 = fence1
    event1 = event1
    NoFence = NoFence
    NoEvent = NoEvent
    Nobody = Nobody
    Threads = {t1, t2}
    Binaries = {bsem}
    Timelines = {tsem}
    Fences = {fence1}
    Events = {}
    Buffers = {"work", "shared"}
    SubmitCalls <- SyncCalls
    SemaphoreWaits <- SyncSemaphoreWaits
    FenceWaits <- SyncFenceWaits
    HostValues = {1, 2, 4}
    Expansion <- MCExpansion
    EventRefs <- MCEventRefs
    EventWaitRefs <- MCEventWaitRefs
    Secondaries <- MCSecondaries
    OneTime = {"work"}
    Simultaneous = {"shared"}
    MaxValue = 4
    MaxSerial = 5
    Failures = FALSE
INVARIANTS
    TypeOK
    SignalsAhead
    BinariesReplay
    SerialsInOrder
    FencesMatchQueue
PROPERTIES
    ImplementsPromise
    PayloadsOnlyGrow
SYMMETRY ThreadSymmetry
CHECK_DEADLOCK FALSE
