SPECIFICATION Spec
CONSTANTS
    bsem = bsem
    tsem = tsem
    fence1 = fence1
    event1 = event1
    NoFence = NoFence
    NoEvent = NoEvent
    Nobody = Nobody
    Threads = {t1, t2}
    Binaries = {bsem}
    Timelines = {tsem}
    Fences = {fence1}
    Events = {}
    Buffers = {"work", "shared", "copies"}
    SubmitCalls <- FaultCalls
    SemaphoreWaits <- SyncSemaphoreWaits
    FenceWaits <- SyncFenceWaits
    HostValues = {1}
    Expansion <- MCExpansion
    EventRefs <- MCEventRefs
    EventWaitRefs <- MCEventWaitRefs
    Secondaries <- MCSecondaries
    OneTime = {"copies"}
    Simultaneous = {"shared"}
    MaxValue = 2
    MaxSerial = 4
    Failures = TRUE
INVARIANTS
    BackendContract
PROPERTIES
    ImplementsPromise
    LostPublishesNothing
SYMMETRY ThreadSymmetry
CHECK_DEADLOCK FALSE
