SPECIFICATION Spec
CONSTANTS
    bsem = bsem
    tsem = tsem
    fence1 = fence1
    event1 = event1
    NoFence = NoFence
    NoEvent = NoEvent
    Nobody = Nobody
    Threads = {t1, t2}
    Binaries = {}
    Timelines = {tsem}
    Fences = {}
    Events = {event1}
    Buffers = {"work", "copies", "sets", "waits", "indirect", "child", "parent"}
    SubmitCalls <- EventCalls
    SemaphoreWaits <- NoWaits
    FenceWaits <- NoWaits
    HostValues = {1}
    Expansion <- MCExpansion
    EventRefs <- MCEventRefs
    EventWaitRefs <- MCEventWaitRefs
    Secondaries <- MCSecondaries
    OneTime = {"copies"}
    Simultaneous = {"parent", "child", "indirect"}
    MaxValue = 2
    MaxSerial = 9
    Failures = FALSE
INVARIANTS
    PinsMatchQueue
    PreparedInTime
    BackendContract
    NothingStalls
SYMMETRY ThreadSymmetry
CHECK_DEADLOCK FALSE
