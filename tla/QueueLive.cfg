SPECIFICATION FairSpec
CONSTANTS
    bsem = bsem
    tsem = tsem
    fence1 = fence1
    event1 = event1
    NoFence = NoFence
    NoEvent = NoEvent
    Nobody = Nobody
    Threads = {t1, t2}
    Binaries = {bsem}
    Timelines = {tsem}
    Fences = {fence1}
    Events = {}
    Buffers = {"work", "shared"}
    SubmitCalls <- LiveCalls
    SemaphoreWaits <- NoWaits
    FenceWaits <- LiveFenceWaits
    HostValues = {1}
    Expansion <- MCExpansion
    EventRefs <- MCEventRefs
    EventWaitRefs <- MCEventWaitRefs
    Secondaries <- MCSecondaries
    OneTime = {"work"}
    Simultaneous = {"shared"}
    MaxValue = 2
    MaxSerial = 3
    Failures = FALSE
PROPERTIES
    SubmitsReturn
    WaitersDriveTheQueue
CHECK_DEADLOCK FALSE
