\* Two threads, two images and a query; three jobs are handed a serial.
SPECIFICATION FairSpec
CONSTANTS
    Threads = {t1, t2}
    colour = colour
    depth = depth
    Images = {colour, depth}
    L1 = L1
    L2 = L2
    Layouts = {L1, L2}
    Undefined = Undefined
    occlusion = occlusion
    Queries = {occlusion}
    Buffers <- MCBuffers
    Recording <- MCRecording
    Calls <- MCCalls
    MaxSerial = 4
    Nobody = Nobody
INVARIANTS
    SnapshotsHold
    ResetNotOvertaken
    CommandsOutliveGpu
PROPERTIES
    ResultsWaitEnds
CHECK_DEADLOCK FALSE
