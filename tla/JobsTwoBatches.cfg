\* One call submits two passes on one image, in two batches.
SPECIFICATION Spec
CONSTANTS
    Threads = {t1}
    colour = colour
    depth = depth
    Images = {colour, depth}
    L1 = L1
    L2 = L2
    Layouts = {L1, L2}
    Undefined = Undefined
    occlusion = occlusion
    Queries = {occlusion}
    Buffers <- TwoBuffers
    Recording <- TwoRecordings
    Calls <- TwoBatches
    MaxSerial = 2
    Nobody = Nobody
INVARIANTS
    SnapshotsHold
CHECK_DEADLOCK FALSE
