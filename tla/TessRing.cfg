\* Two devices meet at the registers in every step of a launch and of a
\* completion; two pipelines let one be destroyed while a job uses the other.
SPECIFICATION Spec
CONSTANTS
    Devices = {d1, d2}
    System = System
    Nobody = Nobody
    MaxPipelines = 2
INVARIANTS
    GpuFindsItsRings
    GivenBackAsFound
CHECK_DEADLOCK FALSE
