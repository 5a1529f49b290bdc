SPECIFICATION Spec
CONSTANTS
    Primary = Primary
    Plain = Plain
    Continuation = Continuation
    OutsideKinds = {"wait", "dispatch", "dispatchIndirect"}
    MaxRecorded = 5
    MaxChild = 1
INVARIANTS
    EveryOperationOnce
    RecordedOrderKept
    FrontendStandsAlone
    IndirectIsDeferred
    ParentOutlivesChildren
    InlinePassIsWhole
CHECK_DEADLOCK FALSE
