SPECIFICATION Spec
CONSTANTS
    Primary = Primary
    Plain = Plain
    Continuation = Continuation
    OutsideKinds = {"wait", "dispatch", "dispatchIndirect"}
    MaxRecorded = 4
    MaxChild = 1
INVARIANTS
    NamingPassIsWhole
CHECK_DEADLOCK FALSE
