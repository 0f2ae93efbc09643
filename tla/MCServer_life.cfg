SPECIFICATION FairSpec
CONSTANTS
    Requests = {r1, r2}
    Kinds <- MCKinds
    Bodies <- MCBodies
    Items <- MCItems
    Kind <- MCKind
    Bytes <- MCBytes
    UsedBy <- MCUsedBy
    Busy = {"app", "build"}
    Word = 64
INVARIANTS TypeOK GracefulIsComplete ReportedIsFreed NothingUnasked PromiseKept SizesAddUp
PROPERTIES SignalEndsProcess
CHECK_DEADLOCK FALSE
