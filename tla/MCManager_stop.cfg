SPECIFICATION Spec
CONSTANTS
    Files = {f1}
    Handlers = {h1}
    Ticker = ticker
    Objs = {o1, o2, o3, o4, o5, o6}
    NoObj = NoObj
    NoRow = NoRow
    Names = {n1}
    ComposeName <- SameName
    DirName <- SameName
    ConfigProtected = {}
    PatternProtected = {}
    Events = {"stop", "protect"}
    MaxEvents = 2
    MaxVersion = 2
PROPERTIES ProtectedIsNotStopped
CHECK_DEADLOCK FALSE
