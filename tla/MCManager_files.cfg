SPECIFICATION FairSpec
CONSTANTS
    Files = {f1, f2}
    Handlers = {h1}
    Ticker = ticker
    Objs = {o1, o2, o3, o4, o5, o6, o7, o8}
    NoObj = NoObj
    NoRow = NoRow
    Names = {n1, n2}
    ComposeName <- SameName
    DirName <- OtherName
    ConfigProtected = {}
    PatternProtected = {f1}
    Events = {"edit", "docker", "start", "stop", "force", "restart", "hide", "name", "protect", "list", "list_fails", "compose_fails", "name_fails", "prefs_fail", "no_store", "disconnect", "shutdown", "exit"}
    MaxEvents = 2
    MaxVersion = 2
INVARIANTS TypeOK NoSharing UnforcedWasUnprotected
PROPERTIES OnlyUserUnprotects ImplementsCatalogue ListFollowsFiles EventuallyInSync
CHECK_DEADLOCK FALSE
