SPECIFICATION Spec
CONSTANTS
    Keys <- MCKeys
    Underscored = {"scan_interval"}
    Default <- MCDefault
    Unset = Unset
    Absent = Absent
    Malformed = Malformed
    Dirs <- MCDirs
    Files <- MCFiles
    Parent <- MCParent
    Name <- MCName
    Hidden = {".docker", ".old"}
    Exempt = {".docker"}
    YAML <- MCFiles
    BuiltIn = {"vendor"}
    Sources <- MCSources
    Scans = {s1, s2}
    Stderr = stderr
    Closed = closed
    Nil = nil
    MaxEvents = 1
SYMMETRY ScanSymmetry
INVARIANTS StderrComesBack
CHECK_DEADLOCK FALSE
