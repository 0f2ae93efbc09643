SPECIFICATION FairSpec
CONSTANTS
    Containers = {c1}
    Projects = {q1}
    ProjectOf <- OneProject
    Streamer = streamer
    Handlers = {h1}
    None = None
    Word = 16
    MaxTime = 3
    MaxEvents = 3
INVARIANTS TypeOK InOrderIsExact
PROPERTIES RunningIsSampled
