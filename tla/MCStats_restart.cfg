SPECIFICATION Spec
CONSTANTS
    Containers = {c1}
    Projects = {q1}
    ProjectOf <- OneProject
    Streamer = streamer
    Handlers = {}
    None = None
    Word = 16
    MaxTime = 3
    MaxEvents = 2
INVARIANTS WithinCapacity
