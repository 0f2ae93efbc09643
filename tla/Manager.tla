------------------------------ MODULE Manager ------------------------------
(***************************************************************************)
(* internal/project/manager.go over the scanner's cache, the preference    *)
(* store, the compose commands and the Docker daemon: what happens when    *)
(* the HTTP handlers and the periodic scanner run at the same time.        *)
(*                                                                         *)
(* A project is identified by its compose file.  A file has one container. *)
(* Go pointers are explicit: m.projects, the scanner's cache, a handler's  *)
(* local variable and a scan result may hold the same *model.Project, so   *)
(* these are addresses in Objs and heap says what is stored there.         *)
(***************************************************************************)
EXTENDS Integers, FiniteSets

CONSTANTS
    Files,            \* compose files, that is, projects
    Handlers,         \* goroutines serving HTTP requests
    Ticker,           \* the goroutine of the initial and the periodic scan
    Objs,             \* addresses of *model.Project objects
    NoObj,            \* the nil pointer
    NoRow,            \* a project the preference table does not have
    Names,            \* compose project names
    ComposeName,      \* the name docker compose resolves for a file
    DirName,          \* the base name of the directory of a file
    ConfigProtected,  \* files whose path the protection configuration matches
    PatternProtected, \* files whose container name or image matches a pattern
    Events,           \* the requests, environment changes and failures that occur
    MaxEvents,        \* bound: how many of them occur in a behaviour
    MaxVersion        \* bound: how often a file is edited

Procs == Handlers \cup {Ticker}
States == {"absent", "running", "exited", "paused"}
Pairs == Files \X (States \ {"absent"})
Row == [hidden : BOOLEAN, named : BOOLEAN]
Rows == Row \cup {NoRow}

\* protected, hidden, DisplayName is set, Containers, and the version of the
\* file the Services were read from.
Project == [prot : BOOLEAN, hidden : BOOLEAN, named : BOOLEAN,
            conts : SUBSET Pairs, services : 0..MaxVersion]

ASSUME NameAssumption == ComposeName \in [Files -> Names] /\ DirName \in [Files -> Names]
ASSUME ProcAssumption == Ticker \notin Handlers
ASSUME BoundAssumption == MaxEvents \in Nat /\ MaxVersion \in Nat \ {0}
ASSUME FileAssumption == Files # {}
ASSUME NilAssumption == NoObj \notin Objs /\ NoRow \notin Row

VARIABLES
    server,     \* "down", "boot" (initial scan), "serving" or "stopping"
    hasStore,   \* the preference store was opened
    file,       \* what is on disk: version, whether it parses, whether it is there
    docker,     \* the state of each file's container
    rows,       \* table project_preferences
    projects,   \* m.projects, NoObj for an ID that is not in the map
    cache,      \* s.cache: version and project
    heap,       \* the *model.Project objects
    frame,      \* the local state of each goroutine's current request
    events,     \* number of events so far
    seen,       \* history: the project was unprotected since the request came
    lapsed,     \* history: files unreadable at some moment of the scan
    readable    \* history: files readable at some moment of the scan

disk     == <<file, docker, rows>>
memory   == <<projects, cache, heap>>
history  == <<seen, lapsed, readable>>
vars == <<server, hasStore, disk, memory, frame, events, history>>

-----------------------------------------------------------------------------
(* Helpers. *)

\* A goroutine that is serving nothing.
IdleFrame == [pc |-> "idle", op |-> "none", file |-> CHOOSE f \in Files : TRUE,
              obj |-> NoObj, version |-> 0, todo |-> {},
              found |-> [f \in Files |-> NoObj],
              snap |-> [f \in Files |-> "absent"],
              prefs |-> [f \in Files |-> NoRow], cancelled |-> FALSE]

Busy(p) == frame[p].pc # "idle"
Return(p) == frame' = [frame EXCEPT ![p] = IdleFrame]

\* A project as the scanner makes it, before anything is known about it.
Blank == [prot |-> FALSE, hidden |-> FALSE, named |-> FALSE, conts |-> {}, services |-> 0]

\* An event the instance allows, within the bound.
Occurs(e) == e \in Events /\ events < MaxEvents /\ events' = events + 1

Listed(f) == projects[f] # NoObj
Readable(f) == file[f].present /\ file[f].valid
Protected(f) == heap[projects[f]].prot

\* The objects some variable refers to on behalf of a project.
Holders(f) ==
    {a \in Objs : \/ a = projects[f] \/ a = cache[f].obj
                  \/ \E p \in Procs : \/ a = frame[p].found[f]
                                      \/ a = frame[p].obj /\ frame[p].file = f}

\* Go reuses the address of an object only when nothing refers to it.
Live == UNION {Holders(f) : f \in Files}

\* GetContainersByComposeProject: the containers labelled with a name.
Group(snap, name) ==
    {<<f, snap[f]>> : f \in {g \in Files : ComposeName[g] = name /\ snap[g] # "absent"}}

\* GetComposeProjectName for some files: what compose resolves or, when the
\* command fails, the name of the directory.  The command fails on a file that
\* cannot be read, and on any other when it takes longer than five seconds.
NameOf(f) == IF Readable(f) THEN ComposeName[f] ELSE DirName[f]
MayBeNamed(name) ==
    /\ \A f \in DOMAIN name : name[f] \in {NameOf(f), DirName[f]}
    /\ IF \A f \in DOMAIN name : name[f] = NameOf(f)
       THEN UNCHANGED events ELSE Occurs("name_fails")

\* IsProtectedByPattern on the names and images of the containers.
MatchesPattern(conts) == \E c \in conts : c[1] \in PatternProtected

-----------------------------------------------------------------------------
(* The environment: disk, daemon, signals, crashes.  The process is         *)
(* started again by its supervisor.                                         *)

\* A compose file is edited, perhaps broken, or moved away or back.  Moving
\* keeps its contents and modification time.
FileChanges(f) ==
    /\ Occurs("edit")
    /\ \/ /\ file[f].version < MaxVersion
          /\ \E ok \in BOOLEAN :
                file' = [file EXCEPT ![f] =
                            [version |-> file[f].version + 1, valid |-> ok, present |-> TRUE]]
       \/ file' = [file EXCEPT ![f].present = ~@]
    /\ UNCHANGED <<server, hasStore, docker, rows, memory, frame>>

\* A container is started, stopped or removed behind the server's back.
ContainerChanges(f) ==
    /\ Occurs("docker")
    /\ \E s \in States \ {docker[f]} : docker' = [docker EXCEPT ![f] = s]
    /\ UNCHANGED <<server, hasStore, file, rows, memory, frame>>

\* SIGTERM: the context of the initial or periodic scan is cancelled, no new
\* request is accepted, those in progress are waited for.
Shutdown ==
    /\ server \in {"boot", "serving"} /\ Occurs("shutdown")
    /\ server' = "stopping"
    /\ frame' = IF Busy(Ticker) THEN [frame EXCEPT ![Ticker].cancelled = TRUE] ELSE frame
    /\ UNCHANGED <<hasStore, disk, memory>>

\* The client of a request goes away, which cancels the request's context.
Disconnect(p) ==
    /\ p # Ticker /\ Busy(p) /\ ~frame[p].cancelled /\ Occurs("disconnect")
    /\ frame' = [frame EXCEPT ![p].cancelled = TRUE]
    /\ UNCHANGED <<server, hasStore, disk, memory>>

\* The process ends, in order or not: memory is lost, the disk is not.
Exit ==
    /\ server # "down" /\ Occurs("exit")
    /\ server' = "down"
    /\ projects' = [f \in Files |-> NoObj]
    /\ cache' = [f \in Files |-> [version |-> 0, obj |-> NoObj]]
    /\ frame' = [p \in Procs |-> IdleFrame]
    /\ heap' = [a \in Objs |-> Blank]
    /\ UNCHANGED <<hasStore, disk>>

-----------------------------------------------------------------------------
(* Refresh: walk and parse, list the containers, read the preferences, then *)
(* replace the map under the lock.                                          *)

\* The frame of a Refresh that has walked the directories.
Walked == [IdleFrame EXCEPT !.pc = "parse", !.op = "refresh",
                            !.todo = {f \in Files : file[f].present}]

\* The server starts: the store is opened, or not, and a first scan is made
\* before anything is served.
Boot ==
    /\ server = "down"
    /\ server' = "boot"
    /\ hasStore' \in {TRUE} \cup (IF "no_store" \in Events THEN {FALSE} ELSE {})
    /\ frame' = [frame EXCEPT ![Ticker] = Walked]
    /\ UNCHANGED <<disk, memory, events>>

BootDone ==
    /\ server = "boot" /\ ~Busy(Ticker)
    /\ server' = "serving"
    /\ UNCHANGED <<hasStore, disk, memory, frame, events>>

\* GET /api/projects refreshes before it lists.
ListRequest(p) ==
    /\ server = "serving" /\ p # Ticker /\ ~Busy(p) /\ Occurs("list")
    /\ frame' = [frame EXCEPT ![p] = Walked]
    /\ UNCHANGED <<server, hasStore, disk, memory>>

Tick ==
    /\ server = "serving" /\ ~Busy(Ticker)
    /\ frame' = [frame EXCEPT ![Ticker] = Walked]
    /\ UNCHANGED <<server, hasStore, disk, memory, events>>

\* The loop over the files sees that the context was cancelled.
ScanCancelled(p) ==
    /\ frame[p].pc = "parse" /\ frame[p].todo # {} /\ frame[p].cancelled
    /\ Return(p)
    /\ UNCHANGED <<server, hasStore, disk, memory, events>>

\* The cached project of f was read from what is on disk now.
Unchanged(f) == cache[f].obj # NoObj /\ cache[f].version = file[f].version

\* Mutant: a file that is in the cache is not read again.
Lookup_NoChecksum(p, f) ==
    /\ frame[p].pc = "parse" /\ f \in frame[p].todo /\ ~frame[p].cancelled
    /\ \/ /\ ~file[f].present
          /\ frame' = [frame EXCEPT ![p].todo = @ \ {f}]
       \/ /\ file[f].present /\ cache[f].obj # NoObj
          /\ frame' = [frame EXCEPT ![p].todo = @ \ {f}, ![p].found[f] = cache[f].obj]
       \/ /\ file[f].present /\ cache[f].obj = NoObj
          /\ frame' = [frame EXCEPT ![p].todo = @ \ {f}, ![p].pc = "load", ![p].file = f,
                                    ![p].version = file[f].version]
    /\ UNCHANGED <<server, hasStore, disk, memory, events>>

\* Stat and checksum: the cached project is used if nothing changed.
Lookup(p, f) ==
    /\ frame[p].pc = "parse" /\ f \in frame[p].todo /\ ~frame[p].cancelled
    /\ \/ /\ ~file[f].present
          /\ frame' = [frame EXCEPT ![p].todo = @ \ {f}]
       \/ /\ file[f].present /\ Unchanged(f)
          /\ frame' = [frame EXCEPT ![p].todo = @ \ {f}, ![p].found[f] = cache[f].obj]
       \/ /\ file[f].present /\ ~Unchanged(f)
          /\ frame' = [frame EXCEPT ![p].todo = @ \ {f}, ![p].pc = "load", ![p].file = f,
                                    ![p].version = file[f].version]
    /\ UNCHANGED <<server, hasStore, disk, memory, events>>

\* LoadProject succeeds: a new project object.
Load(p) ==
    /\ frame[p].pc = "load" /\ Readable(frame[p].file)
    /\ Objs \ Live # {}
    /\ LET a == CHOOSE x \in Objs \ Live : TRUE IN
        /\ heap' = [heap EXCEPT ![a] =
              [Blank EXCEPT !.services = file[frame[p].file].version]]
        /\ frame' = [frame EXCEPT ![p].pc = "keep", ![p].obj = a]
    /\ UNCHANGED <<server, hasStore, disk, projects, cache, events>>

\* LoadProject fails, and the file is skipped: it is gone or not a valid
\* compose file, or the context was cancelled.
LoadFails(p) ==
    /\ frame[p].pc = "load" /\ (~Readable(frame[p].file) \/ frame[p].cancelled)
    /\ frame' = [frame EXCEPT ![p].pc = "parse"]
    /\ UNCHANGED <<server, hasStore, disk, memory, events>>

\* Mutant: the cache is keyed by the directory of the file.
Keep_ByDirectory(p) ==
    /\ frame[p].pc = "keep"
    /\ LET f == frame[p].file IN
        /\ cache' = [g \in Files |->
              IF DirName[g] = DirName[f]
              THEN [version |-> frame[p].version, obj |-> frame[p].obj] ELSE cache[g]]
        /\ frame' = [frame EXCEPT ![p].pc = "parse", ![p].obj = NoObj,
                                  ![p].found[f] = frame[p].obj]
    /\ UNCHANGED <<server, hasStore, disk, projects, heap, events>>

\* The new project goes into the cache with what Lookup saw.
Keep(p) ==
    /\ frame[p].pc = "keep"
    /\ LET f == frame[p].file IN
        /\ cache' = [cache EXCEPT ![f] = [version |-> frame[p].version, obj |-> frame[p].obj]]
        /\ frame' = [frame EXCEPT ![p].pc = "parse", ![p].obj = NoObj,
                                  ![p].found[f] = frame[p].obj]
    /\ UNCHANGED <<server, hasStore, disk, projects, heap, events>>

\* Mutant: a failed listing is treated as an empty one.
ListContainers_IgnoreError(p) ==
    /\ frame[p].pc = "parse" /\ frame[p].todo = {}
    /\ frame' = [frame EXCEPT ![p].pc = "prefs",
                              ![p].snap = IF frame[p].cancelled THEN @ ELSE docker]
    /\ UNCHANGED <<server, hasStore, disk, memory, events>>

ListContainers(p) ==
    /\ frame[p].pc = "parse" /\ frame[p].todo = {} /\ ~frame[p].cancelled
    /\ frame' = [frame EXCEPT ![p].pc = "prefs", ![p].snap = docker]
    /\ UNCHANGED <<server, hasStore, disk, memory, events>>

ListFails(p) ==
    /\ frame[p].pc = "parse" /\ frame[p].todo = {}
    /\ IF frame[p].cancelled THEN UNCHANGED events ELSE Occurs("list_fails")
    /\ Return(p)
    /\ UNCHANGED <<server, hasStore, disk, memory>>

\* GetAllPreferences; its error is ignored and what was read is used.
ReadPrefs(p) ==
    /\ frame[p].pc = "prefs"
    /\ \/ /\ frame' = [frame EXCEPT ![p].pc = "commit",
                                    ![p].prefs = IF hasStore THEN rows ELSE @]
          /\ UNCHANGED events
       \/ /\ hasStore /\ Occurs("prefs_fail")
          /\ \E part \in SUBSET Files :
                frame' = [frame EXCEPT ![p].pc = "commit",
                                       ![p].prefs = [f \in Files |->
                                            IF f \in part THEN rows[f] ELSE NoRow]]
    /\ UNCHANGED <<server, hasStore, disk, memory>>

\* Mutant: the protection of the project that is being replaced is not kept.
Merged_ForgetsProtection(p, f, name) ==
    LET new   == heap[frame[p].found[f]]
        pref  == frame[p].prefs[f]
        conts == Group(frame[p].snap, name)
    IN  [prot     |-> new.prot \/ f \in ConfigProtected \/ MatchesPattern(conts),
         hidden   |-> IF pref # NoRow THEN pref.hidden ELSE new.hidden,
         named    |-> IF pref # NoRow THEN pref.named ELSE new.named,
         conts    |-> conts,
         services |-> new.services]

\* Mutant: the containers are left alone when none is listed any more.
Merged_KeepsContainers(p, f, name) ==
    LET new   == heap[frame[p].found[f]]
        base  == IF Listed(f) THEN Protected(f) ELSE new.prot
        pref  == frame[p].prefs[f]
        conts == LET now == Group(frame[p].snap, name) IN IF now = {} THEN new.conts ELSE now
    IN  [prot     |-> base \/ f \in ConfigProtected \/ MatchesPattern(conts),
         hidden   |-> IF pref # NoRow THEN pref.hidden ELSE new.hidden,
         named    |-> IF pref # NoRow THEN pref.named ELSE new.named,
         conts    |-> conts,
         services |-> new.services]

\* Mutant: applyProtection comes before the containers.
Merged_ProtectsFirst(p, f, name) ==
    LET new   == heap[frame[p].found[f]]
        base  == IF Listed(f) THEN Protected(f) ELSE new.prot
        pref  == frame[p].prefs[f]
    IN  [prot     |-> base \/ f \in ConfigProtected \/ MatchesPattern(new.conts),
         hidden   |-> IF pref # NoRow THEN pref.hidden ELSE new.hidden,
         named    |-> IF pref # NoRow THEN pref.named ELSE new.named,
         conts    |-> Group(frame[p].snap, name),
         services |-> new.services]

\* What Refresh makes of the project found for f: the protection of the one
\* in the map, the stored preferences, the containers, then applyProtection.
Merged(p, f, name) ==
    LET new   == heap[frame[p].found[f]]
        base  == IF Listed(f) THEN Protected(f) ELSE new.prot
        pref  == frame[p].prefs[f]
        conts == Group(frame[p].snap, name)
    IN  [prot     |-> base \/ f \in ConfigProtected \/ MatchesPattern(conts),
         hidden   |-> IF pref # NoRow THEN pref.hidden ELSE new.hidden,
         named    |-> IF pref # NoRow THEN pref.named ELSE new.named,
         conts    |-> conts,
         services |-> new.services]

Commit(p) ==
    /\ frame[p].pc = "commit"
    /\ \E name \in [Files -> Names] :
        /\ MayBeNamed(name)
        /\ heap' = [a \in Objs |->
              IF \E f \in Files : frame[p].found[f] = a
              THEN LET f == CHOOSE g \in Files : frame[p].found[g] = a IN Merged(p, f, name[f])
              ELSE heap[a]]
    /\ projects' = frame[p].found
    /\ Return(p)
    /\ UNCHANGED <<server, hasStore, disk, cache>>

-----------------------------------------------------------------------------
(* StartProject, StopProject, RestartProject: look the project up, check    *)
(* its protection, run docker compose, then refreshProject.  The project    *)
(* is not locked between these steps.                                       *)

Requests == {"start", "stop", "force", "restart"}

\* Mutant: the project is not looked up before it is used.
Request_NoLookup(p, op, f) ==
    /\ server = "serving" /\ p # Ticker /\ ~Busy(p) /\ Occurs(op)
    /\ frame' = [frame EXCEPT
          ![p].pc = IF op \in {"stop", "restart"} THEN "check" ELSE "exec",
          ![p].op = op, ![p].file = f, ![p].obj = projects[f]]
    /\ UNCHANGED <<server, hasStore, disk, memory>>

Request(p, op, f) ==
    /\ server = "serving" /\ p # Ticker /\ ~Busy(p) /\ Occurs(op)
    /\ Listed(f)
    /\ frame' = [frame EXCEPT
          ![p].pc = IF op \in {"stop", "restart"} THEN "check" ELSE "exec",
          ![p].op = op, ![p].file = f, ![p].obj = projects[f]]
    /\ UNCHANGED <<server, hasStore, disk, memory>>

\* Mutant: restarting is allowed for a protected project.
Check_StopOnly(p) ==
    /\ frame[p].pc = "check"
    /\ IF heap[frame[p].obj].prot /\ frame[p].op = "stop"
       THEN Return(p) ELSE frame' = [frame EXCEPT ![p].pc = "exec"]
    /\ UNCHANGED <<server, hasStore, disk, memory, events>>

\* An unforced stop and a restart refuse a protected project.
Check(p) ==
    /\ frame[p].pc = "check"
    /\ IF heap[frame[p].obj].prot
       THEN Return(p) ELSE frame' = [frame EXCEPT ![p].pc = "exec"]
    /\ UNCHANGED <<server, hasStore, disk, memory, events>>

\* docker compose up -d --remove-orphans: whatever else runs under the same
\* compose project name is an orphan.
ComposeUp(f) ==
    [g \in Files |-> IF g = f THEN "running"
                     ELSE IF ComposeName[g] = ComposeName[f] THEN "absent"
                     ELSE docker[g]]

ComposeDown(f) == [docker EXCEPT ![f] = "absent"]

ComposeRestart(f) == [docker EXCEPT ![f] = IF @ = "absent" THEN @ ELSE "running"]

Command(p) ==
    CASE frame[p].op = "start" -> ComposeUp(frame[p].file)
      [] frame[p].op \in {"stop", "force"} -> ComposeDown(frame[p].file)
      [] OTHER -> ComposeRestart(frame[p].file)

Exec(p) ==
    /\ frame[p].pc = "exec" /\ Readable(frame[p].file) /\ ~frame[p].cancelled
    /\ docker' = Command(p)
    /\ frame' = [frame EXCEPT ![p].pc = "relist"]
    /\ UNCHANGED <<server, hasStore, file, rows, memory, events>>

\* The command fails, or is killed with the request, after any part of its
\* work; the containers in the map are left as they were.
ExecFails(p) ==
    /\ frame[p].pc = "exec"
    /\ IF frame[p].cancelled \/ ~Readable(frame[p].file)
       THEN UNCHANGED events ELSE Occurs("compose_fails")
    /\ IF Readable(frame[p].file)
       THEN \E done \in SUBSET Files :
                docker' = [f \in Files |-> IF f \in done THEN Command(p)[f] ELSE docker[f]]
       ELSE UNCHANGED docker
    /\ Return(p)
    /\ UNCHANGED <<server, hasStore, file, rows, memory>>

\* refreshProject: list the containers, then update the project in the map.
Relist(p) ==
    /\ frame[p].pc = "relist"
    /\ \/ /\ ~frame[p].cancelled
          /\ frame' = [frame EXCEPT ![p].pc = "install", ![p].snap = docker]
          /\ UNCHANGED events
       \/ /\ IF frame[p].cancelled THEN UNCHANGED events ELSE Occurs("list_fails")
          /\ Return(p)
    /\ UNCHANGED <<server, hasStore, disk, memory>>

Install(p) ==
    /\ frame[p].pc = "install"
    /\ LET f == frame[p].file IN
        IF Listed(f)
        THEN \E name \in [{f} -> Names] :
                /\ MayBeNamed(name)
                /\ heap' = [heap EXCEPT ![projects[f]].conts = Group(frame[p].snap, name[f])]
        ELSE UNCHANGED <<heap, events>>
    /\ Return(p)
    /\ UNCHANGED <<server, hasStore, disk, projects, cache>>

-----------------------------------------------------------------------------
(* SetProjectProtection, SetProjectHidden, SetProjectDisplayName: one       *)
(* critical section each, in which a failing write to the store changes     *)
(* nothing.  A row that is not there is inserted with the other column at   *)
(* its default.                                                             *)

SetProtection(f, protected) ==
    /\ server \in {"serving", "stopping"} /\ Listed(f) /\ Occurs("protect")
    /\ heap' = [heap EXCEPT ![projects[f]].prot = protected]
    /\ UNCHANGED <<server, hasStore, disk, projects, cache, frame>>

Upsert(f) == IF rows[f] = NoRow THEN [hidden |-> FALSE, named |-> FALSE] ELSE rows[f]

SetHidden(f, hidden) ==
    /\ server \in {"serving", "stopping"} /\ Listed(f) /\ Occurs("hide")
    /\ rows' = IF hasStore THEN [rows EXCEPT ![f] = [Upsert(f) EXCEPT !.hidden = hidden]]
               ELSE rows
    /\ heap' = [heap EXCEPT ![projects[f]].hidden = hidden]
    /\ UNCHANGED <<server, hasStore, file, docker, projects, cache, frame>>

SetDisplayName(f, named) ==
    /\ server \in {"serving", "stopping"} /\ Listed(f) /\ Occurs("name")
    /\ rows' = IF hasStore THEN [rows EXCEPT ![f] = [Upsert(f) EXCEPT !.named = named]]
               ELSE rows
    /\ heap' = [heap EXCEPT ![projects[f]].named = named]
    /\ UNCHANGED <<server, hasStore, file, docker, projects, cache, frame>>

-----------------------------------------------------------------------------

Init ==
    /\ server = "down" /\ hasStore = TRUE /\ events = 0
    /\ file = [f \in Files |-> [version |-> 1, valid |-> TRUE, present |-> TRUE]]
    /\ docker \in [Files -> {"absent", "running"}]
    /\ rows = [f \in Files |-> NoRow]
    /\ projects = [f \in Files |-> NoObj]
    /\ cache = [f \in Files |-> [version |-> 0, obj |-> NoObj]]
    /\ heap = [a \in Objs |-> Blank]
    /\ frame = [p \in Procs |-> IdleFrame]
    /\ seen = [p \in Procs |-> FALSE]
    /\ lapsed = [p \in Procs |-> {}] /\ readable = [p \in Procs |-> {}]

\* The history variables, for the properties only: what was true at some
\* moment since a request or a scan began.
Scanning(p) == frame[p].op = "refresh"
Guarded(p) == frame[p].pc \in {"check", "exec"} /\ frame[p].op \in {"stop", "restart"}
Unprotected(f) == Listed(f) /\ ~Protected(f)

Observe ==
    /\ seen' = [p \in Procs |-> Guarded(p)' /\ (seen[p] \/ Unprotected(frame[p].file)')]
    /\ lapsed' = [p \in Procs |->
          IF Scanning(p)' THEN lapsed[p] \cup {f \in Files : ~Readable(f)'} ELSE {}]
    /\ readable' = [p \in Procs |->
          IF Scanning(p)' THEN readable[p] \cup {f \in Files : Readable(f)'} ELSE {}]

Step(p) ==
    \/ ScanCancelled(p) \/ \E f \in Files : Lookup(p, f)
    \/ Load(p) \/ LoadFails(p) \/ Keep(p)
    \/ ListContainers(p) \/ ListFails(p) \/ ReadPrefs(p) \/ Commit(p)
    \/ Check(p) \/ Exec(p) \/ ExecFails(p) \/ Relist(p) \/ Install(p)

Environment ==
    \/ \E f \in Files : FileChanges(f) \/ ContainerChanges(f)
    \/ \E p \in Procs : Disconnect(p)
    \/ Shutdown \/ Exit

Incoming ==
    \/ \E p \in Procs : ListRequest(p) \/ \E op \in Requests, f \in Files : Request(p, op, f)
    \/ \E f \in Files, b \in BOOLEAN :
        SetProtection(f, b) \/ SetHidden(f, b) \/ SetDisplayName(f, b)

Next ==
    /\ \/ Boot \/ BootDone \/ Tick
       \/ \E p \in Procs : Step(p)
       \/ Environment \/ Incoming
    /\ Observe

Spec == Init /\ [][Next]_vars

\* Every goroutine that has something to do does it, the ticker keeps
\* ticking, and the supervisor starts the process again.
Fairness ==
    /\ WF_vars((Boot \/ BootDone \/ Tick) /\ Observe)
    /\ \A p \in Procs : WF_vars(Step(p) /\ Observe)

FairSpec == Spec /\ Fairness

-----------------------------------------------------------------------------
(* Properties. *)

Frame == [pc : {"idle", "parse", "load", "keep", "prefs", "commit",
                "check", "exec", "relist", "install"},
          op : {"none", "refresh"} \cup Requests,
          file : Files, obj : Objs \cup {NoObj}, version : 0..MaxVersion,
          todo : SUBSET Files, found : [Files -> Objs \cup {NoObj}],
          snap : [Files -> States], prefs : [Files -> Rows], cancelled : BOOLEAN]

\* The variables have their types; a handler that goes on to check a project
\* or to run a command for it has found it.
TypeOK ==
    /\ server \in {"down", "boot", "serving", "stopping"} /\ hasStore \in BOOLEAN
    /\ file \in [Files -> [version : 1..MaxVersion, valid : BOOLEAN, present : BOOLEAN]]
    /\ docker \in [Files -> States] /\ rows \in [Files -> Rows]
    /\ projects \in [Files -> Objs \cup {NoObj}]
    /\ cache \in [Files -> [version : 0..MaxVersion, obj : Objs \cup {NoObj}]]
    /\ heap \in [Objs -> Project]
    /\ frame \in [Procs -> Frame] /\ events \in 0..MaxEvents
    /\ seen \in [Procs -> BOOLEAN]
    /\ lapsed \in [Procs -> SUBSET Files] /\ readable \in [Procs -> SUBSET Files]
    /\ \A p \in Procs :
        frame[p].pc \in {"keep", "check", "exec", "relist", "install"} => frame[p].obj # NoObj

\* Two projects never share an object, whichever variables refer to it: the
\* cache, two scans and a handler share pointers, but only within a project.
NoSharing == \A f, g \in Files : f # g => Holders(f) \cap Holders(g) = {}

\* A project that stays in the map loses its protection only because a user
\* takes it away: no scan, concurrent scan, edit or compose command does it,
\* although every scan may replace the object.
OnlyUserUnprotects ==
    [][\A f \in Files :
          Listed(f) /\ Protected(f) /\ Unprotected(f)' => SetProtection(f, FALSE)]_vars

\* What the users of the map see.
Shown == [f \in {g \in Files : Listed(g)} |-> heap[projects[f]]]
Entries == INSTANCE Catalogue WITH
    Entry     <- Project,
    Container <- Pairs,
    Infra     <- {c \in Pairs : c[1] \in PatternProtected},
    Always    <- ConfigProtected,
    entry     <- Shown

\* Manager implements Catalogue: although objects are shared by pointer, are
\* replaced by scans that overlap, and are written to from everywhere, a step
\* changes one field of one project, or is a refresh, after which a project is
\* protected if it was, if it is by configuration, or if its containers are
\* infrastructure.
ImplementsCatalogue == Entries!Spec

\* An unforced stop, or a restart, goes ahead only if at some moment since
\* the request came the project was in the map and unprotected.
UnforcedWasUnprotected ==
    \A p \in Procs : frame[p].pc = "exec" /\ frame[p].op \in {"stop", "restart"} => seen[p]

\* A project leaves the map only because its file was unreadable at some
\* moment of a scan, never because a scan was cut short or the daemon failed;
\* it enters the map only because its file was readable.
ListFollowsFiles ==
    [][\A f \in Files :
        /\ Listed(f) /\ ~Listed(f)' => server' = "down" \/ \E p \in Procs : f \in lapsed[p]
        /\ ~Listed(f) /\ Listed(f)' => \E p \in Procs : f \in readable[p]]_vars

\* What the server shows about f is what is on disk and in the daemon.
InSync(f) ==
    /\ Listed(f) <=> Readable(f)
    /\ Listed(f) =>
        LET shown == heap[projects[f]] IN
        /\ shown.services = file[f].version
        /\ shown.conts = Group(docker, ComposeName[f])
        /\ hasStore /\ rows[f] # NoRow =>
              shown.hidden = rows[f].hidden /\ shown.named = rows[f].named
        /\ f \in ConfigProtected \/ MatchesPattern(shown.conts) => shown.prot

\* Once the disk, the daemon and the users are quiet, the periodic scan
\* brings every project up to date and keeps it so, whatever stale snapshot
\* an earlier request installed, unless the server is stopped.
EventuallyInSync == <>[](server = "stopping" \/ \A f \in Files : InSync(f))

\* StopProject "returns error if project is protected": no unforced stop
\* changes the containers of a project that is protected.
ProtectedIsNotStopped ==
    [][\A p \in Procs : frame[p].pc = "exec" /\ frame[p].op = "stop" /\ docker' # docker
            /\ frame'[p] # frame[p] =>
          ~(Listed(frame[p].file) /\ Protected(frame[p].file))]_vars
=============================================================================
