------------------------------- MODULE Stats -------------------------------
(***************************************************************************)
(* internal/docker/stats.go: how CPU percentages come from the cumulative  *)
(* counters of the Docker daemon, when several goroutines sample the same  *)
(* containers and the containers are stopped, started and removed.         *)
(*                                                                         *)
(* A container is an element of Containers; one that is created again has  *)
(* another ID and is another element.  Callers are the goroutines that     *)
(* call GetStats: the streamer, for everything it streams, and the HTTP    *)
(* handlers, for one project.                                              *)
(***************************************************************************)
EXTENDS Integers

CONSTANTS
    Containers,
    Projects,
    ProjectOf,   \* the project a container belongs to
    Streamer,    \* the goroutine of StartStatsStreamer
    Handlers,    \* goroutines serving GET /api/projects/{id}/stats
    None,        \* no reading
    Word,        \* counters are unsigned words: 2^64 in the code
    MaxTime,     \* bound: how far the host's CPU clock goes
    MaxEvents    \* bound: containers started, stopped, removed; calls that fail

Callers == Handlers \cup {Streamer}
States == {"running", "exited", "removed"}

ASSUME StatsAssumption ==
    /\ ProjectOf \in [Containers -> Projects]
    /\ Streamer \notin Handlers
    /\ MaxTime \in Nat /\ MaxEvents \in Nat
    /\ Word \in Nat /\ 1 < Word /\ MaxTime < Word

VARIABLES
    state,    \* what the daemon does with each container
    usage,    \* CPU time a container has used since it was last started
    clock,    \* CPU time of the host, idle or not, since it was booted
    life,     \* how often a container was started
    shown,    \* containers the project manager's map shows as running
    watched,  \* the hub has a client
    prev,     \* s.prevStats
    call,     \* the local state of each caller
    events

vars == <<state, usage, clock, life, shown, watched, prev, call, events>>
daemon == <<state, usage, clock, life>>

\* A reading has the counters of the response and, for the properties only,
\* whether the container was running, in which of its lives, and when.
Reading == [cpu : 0..(Word - 1), system : 0..(Word - 1),
            live : BOOLEAN, life : Nat, at : 0..MaxTime]

\* A percentage is the quotient of two deltas, times 100 for every CPU; a
\* report is kept with the readings it was computed from.
Report == [busy : 0..(Word - 1), of : 0..(Word - 1),
           from : Reading \cup {None}, to : Reading \cup {None}]

Idle == [pc |-> "idle", projects |-> {}, todo |-> {}, ctr |-> None, reading |-> None,
         report |-> None]

Init ==
    /\ state = [c \in Containers |-> "running"]
    /\ usage = [c \in Containers |-> 0]
    /\ clock = 0
    /\ life = [c \in Containers |-> 0]
    /\ shown = Containers
    /\ watched = FALSE
    /\ prev = [c \in Containers |-> None]
    /\ call = [p \in Callers |-> Idle]
    /\ events = 0

-----------------------------------------------------------------------------
(* The daemon and the host. *)

Occurs == events < MaxEvents /\ events' = events + 1

\* Time goes by: a running container uses any part of it.
Pass ==
    /\ clock < MaxTime
    /\ \E d \in 1..(MaxTime - clock) :
        /\ clock' = clock + d
        /\ usage' \in [Containers -> 0..clock']
        /\ \A c \in Containers :
              usage'[c] - usage[c] \in IF state[c] = "running" THEN 0..d ELSE {0}
    /\ UNCHANGED <<state, life, shown, watched, prev, call, events>>

Stop(c) ==
    /\ state[c] = "running" /\ Occurs
    /\ state' = [state EXCEPT ![c] = "exited"]
    /\ UNCHANGED <<usage, clock, life, shown, watched, prev, call>>

\* A container that is started again counts from zero.
Start(c) ==
    /\ state[c] = "exited" /\ Occurs
    /\ state' = [state EXCEPT ![c] = "running"]
    /\ usage' = [usage EXCEPT ![c] = 0]
    /\ life' = [life EXCEPT ![c] = @ + 1]
    /\ UNCHANGED <<clock, shown, watched, prev, call>>

Remove(c) ==
    /\ state[c] = "exited" /\ Occurs
    /\ state' = [state EXCEPT ![c] = "removed"]
    /\ UNCHANGED <<usage, clock, life, shown, watched, prev, call>>

\* Mutant: containers disappear from the map, but do not come back.
Refresh_OnlyRemoves ==
    /\ shown' = {c \in shown : state[c] = "running"}
    /\ UNCHANGED <<daemon, watched, prev, call, events>>

\* Refresh: the project manager lists the containers again.
Refresh ==
    /\ shown' = {c \in Containers : state[c] = "running"}
    /\ UNCHANGED <<daemon, watched, prev, call, events>>

-----------------------------------------------------------------------------
(* The hub: its first client connects, or its last one leaves. *)

Audience ==
    /\ watched' = ~watched
    /\ UNCHANGED <<daemon, shown, prev, call, events>>

-----------------------------------------------------------------------------
(* Callers: which containers they ask about. *)

\* determineProjectStatus, as far as the streamer tells projects apart: one
\* that has a running container is running or partial.
Streamed == {q \in Projects : \E c \in Containers : ProjectOf[c] = q /\ c \in shown}

\* The streamer's ticker, with a client to stream to, and createStatsGetter: a
\* round over the running and partial projects.  A tick without one is skipped.
Round ==
    /\ call[Streamer].pc = "idle" /\ watched
    /\ call' = [call EXCEPT ![Streamer].pc = "next", ![Streamer].projects = Streamed]
    /\ UNCHANGED <<daemon, shown, watched, prev, events>>

Request(p, q) ==
    /\ p # Streamer /\ call[p].pc = "idle"
    /\ call' = [call EXCEPT ![p].pc = "next", ![p].projects = {q}]
    /\ UNCHANGED <<daemon, shown, watched, prev, events>>

\* GetProjectStats: the containers of one project that the map shows running.
NextProject(p, q) ==
    /\ call[p].pc = "next" /\ call[p].todo = {} /\ q \in call[p].projects
    /\ call' = [call EXCEPT ![p].projects = @ \ {q},
                            ![p].todo = {c \in shown : ProjectOf[c] = q}]
    /\ UNCHANGED <<daemon, shown, watched, prev, events>>

Finish(p) ==
    /\ call[p].pc = "next" /\ call[p].todo = {} /\ call[p].projects = {}
    /\ call' = [call EXCEPT ![p] = Idle]
    /\ UNCHANGED <<daemon, shown, watched, prev, events>>

-----------------------------------------------------------------------------
(* GetStats: ask the daemon, then swap the stored reading under the lock.   *)

\* The daemon answers for a container that is not running with zeros.
Counters(c) ==
    [cpu |-> IF state[c] = "running" THEN usage[c] ELSE 0,
     system |-> IF state[c] = "running" THEN clock ELSE 0,
     live |-> state[c] = "running", life |-> life[c], at |-> clock]

Ask(p, c) ==
    /\ call[p].pc = "next" /\ c \in call[p].todo
    /\ state[c] # "removed"
    /\ call' = [call EXCEPT ![p].pc = "answered", ![p].todo = @ \ {c},
                            ![p].ctr = c, ![p].reading = Counters(c)]
    /\ UNCHANGED <<daemon, shown, watched, prev, events>>

\* Mutant: an error of the daemon is not noticed.
AskFails_Unnoticed(p, c) ==
    /\ call[p].pc = "next" /\ c \in call[p].todo
    /\ IF state[c] = "removed" THEN UNCHANGED events ELSE Occurs
    /\ call' = [call EXCEPT ![p].pc = "answered", ![p].todo = @ \ {c}, ![p].ctr = c]
    /\ UNCHANGED <<daemon, shown, watched, prev>>

\* The container is skipped: it is gone, or the daemon fails.
AskFails(p, c) ==
    /\ call[p].pc = "next" /\ c \in call[p].todo
    /\ IF state[c] = "removed" THEN UNCHANGED events ELSE Occurs
    /\ call' = [call EXCEPT ![p].todo = @ \ {c}]
    /\ UNCHANGED <<daemon, shown, watched, prev>>

\* Unsigned subtraction.
Minus(a, b) == IF a >= b THEN a - b ELSE a - b + Word

\* Mutant: the host's clock is not taken relative to the earlier reading.
CPUPercent_SinceBoot(old, new) ==
    LET cpuDelta    == IF old = None THEN 0 ELSE Minus(new.cpu, old.cpu)
        systemDelta == IF old = None THEN 0 ELSE new.system
        known       == cpuDelta > 0 /\ systemDelta > 0
    IN  [busy |-> IF known THEN cpuDelta ELSE 0, of |-> IF known THEN systemDelta ELSE 1,
         from |-> old, to |-> new]

\* calculateCPUPercent: nothing without an earlier reading, and nothing when
\* one of the counters has not moved.
CPUPercent(old, new) ==
    LET cpuDelta    == IF old = None THEN 0 ELSE Minus(new.cpu, old.cpu)
        systemDelta == IF old = None THEN 0 ELSE Minus(new.system, old.system)
        known       == cpuDelta > 0 /\ systemDelta > 0
    IN  [busy |-> IF known THEN cpuDelta ELSE 0, of |-> IF known THEN systemDelta ELSE 1,
         from |-> old, to |-> new]

Swap(p) ==
    /\ call[p].pc = "answered"
    /\ LET c == call[p].ctr IN
        /\ prev' = [prev EXCEPT ![c] = call[p].reading]
        /\ call' = [call EXCEPT ![p].pc = "next",
                                ![p].report = CPUPercent(prev[c], call[p].reading)]
    /\ UNCHANGED <<daemon, shown, watched, events>>

-----------------------------------------------------------------------------

Daemon == Pass \/ Refresh \/ \E c \in Containers : Stop(c) \/ Start(c) \/ Remove(c)

Step(p) ==
    \/ \E q \in Projects : NextProject(p, q)
    \/ \E c \in Containers : Ask(p, c) \/ AskFails(p, c)
    \/ Swap(p) \/ Finish(p)

Next ==
    \/ Daemon \/ Audience \/ Round
    \/ \E p \in Callers : Step(p) \/ \E q \in Projects : Request(p, q)

Spec == Init /\ [][Next]_vars

\* The ticker of the streamer and that of the periodic scan keep firing, and
\* the daemon answers or fails.
FairSpec == Spec /\ WF_vars(Refresh) /\ WF_vars(Round \/ Step(Streamer))

-----------------------------------------------------------------------------
(* Properties. *)

TypeOK ==
    /\ state \in [Containers -> States]
    /\ usage \in [Containers -> 0..MaxTime] /\ clock \in 0..MaxTime
    /\ life \in [Containers -> Nat] /\ events \in 0..MaxEvents
    /\ shown \in SUBSET Containers /\ watched \in BOOLEAN
    /\ prev \in [Containers -> Reading \cup {None}]
    /\ call \in [Callers -> [pc : {"idle", "next", "answered"},
                              projects : SUBSET Projects, todo : SUBSET Containers,
                              ctr : Containers \cup {None}, reading : Reading \cup {None},
                              report : Report \cup {None}]]
    /\ \A p \in Callers :
        call[p].pc = "answered" => call[p].ctr \in Containers /\ call[p].reading \in Reading

Reported(p) == call[p].report # None

\* GetStats promises a "proper CPU percentage": between two moments at which
\* it ran, a container is never reported to have used more than all CPUs.
WithinCapacity ==
    \A p \in Callers :
        LET r == call[p].report IN
        Reported(p) /\ r.from # None /\ r.from.live /\ r.to.live => r.busy <= r.of

\* Two readings of one life of a container, in the order they were taken.
InOrder(r) ==
    /\ r.from # None /\ r.from.live /\ r.to.live
    /\ r.from.life = r.to.life /\ r.from.at <= r.to.at

\* Whatever other callers and containers do, a report computed from readings
\* in order is what the container used between them, out of the time there was.
InOrderIsExact ==
    \A p \in Callers : Reported(p) /\ InOrder(call[p].report) =>
        LET r == call[p].report IN
        /\ r.busy = r.to.cpu - r.from.cpu
        /\ r.busy > 0 => r.of = r.to.at - r.from.at /\ r.busy <= r.of

\* A container that runs on while the hub has clients is sampled for the
\* stream again and again, although the map may be out of date and calls may
\* fail.  Without a client the ticks are skipped.
RunningIsSampled ==
    \A c \in Containers :
        <>[](state[c] = "running" /\ watched)
            => []<>(call[Streamer].pc = "answered" /\ call[Streamer].ctr = c)
=============================================================================
