------------------------------- MODULE Server -------------------------------
(***************************************************************************)
(* The life of the process (cmd/server/main.go) from the configuration to  *)
(* the exit code, with the requests in its handlers (internal/api), the    *)
(* periodic scanner, the preference store and the lock of the docker       *)
(* client (internal/docker/client.go), which Close takes for writing, and  *)
(* every call of the daemon but those for stats and for log streams, which *)
(* take it only to copy the client, holds for reading.                     *)
(*                                                                         *)
(* What requests do to the projects is the subject of Manager.  Here they  *)
(* are the steps that can wait, fail or meet something that is closed.     *)
(***************************************************************************)
EXTENDS Storage

CONSTANTS
    Requests,   \* the requests that may come, one handler goroutine each
    Kinds,      \* which of the kinds of request are considered
    Bodies      \* which bodies of prune requests are considered

Main == "main"
Ticker == "ticker"
Unlocked == "free"

\* The steps of a handler that can wait or fail: "save" writes to the store,
\* "compose" runs docker compose, "call" and "usage" are calls of the daemon,
\* and so are the steps of a prune, which are named for what they remove.  The
\* stats of a project are of one running container, or they are "map".
DaemonSteps == {"call", "usage"} \cup PruneKinds
Programs ==
    [map     |-> <<>>,                      \* health, project, protect, port
     stats   |-> <<"peek", "sample">>,      \* stats of a project
     prefer  |-> <<"save">>,                \* name, hidden
     list    |-> <<"call">>,                \* all projects, after a Refresh
     system  |-> <<"call">>,                \* ready, info, logs
     storage |-> <<"usage">>,
     compose |-> <<"compose", "call">>,     \* start, stop, restart
     socket  |-> <<"upgrade">>]             \* /ws/stats

ASSUME ServerAssumption ==
    /\ Kinds \subseteq DOMAIN Programs \cup {"prune"}
    /\ Bodies \subseteq PruneBody /\ Bodies # {}
    /\ {Main, Ticker} \cap Requests = {}

VARIABLES
    main,       \* where run is
    ctx,        \* the context of run is done
    code,       \* the exit code, once it is decided
    store,      \* the preference store
    listener,
    ticker,     \* where runPeriodicScanner is
    readers,    \* the goroutines that hold the docker client's lock for reading
    writer,     \* Close has asked for the lock
    req,        \* the requests
    disk        \* what the daemon has on its disk

vars == <<main, ctx, code, store, listener, ticker, readers, writer, req, disk>>

Nothing == [pc |-> "none", kind |-> "map", body |-> CHOOSE b \in Bodies : TRUE,
            todo |-> <<>>, status |-> 0, reclaimed |-> 0, info |-> StorageInfo({}),
            late |-> FALSE, seen |-> {}, freed |-> {}]

\* seen, freed and late are history: the disk at the first call of the daemon,
\* what the request's own calls removed, and a write the closed store refused.
Init ==
    /\ main = "load"
    /\ ctx = FALSE
    /\ code = "none"
    /\ store = "none"
    /\ listener = "none"
    /\ ticker = "none"
    /\ readers = {}
    /\ writer = "free"
    /\ req = [r \in Requests |-> Nothing]
    /\ disk = Items

Running == main # "exited"
Active(r) == req[r].pc = "handler"

-----------------------------------------------------------------------------
(* run. *)

\* SIGINT or SIGTERM.  Before NotifyContext it ends the process; a second one
\* is ignored, since stop is deferred until run has returned.
Signal ==
    /\ Running /\ ~ctx
    /\ IF main = "load" THEN main' = "exited" /\ code' = "signal" /\ UNCHANGED ctx
       ELSE ctx' = TRUE /\ UNCHANGED <<main, code>>
    /\ UNCHANGED <<store, listener, ticker, readers, writer, req, disk>>

\* config.Load and NewClient; then Ping takes the lock.
Load ==
    /\ main = "load"
    /\ \/ main' = "ping" /\ readers' = {Main} /\ UNCHANGED code
       \/ main' = "exited" /\ code' = "failure" /\ UNCHANGED readers
    /\ UNCHANGED <<ctx, store, listener, ticker, writer, req, disk>>

\* The daemon answers, or the context of the call is done.
Ping ==
    /\ main = "ping"
    /\ readers' = readers \ {Main}
    /\ \/ main' = "open" /\ UNCHANGED <<code, writer>>
       \/ main' = "closing" /\ code' = "failure" /\ writer' = "pending"
    /\ UNCHANGED <<ctx, store, listener, ticker, req, disk>>

\* Without a store the server goes on.
OpenStore ==
    /\ main = "open"
    /\ store' \in {"open", "none"}
    /\ main' = "scan"
    /\ UNCHANGED <<ctx, code, listener, ticker, readers, writer, req, disk>>

Serve ==
    /\ main' = "serving"
    /\ listener' = "starting"
    /\ ticker' = "waiting"

\* The initial Refresh.  Whether it fails makes no difference to run.
Scan ==
    /\ \/ main = "scan" /\ main' = "refresh" /\ readers' = {Main}
          /\ UNCHANGED <<listener, ticker>>
       \/ main = "scan" /\ ctx /\ Serve /\ UNCHANGED readers
       \/ main = "refresh" /\ readers' = {} /\ Serve
    /\ UNCHANGED <<ctx, code, store, writer, req, disk>>

\* ListenAndServe.
Listen ==
    /\ Running
    /\ \/ listener = "starting" /\ listener' \in {"up", "failed"}
       \/ listener = "up" /\ listener' = "failed"
    /\ UNCHANGED <<main, ctx, code, store, ticker, readers, writer, req, disk>>

\* Mutant: the deferred call was not deferred.
Stop_ClosesStore ==
    /\ main = "serving"
    /\ \/ /\ listener = "failed"
          /\ main' = "closeStore" /\ code' = "failure" /\ UNCHANGED <<listener, store>>
       \/ /\ ctx
          /\ main' = "draining" /\ UNCHANGED code
          /\ store' = IF store = "open" THEN "closed" ELSE store
          /\ listener' = IF listener = "failed" THEN listener ELSE "closed"
    /\ UNCHANGED <<ctx, ticker, readers, writer, req, disk>>

\* The select: if both can be received from, either is.
Stop ==
    /\ main = "serving"
    /\ \/ /\ listener = "failed"
          /\ main' = "closeStore" /\ code' = "failure" /\ UNCHANGED listener
       \/ /\ ctx
          /\ main' = "draining" /\ UNCHANGED code
          /\ listener' = IF listener = "failed" THEN listener ELSE "closed"
    /\ UNCHANGED <<ctx, store, ticker, readers, writer, req, disk>>

\* Mutant: a shutdown that times out is logged, not returned.
Shutdown_Swallowed ==
    /\ main = "draining"
    /\ main' = "closeStore" /\ code' = "success"
    /\ UNCHANGED <<ctx, store, listener, ticker, readers, writer, req, disk>>

\* server.Shutdown returns when no request is in a handler, or after 30 s.
Shutdown ==
    /\ main = "draining"
    /\ main' = "closeStore"
    /\ code' = IF \E r \in Requests : Active(r) THEN "failure" ELSE "success"
    /\ UNCHANGED <<ctx, store, listener, ticker, readers, writer, req, disk>>

\* The deferred calls: the store's Close, then the client's, which waits for
\* its lock; nobody gets it for reading any more.
CloseStore ==
    /\ main = "closeStore"
    /\ main' = "closing"
    /\ store' = IF store = "open" THEN "closed" ELSE store
    /\ writer' = "pending"
    /\ UNCHANGED <<ctx, code, listener, ticker, readers, req, disk>>

CloseClient ==
    /\ main = "closing" /\ readers = {}
    /\ main' = "exited"
    /\ UNCHANGED <<ctx, code, store, listener, ticker, readers, writer, req, disk>>

-----------------------------------------------------------------------------
(* runPeriodicScanner. *)

Tick ==
    /\ Running /\ ticker = "waiting" /\ writer = "free"
    /\ ticker' = "calling" /\ readers' = readers \cup {Ticker}
    /\ UNCHANGED <<main, ctx, code, store, listener, writer, req, disk>>

\* Refresh is done, or has failed.
TickDone ==
    /\ Running /\ ticker = "calling"
    /\ ticker' = "waiting" /\ readers' = readers \ {Ticker}
    /\ UNCHANGED <<main, ctx, code, store, listener, writer, req, disk>>

TickerStops ==
    /\ Running /\ ticker = "waiting" /\ ctx
    /\ ticker' = "returned"
    /\ UNCHANGED <<main, ctx, code, store, listener, readers, writer, req, disk>>

-----------------------------------------------------------------------------
(* The handlers. *)

Outside == <<main, ctx, code, store, listener, ticker, writer>>

\* A request on a connection that was open before the listener went is one
\* that came before.
Arrive(r) ==
    /\ main = "serving" /\ listener = "up" /\ req[r].pc = "none"
    /\ \E k \in Kinds, b \in Bodies :
        /\ k # "prune" => b = Nothing.body
        /\ req' = [req EXCEPT ![r] = [Nothing EXCEPT !.pc = "handler",
                !.kind = k, !.body = b,
                !.todo = IF k = "prune" THEN PruneCalls(b) ELSE Programs[k]]]
    /\ UNCHANGED <<Outside, readers, disk>>

At(r, steps) ==
    /\ Running /\ Active(r)
    /\ req[r].todo # <<>> /\ Head(req[r].todo) \in steps

\* The handler returns with an error when a step fails; ListProjects logs it.
Succeeds(r) == [req[r] EXCEPT !.todo = Tail(@)]
Fails(r, status) ==
    [req[r] EXCEPT !.todo = <<>>, !.status = IF req[r].kind = "list" THEN @ ELSE status]

Lock(r) ==
    /\ At(r, DaemonSteps) /\ r \notin readers /\ writer = "free"
    /\ readers' = readers \cup {r}
    /\ req' = IF req[r].kind = "prune" THEN [req EXCEPT ![r].seen = disk] ELSE req
    /\ UNCHANGED <<Outside, disk>>

\* Mutant: the lock is not released on an error.
Unlock_OnSuccess(r) ==
    IF req'[r].todo = <<>> /\ req'[r].status = 0 THEN readers \ {r} ELSE readers

\* The lock is held until the last call of the request's method.
Unlock(r) == IF req'[r].todo = <<>> THEN readers \ {r} ELSE readers

\* The daemon answers, or the context of the request is done (500 stands for the
\* 503 of Ready as well).  The disk's usage is read in one step of the daemon.
Answer(r) ==
    /\ At(r, {"call", "usage"}) /\ r \in readers
    /\ \/ req' = [req EXCEPT ![r] = Fails(r, 500)]
       \/ Head(req[r].todo) = "call" /\ req' = [req EXCEPT ![r] = Succeeds(r)]
       \/ /\ Head(req[r].todo) = "usage"
          /\ req' = [req EXCEPT ![r] =
                        [Succeeds(r) EXCEPT !.seen = disk, !.info = StorageInfo(disk)]]
    /\ readers' = Unlock(r)
    /\ UNCHANGED <<Outside, disk>>

\* Mutant: each report replaces the one before.
Prune_LastOnly(r) ==
    /\ At(r, PruneKinds) /\ r \in readers
    /\ \/ req' = [req EXCEPT ![r] = Fails(r, 500)] /\ UNCHANGED disk
       \/ LET gone == Removed(Head(req[r].todo), disk) IN
          /\ disk' = disk \ gone
          /\ req' = [req EXCEPT ![r] = [Succeeds(r) EXCEPT
                        !.freed = @ \cup gone, !.reclaimed = Reclaimed(gone)]]
    /\ readers' = Unlock(r)
    /\ UNCHANGED Outside

\* Client.Prune, one call of the daemon; at an error it stops.
Prune(r) ==
    /\ At(r, PruneKinds) /\ r \in readers
    /\ \/ req' = [req EXCEPT ![r] = Fails(r, 500)] /\ UNCHANGED disk
       \/ LET gone == Removed(Head(req[r].todo), disk) IN
          /\ disk' = disk \ gone
          /\ req' = [req EXCEPT ![r] = [Succeeds(r) EXCEPT
                        !.freed = @ \cup gone, !.reclaimed = @ + Reclaimed(gone)]]
    /\ readers' = Unlock(r)
    /\ UNCHANGED Outside

\* GetStats: the lock is held while the client is copied, not in the call of the
\* daemon.  GetProjectStats leaves a container out whose stats it does not get.
Peek(r) ==
    /\ At(r, {"peek"}) /\ writer = "free"
    /\ req' = [req EXCEPT ![r] = Succeeds(r)]
    /\ UNCHANGED <<Outside, readers, disk>>

Sample(r) ==
    /\ At(r, {"sample"})
    /\ req' = [req EXCEPT ![r] = Succeeds(r)]
    /\ UNCHANGED <<Outside, readers, disk>>

\* docker compose runs without the lock, and before the refresh that needs it.
\* That StopProject answers 403 instead when the project is protected by then
\* makes no difference here.
Compose(r) ==
    /\ At(r, {"compose"})
    /\ req' = [req EXCEPT ![r] = Succeeds(r)] \/ req' = [req EXCEPT ![r] = Fails(r, 500)]
    /\ UNCHANGED <<Outside, readers, disk>>

\* SetProjectDisplayName and SetProjectHidden: without a store nothing is
\* written, and no error is reported.
Save(r) ==
    /\ At(r, {"save"})
    /\ \/ store # "closed" /\ req' = [req EXCEPT ![r] = Succeeds(r)]
       \/ store # "none"
          /\ req' = [req EXCEPT ![r] = [Fails(r, 404) EXCEPT !.late = store = "closed"]]
    /\ UNCHANGED <<Outside, readers, disk>>

\* What a handler writes to, from the inside out: Compress's writer has a
\* Hijack that asks the one it wraps; the logging middleware's has none.
Writers == <<"compressResponseWriter", "responseWriter", "http.response">>
CanHijack ==
    \E i \in DOMAIN Writers :
        /\ Writers[i] = "http.response"
        /\ \A j \in 1..(i - 1) : Writers[j] = "compressResponseWriter"

\* HandleWebSocket: Upgrade answers for itself.
Upgrade(r) ==
    /\ At(r, {"upgrade"})
    /\ req' = [req EXCEPT ![r] =
            [Succeeds(r) EXCEPT !.status = IF CanHijack THEN 101 ELSE 500]]
    /\ UNCHANGED <<Outside, readers, disk>>

\* respondJSON or respondError, and the handler returns.
Answers(r, status) == [req[r] EXCEPT !.pc = "answered", !.todo = <<>>, !.status = status]

\* What a handler may answer before its first step: that the body or the port
\* cannot be read, or that there is no such project.
Refusals(kind) ==
    CASE kind \in {"map", "prefer"} -> {400, 404}
      [] kind = "stats"             -> {404}
      [] kind = "compose"           -> {500}
      [] OTHER                      -> {}

Reply(r) ==
    /\ Running /\ Active(r)
    /\ \/ /\ req[r].todo = <<>>
          /\ req' = [req EXCEPT ![r] =
                        Answers(r, IF req[r].status = 0 THEN 200 ELSE req[r].status)]
       \/ \E status \in Refusals(req[r].kind) :
          /\ req[r].status = 0 /\ req[r].todo = (Programs[req[r].kind])
          /\ req' = [req EXCEPT ![r] = Answers(r, status)]
    /\ UNCHANGED <<Outside, readers, disk>>

-----------------------------------------------------------------------------

MainStep ==
    Load \/ Ping \/ OpenStore \/ Scan \/ Stop \/ Shutdown \/ CloseStore \/ CloseClient
Handle(r) ==
    \/ Lock(r) \/ Answer(r) \/ Prune(r) \/ Peek(r) \/ Sample(r)
    \/ Compose(r) \/ Save(r) \/ Upgrade(r) \/ Reply(r)

Next ==
    \/ MainStep \/ Signal \/ Listen
    \/ Tick \/ TickDone \/ TickerStops
    \/ \E r \in Requests : Arrive(r) \/ Handle(r)

Spec == Init /\ [][Next]_vars

\* Goroutines run, and whoever waits for the daemon or for docker compose gets
\* an answer or an error some time.  No signal and no request has to come.
FairSpec ==
    /\ Spec
    /\ WF_vars(MainStep) /\ WF_vars(TickDone) /\ WF_vars(TickerStops)
    /\ \A r \in Requests : WF_vars(Handle(r))

-----------------------------------------------------------------------------
(* Properties. *)

RequestState ==
    [pc : {"none", "handler", "answered"}, kind : Kinds \cup {"map"}, body : Bodies,
     todo : Seq(DaemonSteps \cup {"peek", "sample", "save", "compose", "upgrade"}),
     status : {0, 101, 200, 400, 404, 500}, reclaimed : Nat,
     info : [volumes : 0..(Word - 1), total : 0..(Word - 1), reclaimable : 0..(Word - 1)],
     late : BOOLEAN, seen : SUBSET Items, freed : SUBSET Items]

TypeOK ==
    /\ main \in {"load", "ping", "open", "scan", "refresh", "serving", "draining",
                 "closeStore", "closing", "exited"}
    /\ ctx \in BOOLEAN
    /\ code \in {"none", "success", "failure", "signal"}
    /\ store \in {"none", "open", "closed"}
    /\ listener \in {"none", "starting", "up", "failed", "closed"}
    /\ ticker \in {"none", "waiting", "calling", "returned"}
    /\ readers \subseteq {Main, Ticker} \cup Requests
    /\ writer \in {"free", "pending"}
    /\ disk \subseteq Items
    /\ req \in [Requests -> RequestState]

\* Exit code 0 ("server stopped gracefully") says that every request that came
\* was answered, none is left in a handler; and that no change of a preference
\* was refused because its store had been closed under it.
GracefulIsComplete ==
    code = "success" => \A r \in Requests : ~Active(r) /\ ~req[r].late

\* A prune that succeeds reports the space its own calls reclaimed, whichever
\* it was asked for and whatever another one removed meanwhile.
ReportedIsFreed ==
    \A r \in Requests :
        req[r].kind = "prune" /\ req[r].status = 200 =>
            req[r].reclaimed = Reclaimed(req[r].freed)

\* Volumes go only when the body names them, and images, with layers of theirs,
\* and the cache only when it does or cannot be read.
NothingUnasked ==
    \A r \in Requests : \A i \in req[r].freed :
        \/ Kind[i] \in {"container", "network"}
        \/ Kind[i] \in {"image", "layer"} /\ (req[r].body.images \/ ~req[r].body.readable)
        \/ Kind[i] = "volume" /\ req[r].body.volumes
        \/ Kind[i] = "cache"  /\ (req[r].body.cache \/ ~req[r].body.readable)

\* What the storage panel calls reclaimable is what the button beside it
\* reclaims, if nothing comes between them: less what is offered and yet in use,
\* which is promised in vain; less what the images that go share, which is
\* promised with each of them and freed once, or not at all if another image has
\* it; and on top of it what stopped containers hold.
PromiseKept ==
    \A s, p \in Requests :
        LET had     == req[s].seen
            stopped == Prunable("container", had)
            goes    == {i \in Of("image", had) \ Busy : UsedBy[i] \cap had \subseteq stopped}
            vain    == Offered(had) \cap Busy
            bonus   == stopped \cup {i \in goes : UsedBy[i] \cap had # {}}
            shared  == Worth(goes) - Reclaimed(Freeable(goes, had))
        IN  /\ req[s].kind = "storage" /\ req[s].status = 200
            /\ req[p].kind = "prune" /\ req[p].status = 200
            /\ Asked(req[p].body) = PruneKinds \ {"volume"}
            /\ req[p].seen = had /\ had \ disk \subseteq req[p].freed
            => /\ shared >= 0
               /\ (req[p].reclaimed + Worth(vain) + shared) % Word =
                      (req[s].info.reclaimable + Worth(bonus)) % Word

\* The wrap of an unknown size in VolumesSize cancels out in TotalSize, but for
\* one byte per volume.  A layer is in the total once for each of its images.
SizesAddUp ==
    \A r \in Requests : req[r].kind = "storage" /\ req[r].status = 200 =>
        LET unknown == {i \in req[r].seen : Bytes[i] = -1}
        IN  (req[r].info.total + Cardinality(unknown)) % Word = Worth(Listed(req[r].seen)) % Word

\* "HandleWebSocket upgrades HTTP connections to WebSocket."
WebSocketsAreUpgraded ==
    \A r \in Requests : req[r].kind = "socket" /\ req[r].pc = "answered" => req[r].status = 101

\* After a signal the process ends, however far it has come, whatever the
\* handlers are doing, and though Close waits for a lock they hold.
SignalEndsProcess == ctx ~> main = "exited"
=============================================================================
