-------------------------------- MODULE Hub --------------------------------
(***************************************************************************)
(* The WebSocket fan-out of internal/websocket: the hub goroutine, the     *)
(* stats streamer that feeds it, and for every connection the HTTP handler *)
(* that registers it, its ReadPump and its WritePump.                      *)
(*                                                                         *)
(* A connection is an element of Conns and is used once: a peer that comes *)
(* back is a new Client in the code and another element here.  Messages    *)
(* are numbered in the order the streamer produces them.  Every message    *)
(* goes to every client: what clients subscribe to is kept for them but    *)
(* read by BroadcastToSubscribers only, which has no caller.               *)
(***************************************************************************)
EXTENDS Integers, Sequences

CONSTANTS
    Conns,         \* the WebSocket connections
    Projects,      \* the projects a client may subscribe to
    SendCap,       \* capacity of a client's send channel (256 in the code)
    BroadcastCap,  \* capacity of the hub's broadcast channel (256)
    MaxMsgs        \* bound: number of stats messages produced

ASSUME CapAssumption == SendCap \in Nat \ {0} /\ BroadcastCap \in Nat \ {0}
ASSUME MsgAssumption == MaxMsgs \in Nat

VARIABLES
    ctxDone,    \* the server's context was cancelled (SIGINT or SIGTERM)
    hub,        \* control state of Hub.Run
    clients,    \* h.clients
    broadcast,  \* contents of h.broadcast
    msg,        \* the message Hub.Run is fanning out
    todo,       \* clients its range loop has not visited yet
    streamer,   \* control state of StartStatsStreamer
    produced,   \* number of messages the streamer has produced
    handler,    \* control state of HandleWebSocket, per connection
    reader,     \* control state of ReadPump
    writer,     \* control state of WritePump
    quota,      \* how many queued messages the current frame still takes
    batch,      \* messages in the frame being written
    send,       \* contents of the client's send channel
    closed,     \* whether the send channel was closed
    conn,       \* the connection as seen from the server
    subs,       \* client.subscriptions
    panicked,   \* a send on, or a close of, a closed channel happened
    log,        \* history: messages Hub.Run has taken, in order
    joined,     \* history: Len(log) when the connection was registered
    wire        \* history: messages written to the connection

hubVars    == <<hub, clients, msg, todo, log>>
streamVars == <<streamer, produced>>
pumpVars   == <<handler, reader, writer, quota, batch, wire>>
chanVars   == <<send, closed, panicked>>
vars == <<ctxDone, hubVars, broadcast, streamVars, pumpVars, chanVars, conn,
          subs, joined>>

TypeOK ==
    /\ ctxDone \in BOOLEAN /\ panicked \in BOOLEAN
    /\ hub \in {"select", "deliver", "stopped"}
    /\ clients \in SUBSET Conns /\ todo \in SUBSET Conns
    /\ broadcast \in Seq(1..MaxMsgs) /\ log \in Seq(1..MaxMsgs)
    /\ msg \in 0..MaxMsgs /\ produced \in 0..MaxMsgs
    /\ streamer \in {"wait", "collect", "stopped"}
    /\ handler \in [Conns -> {"idle", "register", "registered", "done"}]
    /\ reader \in [Conns -> {"off", "loop", "unregister", "close", "done"}]
    /\ writer \in [Conns -> {"off", "select", "count", "drain", "done"}]
    /\ quota \in [Conns -> Nat]
    /\ batch \in [Conns -> Seq(1..MaxMsgs)]
    /\ send \in [Conns -> Seq(1..MaxMsgs)]
    /\ wire \in [Conns -> Seq(1..MaxMsgs)]
    /\ closed \in [Conns -> BOOLEAN]
    /\ conn \in [Conns -> {"none", "open", "lost", "closed"}]
    /\ subs \in [Conns -> SUBSET Projects]
    /\ joined \in [Conns -> Nat]

Init ==
    /\ ctxDone = FALSE /\ panicked = FALSE
    /\ hub = "select" /\ clients = {} /\ todo = {} /\ msg = 0
    /\ broadcast = <<>> /\ log = <<>>
    /\ streamer = "wait" /\ produced = 0
    /\ handler = [c \in Conns |-> "idle"]
    /\ reader = [c \in Conns |-> "off"]
    /\ writer = [c \in Conns |-> "off"]
    /\ quota = [c \in Conns |-> 0]
    /\ batch = [c \in Conns |-> <<>>]
    /\ send = [c \in Conns |-> <<>>]
    /\ wire = [c \in Conns |-> <<>>]
    /\ closed = [c \in Conns |-> FALSE]
    /\ conn = [c \in Conns |-> "none"]
    /\ subs = [c \in Conns |-> {}]
    /\ joined = [c \in Conns |-> 0]

-----------------------------------------------------------------------------
(* The environment: signals, and the peers at the other end. *)

\* SIGINT or SIGTERM cancels the context shared by every goroutine.
Cancel ==
    /\ ~ctxDone
    /\ ctxDone' = TRUE
    /\ UNCHANGED <<hubVars, broadcast, streamVars, pumpVars, chanVars, conn, subs, joined>>

\* The peer goes away, stops answering pings, or stalls past a write deadline.
PeerLost(c) ==
    /\ conn[c] = "open"
    /\ conn' = [conn EXCEPT ![c] = "lost"]
    /\ UNCHANGED <<ctxDone, hubVars, broadcast, streamVars, pumpVars, chanVars, subs, joined>>

-----------------------------------------------------------------------------
(* HandleWebSocket: upgrade, register, start the two pumps. *)

Upgrade(c) ==
    /\ handler[c] = "idle"
    /\ handler' = [handler EXCEPT ![c] = "register"]
    /\ conn' = [conn EXCEPT ![c] = "open"]
    /\ UNCHANGED <<ctxDone, hubVars, broadcast, streamVars, reader, writer, quota, batch,
                   wire, chanVars, subs, joined>>

StartPumps(c) ==
    /\ handler[c] = "registered"
    /\ handler' = [handler EXCEPT ![c] = "done"]
    /\ writer' = [writer EXCEPT ![c] = "select"]
    /\ reader' = [reader EXCEPT ![c] = "loop"]
    /\ UNCHANGED <<ctxDone, hubVars, broadcast, streamVars, quota, batch, wire, chanVars,
                   conn, subs, joined>>

-----------------------------------------------------------------------------
(* Hub.Run: one iteration of its select per action; the fan-out of one     *)
(* message visits the clients one by one, in any order, because a pump     *)
(* may empty or leave a queue between two visits.                          *)

\* Closing c's channel a second time would panic, as would a send on it.
Close(S) ==
    /\ closed' = [c \in Conns |-> closed[c] \/ c \in S]
    /\ panicked' = (panicked \/ \E c \in S : closed[c])

HubRegister(c) ==
    /\ hub = "select" /\ handler[c] = "register"
    /\ clients' = clients \cup {c}
    /\ handler' = [handler EXCEPT ![c] = "registered"]
    /\ joined' = [joined EXCEPT ![c] = Len(log)]
    /\ UNCHANGED <<ctxDone, hub, msg, todo, log, broadcast, streamVars, reader, writer,
                   quota, batch, wire, chanVars, conn, subs>>

\* Mutant: unregistering closes the queue without looking the client up.
HubUnregister_NoLookup(c) ==
    /\ hub = "select" /\ reader[c] = "unregister"
    /\ Close({c})
    /\ clients' = clients \ {c}
    /\ reader' = [reader EXCEPT ![c] = "close"]
    /\ UNCHANGED <<ctxDone, hub, msg, todo, log, broadcast, streamVars, handler, writer,
                   quota, batch, wire, send, conn, subs, joined>>

HubUnregister(c) ==
    /\ hub = "select" /\ reader[c] = "unregister"
    /\ Close({c} \cap clients)
    /\ clients' = clients \ {c}
    /\ reader' = [reader EXCEPT ![c] = "close"]
    /\ UNCHANGED <<ctxDone, hub, msg, todo, log, broadcast, streamVars, handler, writer,
                   quota, batch, wire, send, conn, subs, joined>>

HubTake ==
    /\ hub = "select" /\ broadcast # <<>>
    /\ hub' = "deliver"
    /\ msg' = Head(broadcast)
    /\ log' = Append(log, Head(broadcast))
    /\ broadcast' = Tail(broadcast)
    /\ todo' = clients
    /\ UNCHANGED <<ctxDone, clients, streamVars, pumpVars, chanVars, conn, subs, joined>>

\* The client's queue has room: the message is queued.
HubQueue(c) ==
    /\ hub = "deliver" /\ c \in todo
    /\ Len(send[c]) < SendCap
    /\ send' = [send EXCEPT ![c] = Append(@, msg)]
    /\ panicked' = (panicked \/ closed[c])
    /\ todo' = todo \ {c}
    /\ UNCHANGED <<ctxDone, hub, clients, msg, log, broadcast, streamVars, pumpVars, closed,
                   conn, subs, joined>>

\* Mutant: a slow client is removed from the map but its queue stays open.
HubEvict_NoClose(c) ==
    /\ hub = "deliver" /\ c \in todo
    /\ Len(send[c]) >= SendCap
    /\ clients' = clients \ {c}
    /\ todo' = todo \ {c}
    /\ UNCHANGED <<ctxDone, hub, msg, log, broadcast, streamVars, pumpVars, chanVars, conn,
                   subs, joined>>

\* Mutant: a full queue makes the hub skip the client instead of cutting it off.
HubEvict_Skip(c) ==
    /\ hub = "deliver" /\ c \in todo
    /\ Len(send[c]) >= SendCap
    /\ todo' = todo \ {c}
    /\ UNCHANGED <<ctxDone, hub, clients, msg, log, broadcast, streamVars, pumpVars, chanVars,
                   conn, subs, joined>>

\* The queue is full: the slow client is cut off.
HubEvict(c) ==
    /\ hub = "deliver" /\ c \in todo
    /\ Len(send[c]) >= SendCap
    /\ Close({c})
    /\ clients' = clients \ {c}
    /\ todo' = todo \ {c}
    /\ UNCHANGED <<ctxDone, hub, msg, log, broadcast, streamVars, pumpVars, send, conn, subs,
                   joined>>

HubDelivered ==
    /\ hub = "deliver" /\ todo = {}
    /\ hub' = "select"
    /\ UNCHANGED <<ctxDone, clients, msg, todo, log, broadcast, streamVars, pumpVars,
                   chanVars, conn, subs, joined>>

HubStop ==
    /\ hub = "select" /\ ctxDone
    /\ Close(clients)
    /\ clients' = {}
    /\ hub' = "stopped"
    /\ UNCHANGED <<ctxDone, msg, todo, log, broadcast, streamVars, pumpVars, send, conn,
                   subs, joined>>

-----------------------------------------------------------------------------
(* StartStatsStreamer: a tick with no client is skipped (no change);       *)
(* otherwise the statistics are collected, during which clients may leave, *)
(* and broadcast unless the broadcast channel is full.  What collects them *)
(* (createStatsGetter) never returns an error.                             *)

StreamerTick ==
    /\ streamer = "wait" /\ clients # {}
    /\ produced < MaxMsgs
    /\ streamer' = "collect"
    /\ UNCHANGED <<ctxDone, hubVars, broadcast, produced, pumpVars, chanVars, conn, subs,
                   joined>>

StreamerBroadcast ==
    /\ streamer = "collect"
    /\ streamer' = "wait"
    /\ produced' = produced + 1
    /\ broadcast' = IF Len(broadcast) < BroadcastCap
                    THEN Append(broadcast, produced + 1) ELSE broadcast
    /\ UNCHANGED <<ctxDone, hubVars, pumpVars, chanVars, conn, subs, joined>>

StreamerStop ==
    /\ streamer = "wait" /\ ctxDone
    /\ streamer' = "stopped"
    /\ UNCHANGED <<ctxDone, hubVars, broadcast, produced, pumpVars, chanVars, conn, subs,
                   joined>>

-----------------------------------------------------------------------------
(* ReadPump: messages from the peer, then the deferred Unregister, which   *)
(* is a rendezvous with the hub, then the deferred Close.                  *)

\* A subscribe message names one project or a list of them, an unsubscribe
\* message names one.
ReaderMessage(c) ==
    /\ reader[c] = "loop" /\ conn[c] # "closed"
    /\ \/ \E S \in SUBSET Projects : subs' = [subs EXCEPT ![c] = @ \cup S]
       \/ \E p \in Projects : subs' = [subs EXCEPT ![c] = @ \ {p}]
    /\ UNCHANGED <<ctxDone, hubVars, broadcast, streamVars, pumpVars, chanVars, conn, joined>>

\* Mutant: ReadPump closes the connection without unregistering the client.
ReaderFails_NoUnregister(c) ==
    /\ reader[c] = "loop" /\ conn[c] \in {"lost", "closed"}
    /\ reader' = [reader EXCEPT ![c] = "close"]
    /\ UNCHANGED <<ctxDone, hubVars, broadcast, streamVars, handler, writer, quota, batch,
                   wire, chanVars, conn, subs, joined>>

ReaderFails(c) ==
    /\ reader[c] = "loop" /\ conn[c] \in {"lost", "closed"}
    /\ reader' = [reader EXCEPT ![c] = "unregister"]
    /\ UNCHANGED <<ctxDone, hubVars, broadcast, streamVars, handler, writer, quota, batch,
                   wire, chanVars, conn, subs, joined>>

ReaderClose(c) ==
    /\ reader[c] = "close"
    /\ reader' = [reader EXCEPT ![c] = "done"]
    /\ conn' = [conn EXCEPT ![c] = "closed"]
    /\ UNCHANGED <<ctxDone, hubVars, broadcast, streamVars, handler, writer, quota, batch,
                   wire, chanVars, subs, joined>>

-----------------------------------------------------------------------------
(* WritePump: a frame takes the first message, then as many as were queued *)
(* when the queue's length was read, and is flushed when it is closed.     *)

WriterReceive(c) ==
    /\ writer[c] = "select" /\ send[c] # <<>>
    /\ batch' = [batch EXCEPT ![c] = <<Head(send[c])>>]
    /\ send' = [send EXCEPT ![c] = Tail(@)]
    /\ writer' = [writer EXCEPT ![c] = "count"]
    /\ UNCHANGED <<ctxDone, hubVars, broadcast, streamVars, handler, reader, quota, wire,
                   closed, panicked, conn, subs, joined>>

\* Mutant: the message in hand is counted as if it were still queued.
WriterCount_OffByOne(c) ==
    /\ writer[c] = "count"
    /\ quota' = [quota EXCEPT ![c] = Len(send[c]) + 1]
    /\ writer' = [writer EXCEPT ![c] = "drain"]
    /\ UNCHANGED <<ctxDone, hubVars, broadcast, streamVars, handler, reader, batch, wire,
                   chanVars, conn, subs, joined>>

WriterCount(c) ==
    /\ writer[c] = "count"
    /\ quota' = [quota EXCEPT ![c] = Len(send[c])]
    /\ writer' = [writer EXCEPT ![c] = "drain"]
    /\ UNCHANGED <<ctxDone, hubVars, broadcast, streamVars, handler, reader, batch, wire,
                   chanVars, conn, subs, joined>>

\* Mutant: the frame takes all that is queued, not what was counted.
WriterDrain_WhileQueued(c) ==
    /\ writer[c] = "drain" /\ send[c] # <<>>
    /\ batch' = [batch EXCEPT ![c] = Append(@, Head(send[c]))]
    /\ send' = [send EXCEPT ![c] = Tail(@)]
    /\ quota' = [quota EXCEPT ![c] = @ - 1]
    /\ UNCHANGED <<ctxDone, hubVars, broadcast, streamVars, handler, reader, writer, wire,
                   closed, panicked, conn, subs, joined>>

WriterDrain(c) ==
    /\ writer[c] = "drain" /\ quota[c] > 0 /\ send[c] # <<>>
    /\ batch' = [batch EXCEPT ![c] = Append(@, Head(send[c]))]
    /\ send' = [send EXCEPT ![c] = Tail(@)]
    /\ quota' = [quota EXCEPT ![c] = @ - 1]
    /\ UNCHANGED <<ctxDone, hubVars, broadcast, streamVars, handler, reader, writer, wire,
                   closed, panicked, conn, subs, joined>>

\* Mutant: only the first message of the frame is written.
WriterFlush_FirstOnly(c) ==
    /\ writer[c] = "drain" /\ quota[c] = 0 /\ conn[c] # "closed"
    /\ wire' = [wire EXCEPT ![c] = Append(@, Head(batch[c]))]
    /\ batch' = [batch EXCEPT ![c] = <<>>]
    /\ writer' = [writer EXCEPT ![c] = "select"]
    /\ UNCHANGED <<ctxDone, hubVars, broadcast, streamVars, handler, reader, quota, chanVars,
                   conn, subs, joined>>

WriterFlush(c) ==
    /\ writer[c] = "drain" /\ quota[c] = 0 /\ conn[c] # "closed"
    /\ wire' = [wire EXCEPT ![c] = @ \o batch[c]]
    /\ batch' = [batch EXCEPT ![c] = <<>>]
    /\ writer' = [writer EXCEPT ![c] = "select"]
    /\ UNCHANGED <<ctxDone, hubVars, broadcast, streamVars, handler, reader, quota, chanVars,
                   conn, subs, joined>>

\* Every return of WritePump runs its deferred conn.Close.
WriterReturn(c) ==
    /\ writer' = [writer EXCEPT ![c] = "done"]
    /\ batch' = [batch EXCEPT ![c] = <<>>]
    /\ conn' = [conn EXCEPT ![c] = "closed"]
    /\ UNCHANGED <<ctxDone, hubVars, broadcast, streamVars, handler, reader, quota, wire,
                   chanVars, subs, joined>>

\* A ping, NextWriter or the closing of a frame fails on a dead connection;
\* the frame under construction is lost.
WriterFails(c) ==
    /\ conn[c] \in {"lost", "closed"}
    /\ \/ writer[c] \in {"select", "count"}
       \/ writer[c] = "drain" /\ quota[c] = 0
    /\ WriterReturn(c)

\* Mutant: the closed channel is noticed, but the loop is not left.
WriterClosed_Continue(c) ==
    /\ writer[c] = "select" /\ send[c] = <<>> /\ closed[c]
    /\ UNCHANGED vars

\* The send channel was closed by the hub and everything in it was taken.
WriterClosed(c) ==
    /\ writer[c] = "select" /\ send[c] = <<>> /\ closed[c]
    /\ WriterReturn(c)

-----------------------------------------------------------------------------

HubStep == HubTake \/ HubDelivered \/ HubStop
HubVisit(c) == HubQueue(c) \/ HubEvict(c)
ReaderStep(c) == ReaderFails(c) \/ ReaderClose(c)
WriterStep(c) ==
    \/ WriterReceive(c) \/ WriterCount(c) \/ WriterDrain(c) \/ WriterFlush(c)
    \/ WriterFails(c) \/ WriterClosed(c)

Next ==
    \/ Cancel
    \/ HubStep
    \/ StreamerTick \/ StreamerBroadcast \/ StreamerStop
    \/ \E c \in Conns :
        \/ PeerLost(c) \/ Upgrade(c) \/ StartPumps(c)
        \/ HubRegister(c) \/ HubUnregister(c) \/ HubVisit(c)
        \/ ReaderMessage(c) \/ ReaderStep(c) \/ WriterStep(c)

Spec == Init /\ [][Next]_vars

(***************************************************************************)
(* Every goroutine keeps running (weak fairness).  A connection offering   *)
(* itself on the register or unregister channel competes with broadcasts   *)
(* in the hub's select, which picks uniformly among the ready cases, so it *)
(* is not passed over forever (strong fairness); likewise for a cancelled  *)
(* context.  Nothing forces peers to behave, or the server to be stopped.  *)
(***************************************************************************)
Fairness ==
    /\ WF_vars(HubTake \/ HubDelivered) /\ SF_vars(HubStop)
    /\ WF_vars(StreamerTick \/ StreamerBroadcast)
    /\ \A c \in Conns :
        /\ SF_vars(HubRegister(c)) /\ SF_vars(HubUnregister(c))
        /\ WF_vars(HubVisit(c)) /\ WF_vars(StartPumps(c))
        /\ WF_vars(ReaderStep(c)) /\ WF_vars(WriterStep(c))

FairSpec == Spec /\ Fairness

-----------------------------------------------------------------------------
(* What the code relies on. *)

\* No send on a closed channel and no second close: the hub closes a queue
\* when it evicts a slow client, when the client's ReadPump unregisters, and
\* for everyone at shutdown, and a client can meet all three.
NoPanic == ~panicked

\* A client's queue is closed exactly when the client has left the hub's map.
\* One direction lets the hub send to everyone in the map, the other lets the
\* WritePump of everyone outside of it come to an end.
ClosedIffRemoved ==
    \A c \in Conns :
        handler[c] \in {"registered", "done"} => (closed[c] <=> c \notin clients)

\* WritePump takes from the queue, without a select, as many messages as it
\* counted: they must all be there, or it would block inside a frame or, once
\* the queue is closed, write empty messages.
DrainNeverBlocks ==
    \A c \in Conns : writer[c] = "drain" => quota[c] <= Len(send[c])

\* The feed a client sees is what its WritePump puts on the connection; a
\* client is cut off once its WritePump has returned.
Stream == INSTANCE Feed WITH
    Readers <- Conns,
    Message <- 1..MaxMsgs,
    member  <- {c \in Conns : handler[c] \in {"registered", "done"}},
    given   <- wire,
    cut     <- {c \in Conns : writer[c] = "done"}

\* Hub implements Feed: a client sees a contiguous piece of the hub's log
\* starting where it registered, whatever the queues, evictions and failures.
ImplementsFeed == Stream!Spec

Released(c) ==
    /\ handler[c] = "done" /\ reader[c] = "done" /\ writer[c] = "done"
    /\ c \notin clients /\ conn[c] = "closed"

\* While the server is not being stopped, a connection whose peer is gone is
\* forgotten by the hub, both its goroutines end and its socket is closed.
LostPeerIsReleased ==
    \A c \in Conns : conn[c] = "lost" ~> (Released(c) \/ ctxDone)

\* Closing a queue, whether for slowness, departure or shutdown, ends the
\* WritePump of the client, which closes the connection.
ClosedQueueEndsWriter ==
    \A c \in Conns : closed[c] ~> (writer[c] = "done" /\ conn[c] = "closed")

\* A message queued for a client is written to its connection, even when the
\* hub cut the client off meanwhile, unless the connection itself fails.
QueuedIsWritten ==
    \A c \in Conns, m \in 1..MaxMsgs :
        (\E i \in DOMAIN send[c] : send[c][i] = m)
            ~> (conn[c] # "open" \/ \E i \in DOMAIN wire[c] : wire[c][i] = m)
=============================================================================
