----------------------------- MODULE HubProofs -----------------------------
(***************************************************************************)
(* Invariance proofs for Hub, for any set of connections and any channel   *)
(* capacities.  NoPanic and ClosedIffRemoved are not inductive: that the   *)
(* hub never touches a closed queue depends on which goroutine may still   *)
(* hold the client, which is what Phases records.                          *)
(***************************************************************************)
EXTENDS Hub, SequenceTheorems, TLAPS

\* The fan-out loop only has clients of the map before it and a message in
\* hand; the streamer has a message to produce; a connection nobody has
\* registered yet has no pumps, no place in the map and an open queue.
Phases ==
    /\ todo \subseteq clients
    /\ hub # "deliver" => todo = {}
    /\ hub = "deliver" => msg \in 1..MaxMsgs
    /\ streamer = "collect" => produced < MaxMsgs
    /\ \A c \in Conns :
        handler[c] \in {"idle", "register"} =>
            ~closed[c] /\ c \notin clients /\ reader[c] = "off" /\ writer[c] = "off"

IInv == TypeOK /\ Phases /\ NoPanic /\ ClosedIffRemoved /\ DrainNeverBlocks

PumpStep(c) == ReaderMessage(c) \/ ReaderStep(c) \/ WriterStep(c)

\* The two short sequences the pumps build.
LEMMA NoMessage == <<>> \in Seq(1..MaxMsgs)
  OBVIOUS

\* The head and the tail of a sequence that is not empty.
LEMMA HeadAndTail ==
    ASSUME NEW S, NEW q \in Seq(S), q # <<>>
    PROVE  Tail(q) \in Seq(S) /\ Head(q) \in S
  OBVIOUS

\* A batch of one message.
LEMMA OneMessage == ASSUME NEW m \in 1..MaxMsgs PROVE <<m>> \in Seq(1..MaxMsgs)
  OBVIOUS

\* The initial state satisfies the inductive invariant.
LEMMA HubInit == Init => IInv
<1> SUFFICES ASSUME Init PROVE IInv
  OBVIOUS
<1>0. /\ broadcast \in Seq(1..MaxMsgs) /\ log \in Seq(1..MaxMsgs)
      /\ send \in [Conns -> Seq(1..MaxMsgs)]
      /\ batch \in [Conns -> Seq(1..MaxMsgs)]
      /\ wire \in [Conns -> Seq(1..MaxMsgs)]
  BY NoMessage, Zenon DEF Init
<1>1. /\ msg \in 0..MaxMsgs /\ produced \in 0..MaxMsgs
      /\ quota \in [Conns -> Nat] /\ joined \in [Conns -> Nat]
  BY MsgAssumption DEF Init
<1>2. TypeOK
  BY <1>0, <1>1, Zenon DEF Init, TypeOK
<1> QED
  BY <1>2 DEF Init, IInv, Phases, NoPanic, ClosedIffRemoved, DrainNeverBlocks

\* The steps of the environment, of the HTTP handler and of the streamer.
LEMMA HubOutside ==
    ASSUME IInv,
           \/ Cancel \/ StreamerTick \/ StreamerBroadcast \/ StreamerStop
           \/ \E c \in Conns : PeerLost(c) \/ Upgrade(c) \/ StartPumps(c)
    PROVE  IInv'
<1> USE MsgAssumption DEF IInv, hubVars, streamVars, pumpVars, chanVars
<1>1. CASE Cancel
  BY <1>1 DEF Cancel, TypeOK, Phases, NoPanic, ClosedIffRemoved, DrainNeverBlocks
<1>2. CASE StreamerTick
  BY <1>2 DEF StreamerTick, TypeOK, Phases, NoPanic, ClosedIffRemoved, DrainNeverBlocks
<1>3. CASE StreamerBroadcast
  <2>1. produced + 1 \in 1..MaxMsgs
    BY <1>3 DEF StreamerBroadcast, TypeOK, Phases
  <2>2. TypeOK'
    <3>1. broadcast' \in Seq(1..MaxMsgs) /\ produced' \in 0..MaxMsgs
      <4>1. Append(broadcast, produced + 1) \in Seq(1..MaxMsgs)
        BY <2>1 DEF TypeOK
      <4>2. broadcast' = Append(broadcast, produced + 1) \/ broadcast' = broadcast
        BY <1>3, Zenon DEF StreamerBroadcast
      <4>3. produced' \in 0..MaxMsgs
        BY <1>3, <2>1 DEF StreamerBroadcast
      <4> QED
        BY <4>1, <4>2, <4>3, Zenon DEF TypeOK
    <3> QED
      BY <1>3, <3>1 DEF StreamerBroadcast, TypeOK
  <2> QED
    BY <1>3, <2>2 DEF StreamerBroadcast, Phases, NoPanic, ClosedIffRemoved, DrainNeverBlocks
<1>4. CASE StreamerStop
  BY <1>4 DEF StreamerStop, TypeOK, Phases, NoPanic, ClosedIffRemoved, DrainNeverBlocks
<1>5. ASSUME NEW c \in Conns, PeerLost(c) PROVE IInv'
  BY <1>5 DEF PeerLost, TypeOK, Phases, NoPanic, ClosedIffRemoved, DrainNeverBlocks
<1>6. ASSUME NEW c \in Conns, Upgrade(c) PROVE IInv'
  BY <1>6 DEF Upgrade, TypeOK, Phases, NoPanic, ClosedIffRemoved, DrainNeverBlocks
<1>7. ASSUME NEW c \in Conns, StartPumps(c) PROVE IInv'
  BY <1>7 DEF StartPumps, TypeOK, Phases, NoPanic, ClosedIffRemoved, DrainNeverBlocks
<1> QED BY <1>1, <1>2, <1>3, <1>4, <1>5, <1>6, <1>7

\* The steps of the hub goroutine: the only ones that close queues.
LEMMA HubHub ==
    ASSUME IInv,
           HubStep \/ \E c \in Conns : HubRegister(c) \/ HubUnregister(c) \/ HubVisit(c)
    PROVE  IInv'
<1> USE MsgAssumption DEF IInv, hubVars, streamVars, pumpVars, chanVars
<1>1. CASE HubTake
  <2>1. TypeOK' /\ msg' \in 1..MaxMsgs
    BY <1>1 DEF HubTake, TypeOK
  <2> QED
    BY <1>1, <2>1 DEF HubTake, Phases, NoPanic, ClosedIffRemoved, DrainNeverBlocks
<1>2. CASE HubDelivered
  BY <1>2 DEF HubDelivered, TypeOK, Phases, NoPanic, ClosedIffRemoved, DrainNeverBlocks
<1>3. CASE HubStop
  <2>1. TypeOK'
    BY <1>3 DEF HubStop, Close, TypeOK
  <2>2. NoPanic'
    BY <1>3 DEF HubStop, Close, TypeOK, Phases, NoPanic, ClosedIffRemoved
  <2> QED
    BY <1>3, <2>1, <2>2 DEF HubStop, Close, TypeOK, Phases, ClosedIffRemoved, DrainNeverBlocks
<1>4. ASSUME NEW c \in Conns, HubRegister(c) PROVE IInv'
  <2>1. TypeOK'
    BY <1>4 DEF HubRegister, TypeOK
  <2> QED
    BY <1>4, <2>1 DEF HubRegister, TypeOK, Phases, NoPanic, ClosedIffRemoved, DrainNeverBlocks
<1>5. ASSUME NEW c \in Conns, HubUnregister(c) PROVE IInv'
  <2>1. TypeOK'
    BY <1>5 DEF HubUnregister, Close, TypeOK
  <2>2. handler[c] \in {"registered", "done"}
    BY <1>5 DEF HubUnregister, TypeOK, Phases
  <2>3. NoPanic'
    BY <1>5, <2>2 DEF HubUnregister, Close, NoPanic, ClosedIffRemoved
  <2>4. ClosedIffRemoved'
    BY <1>5, <2>2 DEF HubUnregister, Close, TypeOK, ClosedIffRemoved
  <2> QED
    BY <1>5, <2>1, <2>2, <2>3, <2>4
    DEF HubUnregister, Close, TypeOK, Phases, DrainNeverBlocks
<1>6. ASSUME NEW c \in Conns, HubQueue(c) PROVE IInv'
  <2>1. handler[c] \in {"registered", "done"} /\ ~closed[c]
    BY <1>6 DEF HubQueue, TypeOK, Phases, ClosedIffRemoved
  <2>2. TypeOK'
    BY <1>6 DEF HubQueue, TypeOK, Phases
  <2>3. \A d \in Conns : Len(send'[d]) >= Len(send[d])
    BY <1>6 DEF HubQueue, TypeOK, Phases
  <2>4. DrainNeverBlocks'
    BY <1>6, <2>2, <2>3 DEF HubQueue, TypeOK, DrainNeverBlocks
  <2> QED
    BY <1>6, <2>1, <2>2, <2>4 DEF HubQueue, TypeOK, Phases, NoPanic, ClosedIffRemoved
<1>7. ASSUME NEW c \in Conns, HubEvict(c) PROVE IInv'
  <2>1. handler[c] \in {"registered", "done"} /\ ~closed[c]
    BY <1>7 DEF HubEvict, TypeOK, Phases, ClosedIffRemoved
  <2>2. TypeOK'
    BY <1>7 DEF HubEvict, Close, TypeOK
  <2> QED
    BY <1>7, <2>1, <2>2
    DEF HubEvict, Close, TypeOK, Phases, NoPanic, ClosedIffRemoved, DrainNeverBlocks
<1> QED BY <1>1, <1>2, <1>3, <1>4, <1>5, <1>6, <1>7 DEF HubStep, HubVisit

\* The steps of a client's two pumps.
LEMMA HubPumps ==
    ASSUME IInv, NEW c \in Conns, PumpStep(c)
    PROVE  IInv'
<1> USE MsgAssumption DEF IInv, hubVars, streamVars, pumpVars, chanVars
<1>1. CASE ReaderMessage(c)
  <2>1. PICK T \in SUBSET Projects : subs' = [subs EXCEPT ![c] = T]
    <3>1. ASSUME NEW S \in SUBSET Projects PROVE subs[c] \cup S \in SUBSET Projects
      BY DEF TypeOK
    <3>2. subs[c] \in SUBSET Projects
      BY DEF TypeOK
    <3>3. ASSUME NEW p \in Projects PROVE subs[c] \ {p} \in SUBSET Projects
      BY <3>2
    <3> QED
      BY <1>1, <3>1, <3>3, Zenon DEF ReaderMessage
  <2>2. TypeOK'
    BY <1>1, <2>1 DEF ReaderMessage, TypeOK
  <2> QED
    BY <1>1, <2>2 DEF ReaderMessage, Phases, NoPanic, ClosedIffRemoved, DrainNeverBlocks
<1>2. CASE ReaderFails(c)
  BY <1>2 DEF ReaderFails, TypeOK, Phases, NoPanic, ClosedIffRemoved, DrainNeverBlocks
<1>3. CASE ReaderClose(c)
  BY <1>3 DEF ReaderClose, TypeOK, Phases, NoPanic, ClosedIffRemoved, DrainNeverBlocks
<1>4. CASE WriterReceive(c)
  <2>1. TypeOK'
    <3>1. Head(send[c]) \in 1..MaxMsgs /\ Tail(send[c]) \in Seq(1..MaxMsgs)
      BY <1>4 DEF WriterReceive, TypeOK
    <3>2. <<Head(send[c])>> \in Seq(1..MaxMsgs)
      BY <3>1, OneMessage
    <3>3. batch' \in [Conns -> Seq(1..MaxMsgs)]
      BY <1>4, <3>2, Zenon DEF WriterReceive, TypeOK
    <3> QED
      BY <1>4, <3>1, <3>3 DEF WriterReceive, TypeOK
  <2>2. Phases'
    BY <1>4 DEF WriterReceive, TypeOK, Phases
  <2>3. NoPanic' /\ ClosedIffRemoved'
    BY <1>4 DEF WriterReceive, TypeOK, NoPanic, ClosedIffRemoved
  <2>4. DrainNeverBlocks'
    BY <1>4 DEF WriterReceive, TypeOK, DrainNeverBlocks
  <2> QED
    BY <2>1, <2>2, <2>3, <2>4
<1>5. CASE WriterCount(c)
  BY <1>5 DEF WriterCount, TypeOK, Phases, NoPanic, ClosedIffRemoved, DrainNeverBlocks
<1>6. CASE WriterDrain(c)
  <2>a. /\ send[c] \in Seq(1..MaxMsgs) /\ send[c] # <<>> /\ batch[c] \in Seq(1..MaxMsgs)
        /\ quota[c] \in Nat /\ quota[c] > 0
    BY <1>6 DEF WriterDrain, TypeOK
  <2>b. Tail(send[c]) \in Seq(1..MaxMsgs) /\ Head(send[c]) \in 1..MaxMsgs
    BY <2>a, HeadAndTail
  <2>c. Append(batch[c], Head(send[c])) \in Seq(1..MaxMsgs)
    BY <2>a, <2>b
  <2>d. quota[c] - 1 \in Nat
    BY <2>a
  <2>1. TypeOK'
    <3>1. /\ batch' \in [Conns -> Seq(1..MaxMsgs)] /\ send' \in [Conns -> Seq(1..MaxMsgs)]
          /\ quota' \in [Conns -> Nat]
      BY <1>6, <2>b, <2>c, <2>d, Zenon DEF WriterDrain, TypeOK
    <3> QED
      BY <1>6, <3>1 DEF WriterDrain, TypeOK
  <2>2. Len(send'[c]) = Len(send[c]) - 1 /\ quota'[c] = quota[c] - 1
    BY <1>6 DEF WriterDrain, TypeOK
  <2>3. DrainNeverBlocks'
    BY <1>6, <2>1, <2>2 DEF WriterDrain, TypeOK, DrainNeverBlocks
  <2> QED
    BY <1>6, <2>1, <2>3 DEF WriterDrain, TypeOK, Phases, NoPanic, ClosedIffRemoved
<1>7. CASE WriterFlush(c)
  <2>1. TypeOK'
    BY <1>7 DEF WriterFlush, TypeOK
  <2> QED
    BY <1>7, <2>1 DEF WriterFlush, TypeOK, Phases, NoPanic, ClosedIffRemoved, DrainNeverBlocks
<1>8. ASSUME WriterReturn(c), writer[c] \in {"select", "count", "drain"} PROVE IInv'
  <2>1. TypeOK'
    BY <1>8, NoMessage DEF WriterReturn, TypeOK
  <2> QED
    BY <1>8, <2>1 DEF WriterReturn, TypeOK, Phases, NoPanic, ClosedIffRemoved, DrainNeverBlocks
<1>9. CASE WriterFails(c) \/ WriterClosed(c)
  BY <1>8, <1>9 DEF WriterFails, WriterClosed
<1> QED
  BY <1>1, <1>2, <1>3, <1>4, <1>5, <1>6, <1>7, <1>9 DEF PumpStep, ReaderStep, WriterStep

\* A step that changes nothing keeps the inductive invariant.
LEMMA HubStutter == IInv /\ UNCHANGED vars => IInv'
  BY DEF vars, hubVars, streamVars, pumpVars, chanVars, IInv, TypeOK, Phases, NoPanic,
         ClosedIffRemoved, DrainNeverBlocks

\* The inductive invariant holds in every reachable state.
THEOREM HubInvariant == Spec => []IInv
<1>1. IInv /\ [Next]_vars => IInv'
  BY HubOutside, HubHub, HubPumps, HubStutter DEF Next, PumpStep
<1> QED BY HubInit, <1>1, PTL DEF Spec

\* Every variable of the hub, the streamer and the pumps keeps its type.
THEOREM HubTypeCorrect == Spec => []TypeOK
<1>1. IInv => TypeOK BY DEF IInv
<1> QED BY HubInvariant, <1>1, PTL

\* No goroutine sends on or closes a closed channel, whatever the order in
\* which eviction, departure and shutdown reach a client.
THEOREM HubNoPanic == Spec => []NoPanic
<1>1. IInv => NoPanic BY DEF IInv
<1> QED BY HubInvariant, <1>1, PTL

\* A registered client's queue is closed exactly when the hub has forgotten it.
THEOREM HubClosedIffRemoved == Spec => []ClosedIffRemoved
<1>1. IInv => ClosedIffRemoved BY DEF IInv
<1> QED BY HubInvariant, <1>1, PTL

\* WritePump never waits for a message that was counted but is not there.
THEOREM HubDrainNeverBlocks == Spec => []DrainNeverBlocks
<1>1. IInv => DrainNeverBlocks BY DEF IInv
<1> QED BY HubInvariant, <1>1, PTL

-----------------------------------------------------------------------------
(* The refinement of Feed.  What is on its way to a client is, end to end,   *)
(* a piece of the log: the frame under construction, then the queue.         *)

\* j is where the client joined the log l, w what was written to it, b the
\* frame, s the queue.
Piece(l, j, w, b, s) ==
    /\ j + Len(w) + Len(b) + Len(s) <= Len(l)
    /\ \A i \in 1..Len(b) : b[i] = l[j + Len(w) + i]
    /\ \A i \in 1..Len(s) : s[i] = l[j + Len(w) + Len(b) + i]

Size(c) == joined[c] + Len(wire[c]) + Len(batch[c]) + Len(send[c])
Member(c) == handler[c] \in {"registered", "done"}

\* WritePump has a frame in hand between its receive and its flush, and a
\* client of the map is only behind by the message that is being fanned out.
FollowsLog(c) ==
    /\ handler[c] # "done" => writer[c] = "off"
    /\ ~Member(c) => wire[c] = <<>> /\ batch[c] = <<>> /\ send[c] = <<>>
    /\ writer[c] \in {"off", "select"} => batch[c] = <<>>
    /\ writer[c] \in {"count", "drain"} => batch[c] # <<>>
    /\ Member(c) /\ writer[c] # "done" =>
          /\ Piece(log, joined[c], wire[c], batch[c], send[c])
          /\ c \in clients => Size(c) + (IF c \in todo THEN 1 ELSE 0) = Len(log)

FInv ==
    /\ hub = "deliver" => log # <<>> /\ msg = log[Len(log)]
    /\ \A c \in Conns : FollowsLog(c)

LEMMA PieceOfMore ==
    ASSUME NEW M, NEW l \in Seq(M), NEW j \in Nat, NEW w \in Seq(M), NEW b \in Seq(M),
           NEW s \in Seq(M), NEW m \in M, Piece(l, j, w, b, s)
    PROVE  Piece(Append(l, m), j, w, b, s)
<1> DEFINE k == Append(l, m)
<1>1. Len(k) = Len(l) + 1 /\ \A i \in 1..Len(l) : k[i] = l[i]
  BY AppendProperties
<1>2. Len(l) \in Nat /\ Len(w) \in Nat /\ Len(b) \in Nat /\ Len(s) \in Nat
  BY LenProperties
<1> HIDE DEF k
<1> QED
  BY <1>1, <1>2 DEF Piece, k

\* What is on its way stays as long when a step moves it from hand to hand.
LEMMA SameSum ==
    ASSUME NEW j \in Nat, NEW w \in Nat, NEW b \in Nat, NEW s \in Nat,
           NEW v \in Nat, NEW a \in Nat, NEW t \in Nat, v + a + t = w + b + s
    PROVE  j + v + a + t = j + w + b + s
  OBVIOUS

\* The first message of the queue goes to the end of the frame.
LEMMA PieceTaken ==
    ASSUME NEW M, NEW l \in Seq(M), NEW j \in Nat, NEW w \in Seq(M), NEW b \in Seq(M),
           NEW s \in Seq(M), s # <<>>, Piece(l, j, w, b, s)
    PROVE  /\ Piece(l, j, w, Append(b, Head(s)), Tail(s))
           /\ Len(Append(b, Head(s))) + Len(Tail(s)) = Len(b) + Len(s)
<1> DEFINE h == Head(s)
           a == Append(b, h)
           t == Tail(s)
<1>1. h \in M /\ t \in Seq(M) /\ Len(t) = Len(s) - 1 /\ \A i \in 1..Len(t) : t[i] = s[i + 1]
  BY HeadTailProperties
<1>2. h = s[1]
  OBVIOUS
<1>3. Len(a) = Len(b) + 1 /\ a[Len(b) + 1] = h /\ \A i \in 1..Len(b) : a[i] = b[i]
  BY <1>1, AppendProperties
<1>4. Len(l) \in Nat /\ Len(w) \in Nat /\ Len(b) \in Nat /\ Len(s) \in Nat /\ Len(s) >= 1
  BY LenProperties, EmptySeq
<1> HIDE DEF h, a, t
<1>5. j + Len(w) + Len(a) + Len(t) <= Len(l)
  BY <1>1, <1>3, <1>4 DEF Piece
<1>6. ASSUME NEW i \in 1..Len(a) PROVE a[i] = l[j + Len(w) + i]
  <2>1. CASE i = Len(b) + 1
    <3>1. s[1] = l[j + Len(w) + Len(b) + 1]
      BY <1>4 DEF Piece
    <3>2. j + Len(w) + Len(b) + 1 = j + Len(w) + i
      BY <1>4, <2>1
    <3> QED
      BY <1>2, <1>3, <2>1, <3>1, <3>2
  <2>2. CASE i # Len(b) + 1
    <3>1. i \in 1..Len(b)
      BY <1>3, <1>4, <2>2
    <3> QED
      BY <1>3, <3>1 DEF Piece
  <2> QED
    BY <2>1, <2>2
<1>7. ASSUME NEW i \in 1..Len(t) PROVE t[i] = l[j + Len(w) + Len(a) + i]
  <2>1. i + 1 \in 1..Len(s) /\ t[i] = s[i + 1]
    BY <1>1, <1>4
  <2>2. s[i + 1] = l[j + Len(w) + Len(b) + (i + 1)]
    BY <2>1 DEF Piece
  <2>3. j + Len(w) + Len(b) + (i + 1) = j + Len(w) + Len(a) + i
    BY <1>3, <1>4
  <2> QED
    BY <2>1, <2>2, <2>3
<1>8. Piece(l, j, w, a, t)
  BY <1>5, <1>6, <1>7 DEF Piece
<1>9. Len(a) + Len(t) = Len(b) + Len(s)
  BY <1>1, <1>3, <1>4
<1> QED
  BY <1>8, <1>9 DEF a, t, h

\* The frame is written.
LEMMA PieceWritten ==
    ASSUME NEW M, NEW l \in Seq(M), NEW j \in Nat, NEW w \in Seq(M), NEW b \in Seq(M),
           NEW s \in Seq(M), Piece(l, j, w, b, s)
    PROVE  /\ Piece(l, j, w \o b, <<>>, s)
           /\ Len(w \o b) = Len(w) + Len(b)
           /\ b = SubSeq(l, j + Len(w) + 1, j + Len(w) + Len(b))
<1> DEFINE v == w \o b
           p == SubSeq(l, j + Len(w) + 1, j + Len(w) + Len(b))
<1>1. Len(v) = Len(w) + Len(b)
  BY ConcatProperties
<1>2. Len(l) \in Nat /\ Len(w) \in Nat /\ Len(b) \in Nat /\ Len(s) \in Nat
  BY LenProperties
<1>3. Len(<<>>) = 0
  OBVIOUS
<1> HIDE DEF v
<1>4. Piece(l, j, v, <<>>, s)
  BY <1>1, <1>2, <1>3 DEF Piece
<1>5. b = p
  <2> DEFINE first == j + Len(w) + 1
             last == j + Len(w) + Len(b)
  <2>1. first \in Int /\ last \in Int /\ last - first + 1 = Len(b)
        /\ (first <= last <=> Len(b) # 0)
    BY <1>2
  <2>2. ASSUME NEW i \in first..last PROVE l[i] \in M
    <3>1. i \in 1..Len(l)
      BY <1>2 DEF Piece
    <3> QED
      BY <3>1, ElementOfSeq
  <2> HIDE DEF first, last
  <2>3. /\ p \in Seq(M) /\ Len(p) = IF first <= last THEN last - first + 1 ELSE 0
        /\ \A i \in 1..(last - first + 1) : p[i] = l[first + i - 1]
    BY <2>1, <2>2, SubSeqProperties DEF first, last
  <2>4. Len(p) = Len(b)
    BY <1>2, <2>1, <2>3
  <2>5. ASSUME NEW i \in 1..Len(b) PROVE p[i] = b[i]
    <3>1. p[i] = l[first + i - 1]
      BY <2>1, <2>3
    <3>2. first + i - 1 = j + Len(w) + i
      BY <1>2 DEF first
    <3> QED
      BY <3>1, <3>2 DEF Piece
  <2> HIDE DEF p
  <2> QED
    BY <2>3, <2>4, <2>5, SeqEqual
<1> QED
  BY <1>1, <1>4, <1>5 DEF v

\* The last message of the log is queued for a client that has all the others.
LEMMA PieceQueued ==
    ASSUME NEW M, NEW l \in Seq(M), NEW j \in Nat, NEW w \in Seq(M), NEW b \in Seq(M),
           NEW s \in Seq(M), NEW m \in M, l # <<>>, m = l[Len(l)], Piece(l, j, w, b, s),
           j + Len(w) + Len(b) + Len(s) + 1 = Len(l)
    PROVE  Piece(l, j, w, b, Append(s, m)) /\ Len(Append(s, m)) = Len(s) + 1
<1> DEFINE t == Append(s, m)
<1>1. Len(t) = Len(s) + 1 /\ t[Len(s) + 1] = m /\ \A i \in 1..Len(s) : t[i] = s[i]
  BY AppendProperties
<1>2. Len(l) \in Nat /\ Len(w) \in Nat /\ Len(b) \in Nat /\ Len(s) \in Nat
  BY LenProperties
<1> HIDE DEF t
<1>3. ASSUME NEW i \in 1..Len(t) PROVE t[i] = l[j + Len(w) + Len(b) + i]
  <2>1. CASE i = Len(s) + 1
    <3>1. j + Len(w) + Len(b) + i = Len(l)
      BY <1>2, <2>1
    <3> QED
      BY <1>1, <2>1, <3>1
  <2>2. CASE i # Len(s) + 1
    <3>1. i \in 1..Len(s)
      BY <1>1, <1>2, <2>2
    <3> QED
      BY <1>1, <3>1 DEF Piece
  <2> QED
    BY <2>1, <2>2
<1>4. Piece(l, j, w, b, t)
  BY <1>1, <1>2, <1>3 DEF Piece
<1> QED
  BY <1>1, <1>4 DEF t

LEMMA HubFeedInit == Init => FInv /\ Stream!Init
  BY DEF Init, FInv, FollowsLog, Member, Stream!Init

\* What the lemmas above need to know of c.
LEMMA PieceTypes ==
    ASSUME TypeOK, NEW c \in Conns
    PROVE  /\ log \in Seq(1..MaxMsgs) /\ joined[c] \in Nat /\ wire[c] \in Seq(1..MaxMsgs)
           /\ batch[c] \in Seq(1..MaxMsgs) /\ send[c] \in Seq(1..MaxMsgs)
  BY DEF TypeOK

\* A connection that a step may move on, but not what is on its way.
Moves(c) ==
    /\ Member(c)' = Member(c)
    /\ handler'[c] = "done" \/ (handler[c] # "done" /\ writer'[c] = writer[c])
    /\ \/ writer'[c] = writer[c]
       \/ writer[c] = "off" /\ writer'[c] = "select"
       \/ writer[c] = "count" /\ writer'[c] = "drain"
    /\ c \in clients' => c \in clients /\ (c \in todo' <=> c \in todo)

LEMMA Unconcerned ==
    ASSUME NEW c \in Conns, FollowsLog(c), Moves(c), UNCHANGED log,
           joined'[c] = joined[c], wire'[c] = wire[c], batch'[c] = batch[c], send'[c] = send[c]
    PROVE  FollowsLog(c)'
<1>1. Size(c)' = Size(c)
  BY DEF Size
<1>2. Piece(log, joined[c], wire[c], batch[c], send[c])'
          <=> Piece(log, joined[c], wire[c], batch[c], send[c])
  BY DEF Piece
<1> HIDE DEF Size, Piece
<1> QED
  BY <1>1, <1>2 DEF FollowsLog, Moves

\* Steps in which nothing is published, queued or written.
Quiet ==
    \/ Cancel \/ StreamerTick \/ StreamerBroadcast \/ StreamerStop
    \/ HubDelivered \/ HubStop
    \/ \E c \in Conns : \/ PeerLost(c) \/ Upgrade(c) \/ StartPumps(c)
                        \/ HubUnregister(c) \/ HubEvict(c)
                        \/ ReaderMessage(c) \/ ReaderStep(c) \/ WriterCount(c)
    \/ UNCHANGED vars

LEMMA QuietMoves ==
    ASSUME IInv, FInv, Quiet
    PROVE  /\ UNCHANGED <<log, joined, wire, batch, send, msg>>
           /\ hub' = "deliver" => hub = "deliver"
           /\ \A c \in Conns : Moves(c)
<1> USE DEF hubVars, streamVars, pumpVars, chanVars
<1>1. CASE Cancel \/ StreamerTick \/ StreamerBroadcast \/ StreamerStop \/ UNCHANGED vars
  <2>1. UNCHANGED <<hub, clients, todo, msg, log, joined, wire, batch, send, handler, writer>>
    BY <1>1 DEF Cancel, StreamerTick, StreamerBroadcast, StreamerStop, vars
  <2> QED
    BY <2>1 DEF Moves, Member, FInv, FollowsLog
<1>2. CASE HubDelivered \/ HubStop
  <2>1. /\ UNCHANGED <<todo, msg, log, joined, wire, batch, send, handler, writer>>
        /\ hub' # "deliver" /\ clients' \subseteq clients
    BY <1>2 DEF HubDelivered, HubStop
  <2> QED
    BY <2>1 DEF Moves, Member, FInv, FollowsLog
<1>3. ASSUME NEW d \in Conns, PeerLost(d) \/ ReaderMessage(d) \/ ReaderStep(d) PROVE
        UNCHANGED <<hub, clients, todo, msg, log, joined, wire, batch, send, handler, writer>>
  BY <1>3 DEF PeerLost, ReaderMessage, ReaderStep, ReaderFails, ReaderClose
<1>4. ASSUME NEW d \in Conns, HubUnregister(d) \/ HubEvict(d)
      PROVE  /\ UNCHANGED <<hub, msg, log, joined, wire, batch, send, handler, writer>>
             /\ \A c \in Conns : c \in clients' => c \in clients /\ (c \in todo' <=> c \in todo)
  BY <1>4 DEF HubUnregister, HubEvict
<1>5. ASSUME NEW d \in Conns, Upgrade(d) \/ StartPumps(d)
      PROVE  /\ UNCHANGED <<hub, clients, todo, msg, log, joined, wire, batch, send>>
             /\ \A c \in Conns : Moves(c)
  <2>1. UNCHANGED <<hub, clients, todo, msg, log, joined, wire, batch, send>>
    BY <1>5 DEF Upgrade, StartPumps
  <2>2. ASSUME NEW c \in Conns PROVE Moves(c)
    <3>1. CASE c # d
      <4>1. handler'[c] = handler[c] /\ writer'[c] = writer[c]
        BY <1>5, <3>1 DEF Upgrade, StartPumps, IInv, TypeOK
      <4> QED
        BY <2>1, <4>1 DEF Moves, Member, FInv, FollowsLog
    <3>2. CASE c = d /\ Upgrade(d)
      <4>1. handler[c] = "idle" /\ handler'[c] = "register" /\ writer'[c] = writer[c]
        BY <3>2 DEF Upgrade, IInv, TypeOK
      <4> QED
        BY <2>1, <4>1 DEF Moves, Member
    <3>3. CASE c = d /\ StartPumps(d)
      <4>1. handler[c] = "registered" /\ handler'[c] = "done" /\ writer'[c] = "select"
        BY <3>3 DEF StartPumps, IInv, TypeOK
      <4>2. writer[c] = "off"
        BY <4>1 DEF FInv, FollowsLog
      <4> QED
        BY <2>1, <4>1, <4>2 DEF Moves, Member
    <3> QED
      BY <1>5, <3>1, <3>2, <3>3
  <2> QED
    BY <2>1, <2>2
<1>6. ASSUME NEW d \in Conns, WriterCount(d)
      PROVE  /\ UNCHANGED <<hub, clients, todo, msg, log, joined, wire, batch, send, handler>>
             /\ \A c \in Conns : writer'[c] = writer[c]
                                    \/ (writer[c] = "count" /\ writer'[c] = "drain")
  BY <1>6 DEF WriterCount, IInv, TypeOK
<1>7. ASSUME UNCHANGED <<hub, msg, log, joined, wire, batch, send, handler>>, NEW c \in Conns,
             c \in clients' => c \in clients /\ (c \in todo' <=> c \in todo),
             writer'[c] = writer[c] \/ (writer[c] = "count" /\ writer'[c] = "drain")
      PROVE  Moves(c)
  BY <1>7 DEF Moves, Member, FInv, FollowsLog
<1>8. ASSUME NEW d \in Conns, \/ PeerLost(d) \/ ReaderMessage(d) \/ ReaderStep(d)
                              \/ HubUnregister(d) \/ HubEvict(d) \/ WriterCount(d)
      PROVE  /\ UNCHANGED <<hub, log, joined, wire, batch, send, msg>>
             /\ \A c \in Conns : Moves(c)
  <2>1. UNCHANGED <<hub, msg, log, joined, wire, batch, send, handler>>
    BY <1>3, <1>4, <1>6, <1>8
  <2>2. ASSUME NEW c \in Conns
        PROVE  /\ c \in clients' => c \in clients /\ (c \in todo' <=> c \in todo)
               /\ writer'[c] = writer[c] \/ (writer[c] = "count" /\ writer'[c] = "drain")
    BY <1>3, <1>4, <1>6, <1>8
  <2> QED
    BY <1>7, <2>1, <2>2
<1> QED
  BY <1>1, <1>2, <1>5, <1>8 DEF Quiet

LEMMA QuietFollows ==
    ASSUME IInv, FInv, Quiet
    PROVE  FInv' /\ UNCHANGED Stream!feedVars
<1>1. /\ UNCHANGED <<log, joined, wire, batch, send, msg>>
      /\ hub' = "deliver" => hub = "deliver"
      /\ \A c \in Conns : Moves(c)
  BY QuietMoves
<1>2. ASSUME NEW c \in Conns PROVE FollowsLog(c)'
  BY <1>1, Unconcerned DEF FInv
<1>3. FInv'
  BY <1>1, <1>2 DEF FInv
<1>4. \A c \in Conns : Member(c)' = Member(c) /\ (writer'[c] = "done" <=> writer[c] = "done")
  BY <1>1 DEF Moves
<1> QED
  BY <1>1, <1>3, <1>4 DEF Stream!feedVars, Member

\* A step that publishes a message.
LEMMA TakeFollows ==
    ASSUME IInv, FInv, HubTake
    PROVE  FInv' /\ Stream!Publish
<1> USE DEF hubVars, streamVars, pumpVars, chanVars
<1> DEFINE m == Head(broadcast)
<1>1. m \in 1..MaxMsgs /\ log \in Seq(1..MaxMsgs)
  BY HeadAndTail DEF HubTake, IInv, TypeOK
<1>2. /\ log' = Append(log, m) /\ msg' = m /\ todo' = clients
      /\ UNCHANGED <<clients, joined, wire, batch, send, handler, writer>>
  BY DEF HubTake
<1> HIDE DEF m
<1>3. /\ Len(log') = Len(log) + 1 /\ log' # <<>> /\ log'[Len(log')] = m
  BY <1>1, <1>2, AppendProperties
<1>4. ASSUME NEW c \in Conns PROVE FollowsLog(c)'
  <2>1. Size(c)' = Size(c) /\ Member(c)' = Member(c)
    BY <1>2 DEF Size, Member
  <2>2. Piece(log, joined[c], wire[c], batch[c], send[c])
            => Piece(log, joined[c], wire[c], batch[c], send[c])'
    BY <1>1, <1>2, PieceOfMore, PieceTypes DEF IInv
  <2>3. c \notin todo
    BY DEF HubTake, IInv, Phases
  <2>4. FollowsLog(c)
    BY DEF FInv
  <2>5. Size(c) \in Nat /\ Len(log) \in Nat
    BY PieceTypes, LenProperties DEF IInv, Size
  <2>6. Member(c) /\ writer[c] # "done" /\ c \in clients => Size(c) + 1 = Len(log')
    BY <1>3, <2>3, <2>4, <2>5 DEF FollowsLog
  <2> HIDE DEF Size, Piece, Member
  <2> QED
    BY <1>2, <2>1, <2>2, <2>4, <2>6 DEF FollowsLog
<1>5. FInv'
  BY <1>2, <1>3, <1>4 DEF FInv
<1>6. Stream!Publish
  BY <1>1, <1>2 DEF Stream!Publish
<1> QED
  BY <1>5, <1>6

\* A step that adds a member.
LEMMA RegisterFollows ==
    ASSUME IInv, FInv, NEW d \in Conns, HubRegister(d)
    PROVE  FInv' /\ Stream!Join(d)
<1> USE DEF hubVars, streamVars, pumpVars, chanVars
<1>1. /\ UNCHANGED <<hub, msg, todo, log, wire, batch, send, writer>>
      /\ clients' = clients \cup {d} /\ hub = "select"
      /\ handler[d] = "register" /\ handler' = [handler EXCEPT ![d] = "registered"]
      /\ joined' = [joined EXCEPT ![d] = Len(log)]
  BY DEF HubRegister
<1>2. ASSUME NEW c \in Conns, c # d PROVE handler'[c] = handler[c] /\ joined'[c] = joined[c]
  BY <1>1, <1>2 DEF IInv, TypeOK
<1>3. handler'[d] = "registered" /\ joined'[d] = Len(log)
  BY <1>1 DEF IInv, TypeOK
<1>4. ASSUME NEW c \in Conns PROVE FollowsLog(c)'
  <2>1. FollowsLog(c)
    BY DEF FInv
  <2>2. CASE c # d
    <3>1. Moves(c)
      BY <1>1, <1>2, <2>1, <2>2 DEF Moves, Member, FollowsLog
    <3> QED
      BY <1>1, <1>2, <2>1, <2>2, <3>1, Unconcerned
  <2>3. CASE c = d
    <3>1. wire[c] = <<>> /\ batch[c] = <<>> /\ send[c] = <<>> /\ writer[c] = "off"
      BY <1>1, <2>1, <2>3 DEF FollowsLog, Member
    <3>2. d \notin todo /\ Len(log) \in Nat
      BY <1>1, LenProperties DEF IInv, TypeOK, Phases
    <3>3. Piece(log, joined[c], wire[c], batch[c], send[c])' /\ Size(c)' = Len(log)
      BY <1>1, <1>3, <2>3, <3>1, <3>2 DEF Piece, Size
    <3> HIDE DEF Piece, Size
    <3> QED
      BY <1>1, <1>3, <2>3, <3>1, <3>2, <3>3 DEF FollowsLog
  <2> QED
    BY <2>2, <2>3
<1>5. FInv'
  BY <1>1, <1>4 DEF FInv
<1>6. Stream!Join(d)
  <2>1. \A c \in Conns : Member(c)' <=> Member(c) \/ c = d
    BY <1>1, <1>2, <1>3 DEF Member
  <2>2. ~Member(d)
    BY <1>1 DEF Member
  <2> QED
    BY <1>1, <2>1, <2>2 DEF Stream!Join, Member
<1> QED
  BY <1>5, <1>6

\* A client's queue gets the message that is being fanned out.
LEMMA QueueFollows ==
    ASSUME IInv, FInv, NEW d \in Conns, HubQueue(d)
    PROVE  FInv' /\ UNCHANGED Stream!feedVars
<1> USE DEF hubVars, streamVars, pumpVars, chanVars
<1>1. /\ UNCHANGED <<hub, msg, log, joined, wire, batch, handler, writer, clients>>
      /\ hub = "deliver" /\ d \in todo /\ todo' = todo \ {d} /\ d \in clients
      /\ send' = [send EXCEPT ![d] = Append(@, msg)]
  BY DEF HubQueue, IInv, Phases
<1>2. msg \in 1..MaxMsgs /\ log # <<>> /\ msg = log[Len(log)]
  BY <1>1 DEF IInv, Phases, FInv
<1>3. send'[d] = Append(send[d], msg) /\ \A c \in Conns \ {d} : send'[c] = send[c]
  BY <1>1 DEF IInv, TypeOK
<1>4. ASSUME NEW c \in Conns PROVE FollowsLog(c)'
  <2>1. FollowsLog(c)
    BY DEF FInv
  <2>2. CASE c # d
    <3>1. Moves(c)
      BY <1>1, <2>1, <2>2 DEF Moves, Member, FollowsLog
    <3> QED
      BY <1>1, <1>3, <2>1, <2>2, <3>1, Unconcerned
  <2>3. CASE c = d
    <3>1. Member(c)
      BY <1>1, <2>3 DEF IInv, TypeOK, Phases, Member
    <3>2. Member(c)' = Member(c)
      BY <1>1 DEF Member
    <3>3. ASSUME writer[c] # "done"
          PROVE  /\ Piece(log, joined[c], wire[c], batch[c], send[c])'
                 /\ Size(c)' = Len(log)
      <4>1. Piece(log, joined[c], wire[c], batch[c], send[c]) /\ Size(c) + 1 = Len(log)
        BY <1>1, <2>1, <2>3, <3>1, <3>3 DEF FollowsLog
      <4>2. joined[c] + Len(wire[c]) + Len(batch[c]) + Len(send[c]) + 1 = Len(log)
        BY <4>1 DEF Size
      <4>3. /\ Piece(log, joined[c], wire[c], batch[c], Append(send[c], msg))
            /\ Len(Append(send[c], msg)) = Len(send[c]) + 1
        <5> DEFINE l == log
                   j == joined[c]
                   w == wire[c]
                   b == batch[c]
                   s == send[c]
                   M == 1..MaxMsgs
        <5>1. /\ l \in Seq(M) /\ j \in Nat /\ w \in Seq(M) /\ b \in Seq(M) /\ s \in Seq(M)
              /\ msg \in M /\ l # <<>> /\ msg = l[Len(l)]
          BY <1>2, PieceTypes DEF IInv
        <5>2. Piece(l, j, w, b, s)
          BY <4>1
        <5>3. j + Len(w) + Len(b) + Len(s) + 1 = Len(l)
          BY <4>2
        <5> HIDE DEF l, j, w, b, s, M, Piece
        <5> DEFINE m == msg
        <5>4. m \in M /\ m = l[Len(l)] /\ l # <<>>
          BY <5>1
        <5> HIDE DEF m
        <5>5. Piece(l, j, w, b, Append(s, m)) /\ Len(Append(s, m)) = Len(s) + 1
          BY <5>1, <5>2, <5>3, <5>4, PieceQueued, SMTT(40)
        <5> QED
          BY <5>5 DEF l, j, w, b, s, m
      <4>4. /\ joined[c] \in Nat /\ Len(wire[c]) \in Nat /\ Len(batch[c]) \in Nat
            /\ Len(send[c]) \in Nat
        BY PieceTypes, LenProperties DEF IInv
      <4>5. Size(c)' = Len(log)
        BY <1>1, <1>3, <2>3, <4>2, <4>3, <4>4 DEF Size
      <4> QED
        BY <1>1, <1>3, <2>3, <4>3, <4>5
    <3>4. Len(log) + 0 = Len(log)
      BY LenProperties DEF IInv, TypeOK
    <3> HIDE DEF Piece, Size, Member
    <3> QED
      BY <1>1, <2>1, <2>3, <3>1, <3>2, <3>3, <3>4 DEF FollowsLog
  <2> QED
    BY <2>2, <2>3
<1>5. FInv'
  BY <1>1, <1>2, <1>4 DEF FInv
<1> QED
  BY <1>1, <1>5 DEF Stream!feedVars

\* The pump takes a message from the queue into its frame.
LEMMA TakenFollows ==
    ASSUME IInv, FInv, NEW d \in Conns, WriterReceive(d) \/ WriterDrain(d)
    PROVE  FInv' /\ UNCHANGED Stream!feedVars
<1> USE DEF hubVars, streamVars, pumpVars, chanVars
<1> DEFINE h == Head(send[d])
<1>1. /\ UNCHANGED <<hub, msg, todo, log, joined, wire, handler, clients>>
      /\ send[d] # <<>> /\ send' = [send EXCEPT ![d] = Tail(@)]
      /\ writer[d] \in {"select", "drain"}
  BY DEF WriterReceive, WriterDrain
<1>2. /\ batch' = [batch EXCEPT ![d] = Append(@, h)]
      /\ \A c \in Conns : c # d => writer'[c] = writer[c]
      /\ writer'[d] \in {"count", "drain"}
  <2>1. CASE WriterReceive(d)
    <3>1. batch[d] = <<>>
      BY <2>1 DEF WriterReceive, FInv, FollowsLog
    <3>2. h \in 1..MaxMsgs
      BY <1>1, HeadAndTail DEF IInv, TypeOK
    <3> HIDE DEF h
    <3>3. Append(batch[d], h) = <<h>>
      BY <3>1
    <3>4. batch' = [batch EXCEPT ![d] = <<h>>] /\ writer' = [writer EXCEPT ![d] = "count"]
      BY <2>1 DEF WriterReceive, h
    <3> QED
      BY <3>3, <3>4 DEF IInv, TypeOK
  <2>2. CASE WriterDrain(d)
    BY <2>2 DEF WriterDrain, IInv, TypeOK
  <2> QED
    BY <2>1, <2>2
<1>3. /\ send'[d] = Tail(send[d]) /\ batch'[d] = Append(batch[d], h)
      /\ \A c \in Conns \ {d} : send'[c] = send[c] /\ batch'[c] = batch[c]
  BY <1>1, <1>2 DEF IInv, TypeOK
<1>4. ASSUME NEW c \in Conns PROVE FollowsLog(c)'
  <2>1. FollowsLog(c)
    BY DEF FInv
  <2>2. CASE c # d
    <3>1. Moves(c)
      BY <1>1, <1>2, <2>1, <2>2 DEF Moves, Member, FollowsLog
    <3> QED
      BY <1>1, <1>3, <2>1, <2>2, <3>1, Unconcerned
  <2>3. CASE c = d
    <3>1. handler[c] = "done" /\ Member(c) /\ Member(c)'
      BY <1>1, <2>1, <2>3 DEF FollowsLog, Member
    <3>2. Piece(log, joined[c], wire[c], batch[c], send[c])
      BY <1>1, <2>1, <2>3, <3>1 DEF FollowsLog
    <3>3. /\ Piece(log, joined[c], wire[c], Append(batch[c], h), Tail(send[c]))
          /\ Len(Append(batch[c], h)) + Len(Tail(send[c])) = Len(batch[c]) + Len(send[c])
      <4> DEFINE j == joined[c]
                 w == wire[c]
                 b == batch[c]
                 s == send[c]
                 M == 1..MaxMsgs
      <4>1. /\ log \in Seq(M) /\ j \in Nat /\ w \in Seq(M) /\ b \in Seq(M) /\ s \in Seq(M)
            /\ s # <<>>
        BY <1>1, <2>3, PieceTypes DEF IInv
      <4>2. Piece(log, j, w, b, s)
        BY <3>2
      <4> HIDE DEF j, w, b, s, M, Piece
      <4>3. /\ Piece(log, j, w, Append(b, Head(s)), Tail(s))
            /\ Len(Append(b, Head(s))) + Len(Tail(s)) = Len(b) + Len(s)
        BY <4>1, <4>2, PieceTaken
      <4> QED
        BY <2>3, <4>3 DEF j, w, b, s
    <3>4. /\ h \in 1..MaxMsgs /\ Append(batch[c], h) \in Seq(1..MaxMsgs)
          /\ Append(batch[c], h) # <<>> /\ Tail(send[c]) \in Seq(1..MaxMsgs)
      <4>1. h \in 1..MaxMsgs /\ Tail(send[c]) \in Seq(1..MaxMsgs)
        BY <1>1, <2>3, HeadAndTail DEF IInv, TypeOK
      <4> DEFINE b == batch[c]
                 M == 1..MaxMsgs
      <4>2. b \in Seq(M) /\ h \in M
        BY <4>1, PieceTypes DEF IInv
      <4> HIDE DEF h, b, M
      <4>3. Append(b, h) \in Seq(M) /\ Len(Append(b, h)) = Len(b) + 1 /\ Append(b, h) # <<>>
        BY <4>2, AppendProperties
      <4> QED
        BY <4>1, <4>3 DEF b, M
    <3>5. /\ joined[c] \in Nat /\ Len(wire[c]) \in Nat /\ Len(batch[c]) \in Nat
          /\ Len(send[c]) \in Nat /\ Len(Append(batch[c], h)) \in Nat
          /\ Len(Tail(send[c])) \in Nat
      BY <3>4, PieceTypes, LenProperties DEF IInv
    <3>6. Piece(log, joined[c], wire[c], batch[c], send[c])'
      BY <1>1, <1>3, <2>3, <3>3
    <3>7. Size(c)' = Size(c)
      <4> DEFINE a == Append(batch[c], h)
                 t == Tail(send[c])
      <4>1. /\ joined'[c] = joined[c] /\ wire'[c] = wire[c] /\ batch'[c] = a /\ send'[c] = t
        BY <1>1, <1>3, <2>3
      <4>2. Len(a) + Len(t) = Len(batch[c]) + Len(send[c]) /\ Len(a) \in Nat /\ Len(t) \in Nat
        BY <3>3, <3>5
      <4> HIDE DEF a, t
      <4> QED
        <5>1. Size(c)' = joined'[c] + Len(wire'[c]) + Len(batch'[c]) + Len(send'[c])
          BY DEF Size
        <5>2. /\ joined'[c] = joined[c] /\ Len(wire'[c]) = Len(wire[c])
              /\ Len(batch'[c]) = Len(a) /\ Len(send'[c]) = Len(t)
          BY <4>1
        <5>3. Size(c) = joined[c] + Len(wire[c]) + Len(batch[c]) + Len(send[c])
          BY DEF Size
        <5>4. /\ joined[c] \in Nat /\ Len(wire[c]) \in Nat /\ Len(batch[c]) \in Nat
              /\ Len(send[c]) \in Nat
          BY <3>5
        <5>5. joined[c] + Len(wire[c]) + Len(a) + Len(t)
                 = joined[c] + Len(wire[c]) + Len(batch[c]) + Len(send[c])
          <6> DEFINE j == joined[c]
                     w == Len(wire[c])
                     x == Len(a)
                     y == Len(t)
                     b == Len(batch[c])
                     s == Len(send[c])
          <6>1. /\ j \in Nat /\ w \in Nat /\ b \in Nat /\ s \in Nat /\ x \in Nat /\ y \in Nat
                /\ x + y = b + s
            BY <4>2, <5>4
          <6> HIDE DEF j, w, x, y, b, s
          <6>2. w + x + y = w + b + s
            BY <6>1
          <6>3. j + w + x + y = j + w + b + s
            BY <6>1, <6>2, SameSum
          <6> QED
            BY <6>3 DEF j, w, x, y, b, s
        <5> HIDE DEF Size
        <5> QED
          BY <5>1, <5>2, <5>3, <5>5
    <3>8. batch'[c] # <<>>
      BY <1>3, <2>3, <3>4
    <3> HIDE DEF Piece, Size, Member, h
    <3> QED
      BY <1>1, <1>2, <2>1, <2>3, <3>1, <3>6, <3>7, <3>8 DEF FollowsLog
  <2> QED
    BY <2>2, <2>3
<1>5. FInv'
  BY <1>1, <1>4 DEF FInv
<1>6. \A c \in Conns : writer'[c] = "done" <=> writer[c] = "done"
  BY <1>1, <1>2
<1> QED
  BY <1>1, <1>5, <1>6 DEF Stream!feedVars

\* The frame is flushed: its messages are given to the reader.
LEMMA FlushFollows ==
    ASSUME IInv, FInv, NEW d \in Conns, WriterFlush(d)
    PROVE  FInv' /\ Stream!Give(d)
<1> USE DEF hubVars, streamVars, pumpVars, chanVars
<1>1. /\ UNCHANGED <<hub, msg, todo, log, joined, send, handler, clients>>
      /\ writer[d] = "drain" /\ wire' = [wire EXCEPT ![d] = @ \o batch[d]]
      /\ batch' = [batch EXCEPT ![d] = <<>>] /\ writer' = [writer EXCEPT ![d] = "select"]
  BY DEF WriterFlush
<1>2. /\ wire'[d] = wire[d] \o batch[d] /\ batch'[d] = <<>> /\ writer'[d] = "select"
      /\ \A c \in Conns \ {d} :
            wire'[c] = wire[c] /\ batch'[c] = batch[c] /\ writer'[c] = writer[c]
  BY <1>1 DEF IInv, TypeOK
<1>3. FollowsLog(d)
  BY DEF FInv
<1>4. handler[d] = "done" /\ Member(d) /\ Member(d)' /\ batch[d] # <<>>
  BY <1>1, <1>3 DEF FollowsLog, Member
<1>5. Piece(log, joined[d], wire[d], batch[d], send[d])
  BY <1>1, <1>3, <1>4 DEF FollowsLog
<1>6. /\ Piece(log, joined[d], wire[d] \o batch[d], <<>>, send[d])
      /\ Len(wire[d] \o batch[d]) = Len(wire[d]) + Len(batch[d])
      /\ batch[d] = SubSeq(log, joined[d] + Len(wire[d]) + 1,
                                joined[d] + Len(wire[d]) + Len(batch[d]))
  BY <1>5, PieceTypes, PieceWritten DEF IInv
<1>7. /\ joined[d] \in Nat /\ Len(wire[d]) \in Nat /\ Len(batch[d]) \in Nat
      /\ Len(send[d]) \in Nat /\ Len(log) \in Nat
  BY PieceTypes, LenProperties DEF IInv
<1>8. ASSUME NEW c \in Conns PROVE FollowsLog(c)'
  <2>1. FollowsLog(c)
    BY DEF FInv
  <2>2. CASE c # d
    <3>1. Moves(c)
      BY <1>1, <1>2, <2>1, <2>2 DEF Moves, Member, FollowsLog
    <3> QED
      BY <1>1, <1>2, <2>1, <2>2, <3>1, Unconcerned
  <2>3. CASE c = d
    <3>1. Piece(log, joined[c], wire[c], batch[c], send[c])'
      BY <1>1, <1>2, <1>6, <2>3
    <3>2. Len(<<>>) = 0
      OBVIOUS
    <3>3. Size(c)' = Size(c)
      <4> DEFINE v == wire[d] \o batch[d]
                 e == <<>>
      <4>1. joined'[c] = joined[d] /\ wire'[c] = v /\ batch'[c] = e /\ send'[c] = send[d]
        BY <1>1, <1>2, <2>3
      <4>2. Len(v) = Len(wire[d]) + Len(batch[d]) /\ Len(e) = 0
        BY <1>6, <3>2
      <4> HIDE DEF v, e
      <4> QED
        <5>1. Size(c)' = joined'[c] + Len(wire'[c]) + Len(batch'[c]) + Len(send'[c])
          BY DEF Size
        <5>2. /\ joined'[c] = joined[d] /\ Len(wire'[c]) = Len(v)
              /\ Len(batch'[c]) = 0 /\ Len(send'[c]) = Len(send[d])
          BY <4>1, <4>2
        <5>3. Size(c) = joined[d] + Len(wire[d]) + Len(batch[d]) + Len(send[d])
          BY <2>3 DEF Size
        <5>4. joined[d] + Len(v) + 0 + Len(send[d])
                 = joined[d] + Len(wire[d]) + Len(batch[d]) + Len(send[d])
          <6> DEFINE j == joined[d]
                     w == Len(wire[d])
                     x == Len(v)
                     b == Len(batch[d])
                     s == Len(send[d])
          <6>1. /\ j \in Nat /\ w \in Nat /\ b \in Nat /\ s \in Nat /\ x = w + b
            BY <1>7, <4>2
          <6> HIDE DEF j, w, x, b, s
          <6>2. x + 0 + s = w + b + s /\ x \in Nat
            BY <6>1
          <6>3. j + x + 0 + s = j + w + b + s
            BY <6>1, <6>2, SameSum
          <6> QED
            BY <6>3 DEF j, w, x, b, s
        <5> HIDE DEF Size
        <5> QED
          BY <5>1, <5>2, <5>3, <5>4
    <3> HIDE DEF Piece, Size, Member
    <3> QED
      BY <1>1, <1>2, <1>4, <2>1, <2>3, <3>1, <3>3 DEF FollowsLog
  <2> QED
    BY <2>2, <2>3
<1>9. FInv'
  BY <1>1, <1>8 DEF FInv
<1>10. Stream!Give(d)
  <2> DEFINE seen == joined[d] + Len(wire[d])
             n == Len(batch[d])
  <2>1. n \in 1..(Len(log) - seen)
    <3>1. n # 0
      BY <1>4, EmptySeq, PieceTypes DEF IInv
    <3>2. seen + n + Len(send[d]) <= Len(log)
      BY <1>5 DEF Piece
    <3> QED
      BY <1>7, <3>1, <3>2
  <2>2. wire' = [wire EXCEPT ![d] = @ \o SubSeq(log, seen + 1, seen + n)]
    BY <1>1, <1>6
  <2>3. \A c \in Conns : writer'[c] = "done" <=> writer[c] = "done"
    BY <1>1, <1>2
  <2>4. writer[d] # "done" /\ handler[d] \in {"registered", "done"}
    BY <1>1, <1>4
  <2> HIDE DEF n
  <2> QED
    BY <1>1, <2>1, <2>2, <2>3, <2>4 DEF Stream!Give
<1> QED
  BY <1>9, <1>10

\* The pump returns: its reader is cut off, and what is left is not given.
LEMMA ReturnFollows ==
    ASSUME IInv, FInv, NEW d \in Conns, WriterFails(d) \/ WriterClosed(d)
    PROVE  FInv' /\ Stream!CutOff(d)
<1> USE DEF hubVars, streamVars, pumpVars, chanVars
<1>1. /\ UNCHANGED <<hub, msg, todo, log, joined, wire, send, handler, clients>>
      /\ writer[d] \in {"select", "count", "drain"}
      /\ batch' = [batch EXCEPT ![d] = <<>>] /\ writer' = [writer EXCEPT ![d] = "done"]
  BY DEF WriterFails, WriterClosed, WriterReturn
<1>2. /\ batch'[d] = <<>> /\ writer'[d] = "done"
      /\ \A c \in Conns \ {d} : batch'[c] = batch[c] /\ writer'[c] = writer[c]
  BY <1>1 DEF IInv, TypeOK
<1>3. handler[d] = "done"
  BY <1>1 DEF FInv, FollowsLog
<1>4. ASSUME NEW c \in Conns PROVE FollowsLog(c)'
  <2>1. FollowsLog(c)
    BY DEF FInv
  <2>2. CASE c # d
    <3>1. Moves(c)
      BY <1>1, <1>2, <2>1, <2>2 DEF Moves, Member, FollowsLog
    <3> QED
      BY <1>1, <1>2, <2>1, <2>2, <3>1, Unconcerned
  <2>3. CASE c = d
    BY <1>1, <1>2, <1>3, <2>3 DEF FollowsLog, Member
  <2> QED
    BY <2>2, <2>3
<1>5. FInv'
  BY <1>1, <1>4 DEF FInv
<1>6. \A c \in Conns : writer'[c] = "done" <=> writer[c] = "done" \/ c = d
  BY <1>1, <1>2
<1>7. Stream!CutOff(d)
  BY <1>1, <1>3, <1>6 DEF Stream!CutOff
<1> QED
  BY <1>5, <1>7

\* Every step of the hub is one of the feed, or none.
LEMMA HubFeedStep ==
    ASSUME IInv, FInv, [Next]_vars
    PROVE  FInv' /\ [Stream!Next]_(Stream!feedVars)
<1>1. CASE Quiet
  BY <1>1, QuietFollows
<1>2. CASE HubTake
  BY <1>2, TakeFollows DEF Stream!Next
<1>3. ASSUME NEW d \in Conns, HubRegister(d) PROVE FInv' /\ Stream!Next
  BY <1>3, RegisterFollows DEF Stream!Next
<1>4. ASSUME NEW d \in Conns, HubQueue(d) PROVE FInv' /\ UNCHANGED Stream!feedVars
  BY <1>4, QueueFollows
<1>5. ASSUME NEW d \in Conns, WriterReceive(d) \/ WriterDrain(d)
      PROVE  FInv' /\ UNCHANGED Stream!feedVars
  BY <1>5, TakenFollows
<1>6. ASSUME NEW d \in Conns, WriterFlush(d) PROVE FInv' /\ Stream!Next
  BY <1>6, FlushFollows DEF Stream!Next
<1>7. ASSUME NEW d \in Conns, WriterFails(d) \/ WriterClosed(d) PROVE FInv' /\ Stream!Next
  BY <1>7, ReturnFollows DEF Stream!Next
<1> QED
  BY <1>1, <1>2, <1>3, <1>4, <1>5, <1>6, <1>7
     DEF Next, HubStep, HubVisit, WriterStep, Quiet

\* Hub implements Feed for any number of connections and any capacities: what
\* is written to a client is a piece of the hub's log that begins where the
\* client was registered, without a gap, until its WritePump has returned.
THEOREM HubImplementsFeed == Spec => ImplementsFeed
<1>1. Init => IInv /\ FInv /\ Stream!Init
  BY HubInit, HubFeedInit
<1>2. IInv /\ FInv /\ [Next]_vars => FInv' /\ [Stream!Next]_(Stream!feedVars)
  BY HubFeedStep
<1> QED
  BY <1>1, <1>2, HubInvariant, PTL DEF Spec, ImplementsFeed, Stream!Spec
=============================================================================
