-------------------------- MODULE LogStreamProofs ---------------------------
(* What holds of LogStream for any log and any capacity of the channels,     *)
(* proved.                                                                   *)
EXTENDS LogStream, SequenceTheorems, WellFoundedInduction, TLAPS

-----------------------------------------------------------------------------
(* Sequences. *)

LEMMA OneMore ==
    ASSUME NEW S, NEW s \in Seq(S), NEW a \in S
    PROVE  s \o <<a>> = Append(s, a) /\ Append(s, a) \in Seq(S)
<1>1. <<a>> \in Seq(S) /\ Len(<<a>>) = 1 /\ <<a>>[1] = a
  OBVIOUS
<1>2. Append(s, a) \in Seq(S) /\ Len(Append(s, a)) = Len(s) + 1
      /\ \A i \in 1..(Len(s) + 1) : Append(s, a)[i] = IF i <= Len(s) THEN s[i] ELSE a
  OBVIOUS
<1> DEFINE c == s \o <<a>>
<1>3. c \in Seq(S) /\ Len(c) = Len(s) + 1
      /\ \A i \in 1..(Len(s) + 1) : c[i] = IF i <= Len(s) THEN s[i] ELSE <<a>>[i - Len(s)]
  BY <1>1, ConcatProperties
<1>4. Len(s) \in Nat
  BY LenProperties
<1> HIDE DEF c
<1>5. ASSUME NEW i \in 1..Len(c) PROVE c[i] = Append(s, a)[i]
  BY <1>1, <1>2, <1>3, <1>4
<1>6. c = Append(s, a)
  BY <1>2, <1>3, <1>5, SeqEqual
<1> QED
  BY <1>2, <1>6 DEF c

LEMMA AppendAfter ==
    ASSUME NEW S, NEW s \in Seq(S), NEW t \in Seq(S), NEW a \in S
    PROVE  s \o Append(t, a) = Append(s \o t, a)
<1>1. s \o t \in Seq(S) /\ <<a>> \in Seq(S)
  BY ConcatProperties
<1>2. (s \o t) \o <<a>> = s \o (t \o <<a>>)
  BY <1>1, ConcatAssociative
<1> QED
  BY <1>1, <1>2, OneMore

\* Receiving moves an element from one sequence to the one before it.
LEMMA HeadMoves ==
    ASSUME NEW S, NEW s \in Seq(S), NEW t \in Seq(S), t # <<>>
    PROVE  /\ Head(t) \in S /\ Tail(t) \in Seq(S) /\ Append(s, Head(t)) \in Seq(S)
           /\ Append(s, Head(t)) \o Tail(t) = s \o t
<1> DEFINE h == Head(t)
           r == Tail(t)
<1>1. h \in S /\ r \in Seq(S)
  BY HeadTailProperties
<1>2. <<h>> \in Seq(S)
  BY <1>1
<1>3. t = <<h>> \o r
  <2>1. Len(t) \in Nat /\ 1 <= Len(t) /\ h = t[1]
    BY EmptySeq
  <2>2. Len(r) = Len(t) - 1 /\ \A i \in 1..Len(r) : r[i] = t[i + 1]
    BY HeadTailProperties
  <2> DEFINE c == <<h>> \o r
  <2>3. c \in Seq(S) /\ Len(c) = 1 + Len(r)
        /\ \A i \in 1..(1 + Len(r)) : c[i] = IF i <= 1 THEN h ELSE r[i - 1]
    <3>1. Len(<<h>>) = 1 /\ <<h>>[1] = h
      OBVIOUS
    <3> DEFINE one == <<h>>
    <3>2. one \in Seq(S) /\ Len(one) = 1 /\ one[1] = h
      BY <1>2, <3>1
    <3>3. Len(r) \in Nat
      BY <2>1, <2>2
    <3> HIDE DEF one, r
    <3>4. one \o r \in Seq(S) /\ Len(one \o r) = Len(one) + Len(r)
          /\ \A i \in 1..(Len(one) + Len(r)) :
                (one \o r)[i] = IF i <= Len(one) THEN one[i] ELSE r[i - Len(one)]
      BY <1>1, <3>2, ConcatProperties
    <3>5. \A i \in 1..(1 + Len(r)) : (one \o r)[i] = IF i <= 1 THEN h ELSE r[i - 1]
      BY <3>2, <3>3, <3>4
    <3> QED
      BY <3>2, <3>4, <3>5 DEF one
  <2> HIDE DEF c, r, h
  <2>4. \A i \in 1..Len(t) : t[i] = c[i]
    BY <2>1, <2>2, <2>3
  <2>5. t = c
    BY <2>1, <2>2, <2>3, <2>4, SeqEqual
  <2> QED
    BY <2>5 DEF c
<1> HIDE DEF h, r
<1>4. (s \o <<h>>) \o r = s \o (<<h>> \o r)
  BY <1>1, <1>2, ConcatAssociative
<1>5. s \o <<h>> = Append(s, h) /\ Append(s, h) \in Seq(S)
  BY <1>1, OneMore
<1> QED
  BY <1>1, <1>3, <1>4, <1>5 DEF h, r

LEMMA PrefixOfConcat ==
    ASSUME NEW S, NEW s \in Seq(S), NEW t \in Seq(S)
    PROVE  SubSeq(s \o t, 1, Len(s)) = s
<1>1. Len(s) \in Nat
  BY LenProperties
<1>2. CASE s = <<>>
  <2>1. Len(s) = 0
    BY <1>2
  <2> QED
    BY <1>2, <2>1, SubSeqEmpty
<1>3. CASE s # <<>>
  <2>1. Len(s) \in 1..Len(s) /\ 1 \in 1..Len(s)
    BY <1>1, <1>3, EmptySeq
  <2>2. SubSeq(s \o t, 1, Len(s)) = SubSeq(s, 1, Len(s))
    BY <2>1, SubSeqOfConcat1
  <2> QED
    BY <2>2, SubSeqFull
<1> QED
  BY <1>2, <1>3

-----------------------------------------------------------------------------
(* The chunks of a stream. *)

Split(x, f, i) ==
    IF i = 0 THEN <<>> ELSE IF log[i] = x THEN Append(f[i - 1], i) ELSE f[i - 1]
Chunks(x) == CHOOSE f : f = [i \in 0..Len(log) |-> Split(x, f, i)]

LEMMA ChunksOfIsChunks == ASSUME NEW x, NEW n PROVE ChunksOf(x, n) = Chunks(x)[n]
  BY DEF ChunksOf, Chunks, Split

\* The recursion defines a function.
LEMMA ChunksExist ==
    ASSUME Len(log) \in Nat, NEW x
    PROVE  Chunks(x) = [i \in 0..Len(log) |-> Split(x, Chunks(x), i)]
<1> DEFINE chunks(f, n) == f = [i \in 0..n |-> Split(x, f, i)]
           good(n) == \E f : chunks(f, n)
           wrong == {n \in Nat : ~good(n)}
<1>1. good(0)
  <2>1. chunks([i \in 0..0 |-> <<>>], 0)
    BY DEF Split
  <2> QED
    BY <2>1
<1>2. ASSUME NEW n \in Nat, good(n) PROVE good(n + 1)
  <2>1. PICK f : chunks(f, n)
    BY <1>2
  <2> DEFINE g == [i \in 0..(n + 1) |-> Split(x, f, i)]
  <2>2. ASSUME NEW i \in 0..(n + 1) PROVE Split(x, g, i) = Split(x, f, i)
    <3>1. CASE i = 0
      BY <3>1 DEF Split
    <3>2. CASE i # 0
      <4>1. i - 1 \in 0..n /\ i - 1 \in 0..(n + 1)
        BY <3>2
      <4>2. g[i - 1] = f[i - 1]
        BY <2>1, <4>1
      <4> QED
        BY <3>2, <4>2 DEF Split
    <3> QED
      BY <3>1, <3>2
  <2>3. chunks(g, n + 1)
    BY <2>2
  <2> QED
    BY <2>3
<1> HIDE DEF good
<1>3. wrong = {}
  <2> SUFFICES ASSUME wrong # {} PROVE FALSE
    OBVIOUS
  <2>1. wrong \in SUBSET Nat
    OBVIOUS
  <2> HIDE DEF wrong
  <2>2. PICK n \in wrong : \A k \in wrong : <<k, n>> \notin OpToRel(<, Nat)
    BY <2>1, NatLessThanWellFounded, WFMin, Zenon
  <2>3. \A k \in wrong : ~(k < n)
    BY <2>1, <2>2 DEF OpToRel
  <2> USE DEF wrong
  <2>4. n # 0
    BY <1>1
  <2>5. n - 1 \in Nat /\ n - 1 < n
    BY <2>4
  <2>6. good(n - 1)
    BY <2>3, <2>5
  <2>7. good((n - 1) + 1)
    BY <1>2, <2>5, <2>6
  <2> QED
    BY <2>7
<1>4. PICK f : chunks(f, Len(log))
  BY <1>3 DEF good
<1> QED
  BY <1>4 DEF Chunks

LEMMA ChunksOfNone == ASSUME Len(log) \in Nat, NEW x PROVE ChunksOf(x, 0) = <<>>
<1> DEFINE f == Chunks(x)
<1>1. f = [i \in 0..Len(log) |-> Split(x, f, i)]
  BY ChunksExist
<1> HIDE DEF f
<1>2. f[0] = Split(x, f, 0)
  BY <1>1
<1> QED
  BY <1>2, ChunksOfIsChunks DEF Split, f

LEMMA ChunksOfMore ==
    ASSUME Len(log) \in Nat, NEW x, NEW n \in Nat, n < Len(log)
    PROVE  ChunksOf(x, n + 1) = IF log[n + 1] = x THEN Append(ChunksOf(x, n), n + 1)
                                ELSE ChunksOf(x, n)
<1> DEFINE f == Chunks(x)
<1>1. f = [i \in 0..Len(log) |-> Split(x, f, i)]
  BY ChunksExist
<1> HIDE DEF f
<1>2. f[n + 1] = Split(x, f, n + 1)
  BY <1>1
<1>3. (n + 1) - 1 = n /\ n + 1 # 0
  OBVIOUS
<1>4. f[n + 1] = IF log[n + 1] = x THEN Append(f[n], n + 1) ELSE f[n]
  BY <1>2, <1>3 DEF Split
<1> QED
  BY <1>4, ChunksOfIsChunks DEF f

-----------------------------------------------------------------------------
(* Where a chunk can be, and who has ended when. *)

\* A terminal's log goes through main, another's through the copier and the
\* pumps, and each of them has a chunk in hand in one state only.
Hands ==
    /\ tty => /\ copier = "off" /\ main # "wait" /\ held["stderr"] = Empty
              /\ \A i \in 1..Len(log) : log[i] = "stdout"
    /\ main \in {"read", "send"} => tty
    /\ main = "open" => copier = "off" /\ held["stdout"] = Empty /\ ~failed
    /\ copier = "off" => /\ \A x \in Streams : pump[x] = "off" /\ pipe[x] = Empty
                         /\ main \in {"read", "send"} => ~failed
                         /\ ~tty => \A x \in Streams : held[x] = Empty
    /\ copier # "off" => ~tty /\ main # "open" /\ ~failed /\ \A x \in Streams : pump[x] # "off"
    /\ copier # "write" => \A x \in Streams : pipe[x] = Empty
    /\ main = "read" => held["stdout"] = Empty
    /\ main = "send" => held["stdout"] # Empty
    /\ \A x \in Streams : /\ pump[x] = "read" => held[x] = Empty
                          /\ pump[x] = "send" => held[x] # Empty

\* Nobody ends by itself before the one that feeds it has.
Ends ==
    /\ pipeClosed["stderr"] => copier \in {"close", "done"}
    /\ pipeClosed["stdout"] => copier = "done"
    /\ copier \in {"close", "done"} => pipeClosed["stderr"] /\ (pos = Len(log) \/ broken \/ ctxDone)
    /\ \A x \in Streams : pump[x] = "done" /\ ~ctxDone => held[x] = Empty /\ pipeClosed[x]
    /\ done => pump["stderr"] = "done"
    /\ main \in {"close", "close stdout", "done"} /\ ~ctxDone /\ ~failed =>
          IF tty THEN (pos = Len(log) \/ broken) /\ held["stdout"] = Empty ELSE done
    /\ main = "wait" => copier # "off"
    /\ closed["stderr"] => main \in {"close stdout", "done"}
    /\ closed["stdout"] => main = "done"

\* All but the contents of the channels.
ControlType ==
    /\ log \in Seq(Streams) /\ pos \in 0..Len(log)
    /\ tty \in BOOLEAN /\ ctxDone \in BOOLEAN /\ broken \in BOOLEAN /\ failed \in BOOLEAN
    /\ main \in {"open", "read", "send", "wait", "close", "close stdout", "done"}
    /\ copier \in {"off", "copy", "write", "close", "done"}
    /\ pump \in [Streams -> {"off", "read", "send", "done"}]
    /\ pipe \in [Streams -> 0..Len(log)] /\ held \in [Streams -> 0..Len(log)]
    /\ pipeClosed \in [Streams -> BOOLEAN] /\ closed \in [Streams -> BOOLEAN]
    /\ done \in BOOLEAN /\ panicked \in BOOLEAN

CInv == ControlType /\ Hands /\ Ends

\* What has been read is in the channels, or on its way there, in order.
Item(c) == IF c = Empty THEN <<>> ELSE <<c>>
OnTheWay(x) == (Sent(x) \o Item(held[x])) \o Item(pipe[x])
ChannelType ==
    channel \in [Streams -> Seq(1..Len(log))] /\ got \in [Streams -> Seq(1..Len(log))]
Flow == \A x \in Streams : OnTheWay(x) = ChunksOf(x, pos)

LInv == CInv /\ ChannelType /\ Flow

LEMMA LogStreamInit == Init => LInv
<1> SUFFICES ASSUME Init PROVE LInv
  OBVIOUS
<1>1. log \in Seq(Streams) /\ Len(log) \in Nat
  <2>1. PICK n \in 0..MaxChunks : log \in [1..n -> Streams]
    BY LogAssumption DEF Init
  <2>2. n \in Nat
    BY <2>1, LogAssumption
  <2>3. log \in Seq(Streams)
    BY <2>1, <2>2, SeqDef
  <2> QED
    BY <2>3, LenProperties
<1>2. ControlType
  <2>1. Empty \in 0..Len(log) /\ pos \in 0..Len(log)
    BY <1>1 DEF Init, Empty
  <2> QED
    BY <1>1, <2>1 DEF Init, ControlType
<1>3. \A i \in 1..Len(log) : tty => log[i] = "stdout"
  <2>1. DOMAIN log = 1..Len(log)
    BY <1>1, LenProperties
  <2> QED
    BY <2>1 DEF Init
<1>4. Hands /\ Ends
  BY <1>3 DEF Init, Hands, Ends, Streams
<1>5. ChannelType
  BY DEF Init, ChannelType
<1>6. ASSUME NEW x \in Streams PROVE OnTheWay(x) = ChunksOf(x, pos)
  <2>1. ChunksOf(x, pos) = <<>>
    BY <1>1, ChunksOfNone DEF Init
  <2>2. <<>> \o <<>> = <<>>
    BY EmptySeq, ConcatEmptySeq
  <2> QED
    BY <2>1, <2>2 DEF Init, OnTheWay, Sent, Item
<1> QED
  BY <1>2, <1>4, <1>5, <1>6 DEF LInv, CInv, Flow

\* One lemma for each step, as far as control goes.
LEMMA OpenControl ==
    CInv /\ (Cancel \/ ReaderBreaks \/ Open \/ OpenFails \/ (\E x \in Streams : Receive(x))
             \/ UNCHANGED vars)
        => CInv'
<1> SUFFICES ASSUME CInv,
             Cancel \/ ReaderBreaks \/ Open \/ OpenFails \/ (\E x \in Streams : Receive(x)) \/ UNCHANGED vars
             PROVE  CInv'
  OBVIOUS
<1>1. CASE Cancel
  BY <1>1 DEF CInv, ControlType, Hands, Ends, Cancel, workers, output
<1>2. CASE Open
  <2>1. ControlType'
    BY <1>2 DEF CInv, ControlType, Open, input, output
  <2>2. Hands'
    BY <1>2 DEF CInv, ControlType, Hands, Open, input, output, Streams
  <2>3. Ends'
    BY <1>2 DEF CInv, ControlType, Hands, Ends, Open, input, output, Streams
  <2> QED
    BY <2>1, <2>2, <2>3 DEF CInv
<1>3. CASE OpenFails
  BY <1>3 DEF CInv, ControlType, Hands, Ends, OpenFails, input, workers, output
<1>4. CASE \E x \in Streams : Receive(x)
  <2>1. UNCHANGED <<input, failed, pos, main, workers, held, done, closed, panicked>>
    BY <1>4 DEF Receive
  <2> QED
    BY <2>1 DEF CInv, ControlType, Hands, Ends, input, workers
<1>5. CASE UNCHANGED vars
  BY <1>5 DEF CInv, ControlType, Hands, Ends, vars, input, workers, output
<1>6. CASE ReaderBreaks
  BY <1>6 DEF CInv, ControlType, Hands, Ends, ReaderBreaks, workers, output
<1> QED
  BY <1>1, <1>2, <1>3, <1>4, <1>5, <1>6

LEMMA TerminalControl == CInv /\ (TTYRead \/ TTYSend \/ TTYEnds) => CInv'
<1> SUFFICES ASSUME CInv, TTYRead \/ TTYSend \/ TTYEnds PROVE CInv'
  OBVIOUS
<1>0. Len(log) \in Nat /\ Empty \in 0..Len(log) /\ {"stdout", "stderr"} \subseteq Streams
  <2>1. Len(log) \in Nat
    BY LenProperties DEF CInv, ControlType
  <2> QED
    BY <2>1 DEF Empty, Streams
<1>1. CASE TTYRead
  <2>1. pos + 1 \in 1..Len(log)
    BY <1>0, <1>1 DEF CInv, ControlType, TTYRead
  <2>2. ControlType'
    <3>1. held' \in [Streams -> 0..Len(log)] /\ pos' \in 0..Len(log)
      BY <1>0, <1>1, <2>1 DEF CInv, ControlType, TTYRead
    <3> QED
      BY <1>1, <3>1 DEF CInv, ControlType, TTYRead, input, workers, output
  <2>3. Hands'
    BY <1>1, <2>1 DEF CInv, ControlType, Hands, TTYRead, input, workers, output, Streams, Empty
  <2>4. Ends'
    BY <1>1, <2>1 DEF CInv, ControlType, Hands, Ends, TTYRead, input, workers, output, Streams
  <2> QED
    BY <2>2, <2>3, <2>4 DEF CInv
<1>2. CASE TTYSend
  <2>1. ControlType'
    BY <1>0, <1>2 DEF CInv, ControlType, TTYSend, input, workers
  <2>2. Hands'
    BY <1>2 DEF CInv, ControlType, Hands, TTYSend, input, workers, Streams, Empty
  <2>3. Ends'
    BY <1>2 DEF CInv, ControlType, Hands, Ends, TTYSend, input, workers, Streams
  <2> QED
    BY <2>1, <2>2, <2>3 DEF CInv
<1>3. CASE TTYEnds
  BY <1>3 DEF CInv, ControlType, Hands, Ends, TTYEnds, input, workers, output
<1> QED
  BY <1>1, <1>2, <1>3

LEMMA CloseControl == CInv /\ (MuxEnds \/ \E x \in Streams : CloseChannel(x)) => CInv'
<1> SUFFICES ASSUME CInv, MuxEnds \/ \E x \in Streams : CloseChannel(x) PROVE CInv'
  OBVIOUS
<1>1. CASE MuxEnds
  BY <1>1 DEF CInv, ControlType, Hands, Ends, MuxEnds, input, workers, output
<1>2. CASE \E x \in Streams : CloseChannel(x)
  <2>1. PICK x \in Streams : CloseChannel(x)
    BY <1>2
  <2> QED
    BY <2>1 DEF CInv, ControlType, Hands, Ends, CloseChannel, input, workers, Streams
<1> QED
  BY <1>1, <1>2

LEMMA CopierControl == CInv /\ CopierStep => CInv'
<1> SUFFICES ASSUME CInv, CopierStep PROVE CInv'
  OBVIOUS
<1>0. Len(log) \in Nat /\ Empty \in 0..Len(log) /\ {"stdout", "stderr"} \subseteq Streams
  <2>1. Len(log) \in Nat
    BY LenProperties DEF CInv, ControlType
  <2> QED
    BY <2>1 DEF Empty, Streams
<1>1. CASE Copy
  <2>1. pos + 1 \in 1..Len(log) /\ log[pos + 1] \in Streams
    BY <1>0, <1>1, ElementOfSeq DEF CInv, ControlType, Copy
  <2>2. ControlType'
    BY <1>1, <2>1 DEF CInv, ControlType, Copy, input, output
  <2>3. Hands'
    BY <1>1, <2>1 DEF CInv, ControlType, Hands, Copy, input, output
  <2>4. Ends'
    BY <1>1, <2>1 DEF CInv, ControlType, Hands, Ends, Copy, input, output
  <2> QED
    BY <2>2, <2>3, <2>4 DEF CInv
<1>2. CASE CopyWritten
  BY <1>2 DEF CInv, ControlType, Hands, Ends, CopyWritten, input, output
<1>3. CASE \E x \in Streams : CopyEnds(x)
  <2>1. PICK x \in Streams : CopyEnds(x)
    BY <1>3
  <2>2. CASE x = "stderr"
    <3>1. pos = Len(log) \/ broken \/ ctxDone
      BY <2>1, <2>2 DEF CInv, ControlType, Hands, Ends, CopyEnds, ReadFails, Streams
    <3>2. ControlType' /\ Hands'
      BY <2>1, <2>2 DEF CInv, ControlType, Hands, CopyEnds, input, output, Streams
    <3>3. Ends'
      BY <2>1, <2>2, <3>1 DEF CInv, ControlType, Hands, Ends, CopyEnds, input, output, Streams
    <3> QED
      BY <3>2, <3>3 DEF CInv
  <2>3. CASE x = "stdout"
    BY <2>1, <2>3 DEF CInv, ControlType, Hands, Ends, CopyEnds, input, output, Streams
  <2> QED
    BY <2>2, <2>3 DEF Streams
<1> QED
  BY <1>1, <1>2, <1>3 DEF CopierStep

LEMMA PumpControl == ASSUME CInv, NEW x \in Streams, PumpStep(x) PROVE CInv'
<1>0. Len(log) \in Nat /\ Empty \in 0..Len(log) /\ {"stdout", "stderr"} \subseteq Streams
  <2>1. Len(log) \in Nat
    BY LenProperties DEF CInv, ControlType
  <2> QED
    BY <2>1 DEF Empty, Streams
<1>1. CASE PumpRead(x)
  <2>1. ControlType'
    BY <1>0, <1>1 DEF CInv, ControlType, PumpRead, input, output
  <2>2. Hands'
    BY <1>1 DEF CInv, ControlType, Hands, PumpRead, input, output, Streams
  <2>3. Ends'
    BY <1>1 DEF CInv, ControlType, Hands, Ends, PumpRead, input, output, Streams
  <2> QED
    BY <2>1, <2>2, <2>3 DEF CInv
<1>2. CASE PumpSend(x)
  <2>1. ControlType'
    BY <1>0, <1>2 DEF CInv, ControlType, PumpSend, input
  <2>2. Hands'
    BY <1>2 DEF CInv, ControlType, Hands, PumpSend, input, Streams
  <2>3. Ends'
    BY <1>2 DEF CInv, ControlType, Hands, Ends, PumpSend, input, Streams
  <2> QED
    BY <2>1, <2>2, <2>3 DEF CInv
<1>3. CASE PumpEnds(x)
  <2>1. ControlType'
    BY <1>3 DEF CInv, ControlType, PumpEnds, input, output
  <2>2. Hands'
    BY <1>3 DEF CInv, ControlType, Hands, PumpEnds, input, output, Streams
  <2>3. Ends'
    BY <1>3 DEF CInv, ControlType, Hands, Ends, PumpEnds, input, output, Streams
  <2> QED
    BY <2>1, <2>2, <2>3 DEF CInv
<1> QED
  BY <1>1, <1>2, <1>3 DEF PumpStep

-----------------------------------------------------------------------------
(* The contents. *)

Way(s, h, p) == (s \o Item(h)) \o Item(p)

\* A chunk that moves on keeps its place, and one that comes is the last.
LEMMA WayMoves ==
    ASSUME NEW S, NEW s \in Seq(S), NEW c \in S, Empty \notin S
    PROVE  /\ \A p \in S \cup {Empty} : Way(Append(s, c), Empty, p) = Way(s, c, p)
           /\ Way(s, c, Empty) = Way(s, Empty, c)
<1>1. /\ Item(Empty) = <<>> /\ Item(c) = <<c>> /\ <<>> \in Seq(S) /\ <<c>> \in Seq(S)
      /\ \A p \in S \cup {Empty} : Item(p) \in Seq(S)
  BY DEF Item
<1>2. \A q \in Seq(S) : q \o <<>> = q /\ q \o <<c>> = Append(q, c) /\ Append(q, c) \in Seq(S)
  BY ConcatEmptySeq, OneMore
<1> QED
  BY <1>1, <1>2 DEF Way

LEMMA WayGrows ==
    ASSUME NEW S, NEW s \in Seq(S), NEW h \in S \cup {Empty}, NEW c \in S, Empty \notin S
    PROVE  /\ Way(s, h, c) = Append(Way(s, h, Empty), c)
           /\ Way(s, c, Empty) = Append(Way(s, Empty, Empty), c)
<1>1. /\ Item(Empty) = <<>> /\ Item(c) = <<c>> /\ Item(h) \in Seq(S)
  BY DEF Item
<1>2. \A q \in Seq(S) : q \o <<>> = q /\ q \o <<c>> = Append(q, c) /\ Append(q, c) \in Seq(S)
  BY ConcatEmptySeq, OneMore
<1> DEFINE w == s \o Item(h)
<1>3. w \in Seq(S)
  BY <1>1, ConcatProperties
<1>4. Way(s, h, c) = w \o <<c>> /\ Way(s, h, Empty) = w \o <<>>
  BY <1>1 DEF Way
<1>5. Way(s, c, Empty) = (s \o <<c>>) \o <<>> /\ Way(s, Empty, Empty) = (s \o <<>>) \o <<>>
  BY <1>1 DEF Way
<1> HIDE DEF w
<1>6. Way(s, h, c) = Append(Way(s, h, Empty), c)
  BY <1>2, <1>3, <1>4
<1>7. Way(s, c, Empty) = Append(Way(s, Empty, Empty), c)
  BY <1>2, <1>5
<1> QED
  BY <1>6, <1>7

LEMMA WayOfNext ==
    ASSUME NEW x, log' = log
    PROVE  ChunksOf(x, pos)' = ChunksOf(x, pos')
  BY DEF ChunksOf

LEMMA WayIsOnTheWay ==
    /\ \A x : OnTheWay(x) = Way(Sent(x), held[x], pipe[x])
    /\ \A x : OnTheWay(x)' = Way(Sent(x)', held'[x], pipe'[x])
  BY DEF OnTheWay, Way, Item

LEMMA FlowTypes ==
    ASSUME CInv, ChannelType, NEW x \in Streams
    PROVE  /\ channel[x] \in Seq(1..Len(log)) /\ got[x] \in Seq(1..Len(log))
           /\ Sent(x) \in Seq(1..Len(log))
           /\ held[x] \in 1..Len(log) \cup {Empty} /\ pipe[x] \in 1..Len(log) \cup {Empty}
           /\ Empty \notin 1..Len(log) /\ Len(log) \in Nat
<1>1. channel[x] \in Seq(1..Len(log)) /\ got[x] \in Seq(1..Len(log))
  BY DEF ChannelType
<1>2. Sent(x) \in Seq(1..Len(log))
  BY <1>1, ConcatProperties DEF Sent
<1>3. Len(log) \in Nat
  BY LenProperties DEF CInv, ControlType
<1>4. held[x] \in 1..Len(log) \cup {Empty} /\ pipe[x] \in 1..Len(log) \cup {Empty}
  <2>1. held[x] \in 0..Len(log) /\ pipe[x] \in 0..Len(log)
    BY DEF CInv, ControlType
  <2> DEFINE n == Len(log)
  <2>2. \A k \in 0..n : k \in 1..n \cup {Empty}
    BY <1>3 DEF Empty
  <2> QED
    BY <2>1, <2>2
<1> QED
  BY <1>1, <1>2, <1>3, <1>4 DEF Empty

\* Steps that move no chunk.
LEMMA FlowRests ==
    ASSUME LInv, UNCHANGED <<log, pos, held, pipe, channel, got>>
    PROVE  ChannelType' /\ Flow'
<1>1. ChannelType'
  BY DEF LInv, ChannelType
<1>2. ASSUME NEW x \in Streams PROVE (OnTheWay(x) = ChunksOf(x, pos))'
  <2>1. Sent(x)' = Sent(x)
    BY DEF Sent
  <2>2. ChunksOf(x, pos)' = ChunksOf(x, pos) /\ OnTheWay(x) = ChunksOf(x, pos)
    BY WayOfNext DEF LInv, Flow
  <2> QED
    BY <2>1, <2>2, WayIsOnTheWay
<1> QED
  BY <1>1, <1>2 DEF Flow

LEMMA ReceiveFlow ==
    ASSUME LInv, NEW y \in Streams, Receive(y)
    PROVE  ChannelType' /\ Flow'
<1> DEFINE S == 1..Len(log)
<1>1. channel[y] \in Seq(S) /\ got[y] \in Seq(S) /\ channel[y] # <<>>
  BY FlowTypes DEF LInv, Receive
<1>2. /\ Tail(channel[y]) \in Seq(S) /\ Append(got[y], Head(channel[y])) \in Seq(S)
      /\ Append(got[y], Head(channel[y])) \o Tail(channel[y]) = got[y] \o channel[y]
  BY <1>1, HeadMoves
<1>3. ChannelType'
  BY <1>2 DEF LInv, ChannelType, Receive, input
<1>4. \A x \in Streams : Sent(x)' = Sent(x)
  BY <1>2 DEF LInv, ChannelType, Receive, Sent
<1>5. UNCHANGED <<log, pos, held, pipe>>
  BY DEF Receive, input, workers
<1>6. ASSUME NEW x \in Streams PROVE (OnTheWay(x) = ChunksOf(x, pos))'
  BY <1>4, <1>5, WayIsOnTheWay, WayOfNext DEF LInv, Flow
<1> QED
  BY <1>3, <1>6 DEF Flow

\* A chunk goes from a hand into the channel.
LEMMA SendFlow ==
    ASSUME LInv, NEW y \in Streams, held[y] # Empty,
           channel' = [channel EXCEPT ![y] = Append(@, held[y])],
           held' = [held EXCEPT ![y] = Empty],
           UNCHANGED <<log, pos, pipe, got>>
    PROVE  ChannelType' /\ Flow'
<1> DEFINE S == 1..Len(log)
<1>1. /\ channel[y] \in Seq(S) /\ got[y] \in Seq(S) /\ Sent(y) \in Seq(S)
      /\ held[y] \in S /\ pipe[y] \in S \cup {Empty} /\ Empty \notin S
  BY FlowTypes DEF LInv
<1>2. /\ Append(channel[y], held[y]) \in Seq(S)
      /\ got[y] \o Append(channel[y], held[y]) = Append(Sent(y), held[y])
  <2> DEFINE c == channel[y]
             g == got[y]
             h == held[y]
  <2>1. c \in Seq(S) /\ g \in Seq(S) /\ h \in S
    BY <1>1
  <2>2. Sent(y) = g \o c
    BY DEF Sent
  <2> HIDE DEF S, c, g, h
  <2>3. Append(c, h) \in Seq(S)
    BY <2>1, OneMore
  <2>4. g \o Append(c, h) = Append(g \o c, h)
    BY <2>1, AppendAfter
  <2> QED
    BY <2>2, <2>3, <2>4 DEF c, g, h
<1>3. ChannelType'
  BY <1>2 DEF LInv, ChannelType
<1>4. Sent(y)' = Append(Sent(y), held[y]) /\ held'[y] = Empty
  BY <1>2 DEF LInv, CInv, ControlType, ChannelType, Sent
<1>5. \A x \in Streams \ {y} : Sent(x)' = Sent(x) /\ held'[x] = held[x]
  BY DEF LInv, CInv, ControlType, ChannelType, Sent
<1>6. Way(Append(Sent(y), held[y]), Empty, pipe[y]) = Way(Sent(y), held[y], pipe[y])
  <2> DEFINE s == Sent(y)
             h == held[y]
             p == pipe[y]
  <2>1. s \in Seq(S) /\ h \in S /\ p \in S \cup {Empty} /\ Empty \notin S
    BY <1>1
  <2> HIDE DEF S, s, h, p
  <2>2. Way(Append(s, h), Empty, p) = Way(s, h, p)
    BY <2>1, WayMoves
  <2> QED
    BY <2>2 DEF s, h, p
<1>7. ASSUME NEW x \in Streams PROVE (OnTheWay(x) = ChunksOf(x, pos))'
  <2>1. ChunksOf(x, pos)' = ChunksOf(x, pos) /\ OnTheWay(x) = ChunksOf(x, pos)
    BY WayOfNext DEF LInv, Flow
  <2>2. CASE x = y
    BY <1>4, <1>6, <2>1, <2>2, WayIsOnTheWay
  <2>3. CASE x # y
    BY <1>5, <2>1, <2>3, WayIsOnTheWay
  <2> QED
    BY <2>2, <2>3
<1> QED
  BY <1>3, <1>7 DEF Flow

\* A chunk goes from a pipe into a pump's hand.
LEMMA PumpReadFlow ==
    ASSUME LInv, NEW y \in Streams, PumpRead(y)
    PROVE  ChannelType' /\ Flow'
<1> DEFINE S == 1..Len(log)
<1>1. Sent(y) \in Seq(S) /\ pipe[y] \in S /\ Empty \notin S
  BY FlowTypes DEF LInv, PumpRead
<1>2. held[y] = Empty
  BY DEF LInv, CInv, Hands, PumpRead
<1>3. UNCHANGED <<log, pos, channel, got>>
  BY DEF PumpRead, input, output
<1>4. Way(Sent(y), pipe[y], Empty) = Way(Sent(y), Empty, pipe[y])
  BY <1>1, WayMoves
<1>5. \A x \in Streams : Sent(x)' = Sent(x)
  BY <1>3 DEF Sent
<1>6. /\ held'[y] = pipe[y] /\ pipe'[y] = Empty
      /\ \A x \in Streams \ {y} : held'[x] = held[x] /\ pipe'[x] = pipe[x]
  BY DEF LInv, CInv, ControlType, PumpRead
<1>7. ASSUME NEW x \in Streams PROVE (OnTheWay(x) = ChunksOf(x, pos))'
  <2>1. ChunksOf(x, pos)' = ChunksOf(x, pos) /\ OnTheWay(x) = ChunksOf(x, pos)
    BY <1>3, WayOfNext DEF LInv, Flow
  <2>2. CASE x = y
    BY <1>2, <1>4, <1>5, <1>6, <2>1, <2>2, WayIsOnTheWay
  <2>3. CASE x # y
    BY <1>5, <1>6, <2>1, <2>3, WayIsOnTheWay
  <2> QED
    BY <2>2, <2>3
<1> QED
  BY <1>3, <1>7 DEF LInv, ChannelType, Flow

\* The next chunk of the log is taken, into a pipe or into main's hand.
LEMMA TakeFlow ==
    ASSUME LInv, pos < Len(log), pos' = pos + 1,
           pipe[log[pos + 1]] = Empty,
           \/ /\ UNCHANGED held /\ pipe' = [pipe EXCEPT ![log[pos + 1]] = pos + 1]
           \/ /\ held[log[pos + 1]] = Empty
              /\ UNCHANGED pipe /\ held' = [held EXCEPT ![log[pos + 1]] = pos + 1],
           UNCHANGED <<log, channel, got>>
    PROVE  ChannelType' /\ Flow'
<1> DEFINE S == 1..Len(log)
           y == log[pos + 1]
           c == pos + 1
<1>0. pos \in Nat /\ Len(log) \in Nat /\ c \in S
  <2>1. pos \in 0..Len(log) /\ Len(log) \in Nat
    BY LenProperties DEF LInv, CInv, ControlType
  <2> QED
    BY <2>1
<1>1. y \in Streams
  BY <1>0, ElementOfSeq DEF LInv, CInv, ControlType
<1>2. Sent(y) \in Seq(S) /\ held[y] \in S \cup {Empty} /\ Empty \notin S
  BY <1>1, FlowTypes DEF LInv
<1> HIDE DEF S
<1>3. /\ Way(Sent(y), held[y], c) = Append(Way(Sent(y), held[y], Empty), c)
      /\ Way(Sent(y), c, Empty) = Append(Way(Sent(y), Empty, Empty), c)
  <2> DEFINE s == Sent(y)
             h == held[y]
  <2>1. s \in Seq(S) /\ h \in S \cup {Empty} /\ c \in S /\ Empty \notin S
    BY <1>0, <1>2 DEF S
  <2> HIDE DEF s, h, c
  <2>2. Way(s, h, c) = Append(Way(s, h, Empty), c) /\ Way(s, c, Empty) = Append(Way(s, Empty, Empty), c)
    BY <2>1, WayGrows
  <2> QED
    BY <2>2 DEF s, h
<1>4. \A x \in Streams : Sent(x)' = Sent(x)
  BY DEF Sent
<1>5. ASSUME NEW x \in Streams PROVE (OnTheWay(x) = ChunksOf(x, pos))'
  <2>1. ChunksOf(x, pos)' = IF y = x THEN Append(ChunksOf(x, pos), c) ELSE ChunksOf(x, pos)
    BY <1>0, ChunksOfMore, WayOfNext
  <2>2. OnTheWay(x) = ChunksOf(x, pos)
    BY DEF LInv, Flow
  <2>3. CASE x = y
    <3>1. Way(Sent(y), held'[y], pipe'[y]) = Append(Way(Sent(y), held[y], pipe[y]), c)
      BY <1>1, <1>3 DEF LInv, CInv, ControlType
    <3> QED
      BY <1>4, <2>1, <2>2, <2>3, <3>1, WayIsOnTheWay
  <2>4. CASE x # y
    <3>1. held'[x] = held[x] /\ pipe'[x] = pipe[x]
      BY <1>1, <2>4 DEF LInv, CInv, ControlType
    <3> QED
      BY <1>4, <2>1, <2>2, <2>4, <3>1, WayIsOnTheWay
  <2> QED
    BY <2>3, <2>4
<1> QED
  BY <1>5 DEF LInv, ChannelType, Flow

LEMMA LogStreamStep == LInv /\ [Next]_vars => LInv'
<1> SUFFICES ASSUME LInv, [Next]_vars PROVE LInv'
  OBVIOUS
<1>1. CInv'
  BY OpenControl, TerminalControl, CloseControl, CopierControl, PumpControl
     DEF LInv, Next, MainStep
<1>2. CASE \/ Cancel \/ ReaderBreaks \/ Open \/ OpenFails
           \/ TTYEnds \/ MuxEnds \/ CopyWritten \/ UNCHANGED vars
  <2>1. UNCHANGED <<log, pos, held, pipe, channel, got>>
    BY <1>2 DEF Cancel, ReaderBreaks, Open, OpenFails, TTYEnds, MuxEnds, CopyWritten,
                vars, input, workers, output
  <2> QED
    BY <1>1, <2>1, FlowRests DEF LInv
<1>3. CASE \E x \in Streams : CloseChannel(x) \/ CopyEnds(x) \/ PumpEnds(x)
  <2>1. UNCHANGED <<log, pos, held, pipe, channel, got>>
    BY <1>3 DEF CloseChannel, CopyEnds, PumpEnds, input, workers, output
  <2> QED
    BY <1>1, <2>1, FlowRests DEF LInv
<1>4. CASE \E x \in Streams : Receive(x)
  BY <1>1, <1>4, ReceiveFlow DEF LInv
<1>5. CASE TTYRead
  <2>1. pos < Len(log) /\ log[pos + 1] = "stdout"
    <3>1. pos \in 0..Len(log) /\ Len(log) \in Nat /\ pos < Len(log)
      BY <1>5, LenProperties DEF LInv, CInv, ControlType, TTYRead
    <3>2. tty
      BY <1>5 DEF LInv, CInv, Hands, TTYRead
    <3> QED
      BY <3>1, <3>2 DEF LInv, CInv, Hands
  <2>2. held["stdout"] = Empty /\ pipe["stdout"] = Empty
    BY <1>5 DEF LInv, CInv, Hands, TTYRead, Streams
  <2>3. ChannelType' /\ Flow'
    BY <1>5, <2>1, <2>2, TakeFlow DEF TTYRead, input, workers, output
  <2> QED
    BY <1>1, <2>3 DEF LInv
<1>6. CASE TTYSend
  <2>1. held["stdout"] # Empty /\ "stdout" \in Streams
    BY <1>6 DEF LInv, CInv, Hands, TTYSend, Streams
  <2>2. ChannelType' /\ Flow'
    BY <1>6, <2>1, SendFlow DEF TTYSend, input, workers
  <2> QED
    BY <1>1, <2>2 DEF LInv
<1>7. CASE Copy
  <2>1. pos < Len(log) /\ log[pos + 1] \in Streams
    <3>1. pos \in 0..Len(log) /\ Len(log) \in Nat /\ pos < Len(log)
      BY <1>7, LenProperties DEF LInv, CInv, ControlType, Copy
    <3>2. pos + 1 \in 1..Len(log)
      BY <3>1
    <3>3. log \in Seq(Streams)
      BY DEF LInv, CInv, ControlType
    <3> QED
      BY <3>1, <3>2, <3>3, ElementOfSeq
  <2>2. pipe[log[pos + 1]] = Empty
    BY <1>7, <2>1 DEF LInv, CInv, Hands, Copy
  <2>3. ChannelType' /\ Flow'
    BY <1>7, <2>1, <2>2, TakeFlow DEF Copy, input, output
  <2> QED
    BY <1>1, <2>3 DEF LInv
<1>8. CASE \E x \in Streams : PumpRead(x)
  BY <1>1, <1>8, PumpReadFlow DEF LInv
<1>9. CASE \E x \in Streams : PumpSend(x)
  <2>1. PICK x \in Streams : PumpSend(x)
    BY <1>9
  <2>2. CASE UNCHANGED <<channel, held>>
    BY <1>1, <2>1, <2>2, FlowRests DEF LInv, PumpSend, input
  <2>3. CASE ~closed[x]
    <3>1. held[x] # Empty
      BY <2>1 DEF LInv, CInv, Hands, PumpSend
    <3>2. ChannelType' /\ Flow'
      BY <2>1, <2>3, <3>1, SendFlow DEF PumpSend, input
    <3> QED
      BY <1>1, <3>2 DEF LInv
  <2> QED
    BY <2>1, <2>2, <2>3 DEF PumpSend
<1> QED
  BY <1>2, <1>3, <1>4, <1>5, <1>6, <1>7, <1>8, <1>9
     DEF Next, MainStep, CopierStep, PumpStep

-----------------------------------------------------------------------------

\* The types of LogStream.
THEOREM LogStreamTypeCorrect == Spec => []TypeOK
<1>1. LInv => TypeOK
  BY DEF LInv, CInv, ControlType, ChannelType, TypeOK
<1> QED
  BY <1>1, LogStreamInit, LogStreamStep, PTL DEF Spec

\* What is sent of a stream is the beginning of what the container wrote to it,
\* for any log and however the goroutines and the caller take their turns.
THEOREM LogStreamSentInOrder == Spec => []SentInOrder
<1>1. LInv => SentInOrder
  <2> SUFFICES ASSUME LInv, NEW x \in Streams
               PROVE  Sent(x) = SubSeq(ChunksOf(x, pos), 1, Len(Sent(x)))
    BY DEF SentInOrder
  <2> DEFINE S == 1..Len(log)
             more == Item(held[x]) \o Item(pipe[x])
  <2>1. Sent(x) \in Seq(S) /\ Item(held[x]) \in Seq(S) /\ Item(pipe[x]) \in Seq(S)
    <3>1. /\ Sent(x) \in Seq(S) /\ held[x] \in S \cup {Empty} /\ pipe[x] \in S \cup {Empty}
          /\ Empty \notin S
      BY FlowTypes DEF LInv
    <3> HIDE DEF S
    <3>2. ASSUME NEW c \in S \cup {Empty} PROVE Item(c) \in Seq(S)
      <4>1. CASE c = Empty
        <5>1. Item(c) = <<>>
          BY <4>1 DEF Item
        <5> QED
          BY <5>1
      <4>2. CASE c # Empty
        <5>1. c \in S /\ Item(c) = <<c>>
          BY <4>2 DEF Item
        <5> QED
          BY <5>1
      <4> QED
        BY <4>1, <4>2
    <3> QED
      BY <3>1, <3>2
  <2>2. more \in Seq(S) /\ ChunksOf(x, pos) = Sent(x) \o more
    <3> DEFINE s == Sent(x)
               h == Item(held[x])
               p == Item(pipe[x])
    <3>1. s \in Seq(S) /\ h \in Seq(S) /\ p \in Seq(S)
      BY <2>1
    <3>2. ChunksOf(x, pos) = (s \o h) \o p
      BY DEF LInv, Flow, OnTheWay
    <3> HIDE DEF S, s, h, p
    <3>3. (s \o h) \o p = s \o (h \o p)
      BY <3>1, ConcatAssociative
    <3>4. h \o p \in Seq(S)
      BY <3>1, ConcatProperties
    <3> QED
      BY <3>2, <3>3, <3>4 DEF s, h, p
  <2> QED
    BY <2>1, <2>2, PrefixOfConcat
<1> QED
  BY <1>1, LogStreamInit, LogStreamStep, PTL DEF Spec

\* Of a stream of which nothing is on the way, all that was read has been sent.
LEMMA NothingOnTheWay ==
    ASSUME LInv, NEW x \in Streams, held[x] = Empty, pipe[x] = Empty
    PROVE  Sent(x) = ChunksOf(x, pos)
<1>1. Sent(x) \in Seq(1..Len(log))
  BY FlowTypes DEF LInv
<1>2. OnTheWay(x) = (Sent(x) \o <<>>) \o <<>>
  BY DEF OnTheWay, Item
<1>3. OnTheWay(x) = Sent(x)
  BY <1>1, <1>2, ConcatEmptySeq
<1> QED
  BY <1>3 DEF LInv, Flow

\* When the channel of stderr is closed, all that was read of stderr has been
\* sent, and all of the log has been read unless it broke off, the caller
\* cancelled or it could not be opened.
THEOREM LogStreamStderrIsComplete == Spec => []StderrIsComplete
<1>1. LInv => StderrIsComplete
  <2> SUFFICES ASSUME LInv, closed["stderr"], ~ctxDone, ~failed
               PROVE  Sent("stderr") = ChunksOf("stderr", pos) /\ (pos = Len(log) \/ broken)
    BY DEF StderrIsComplete
  <2>1. held["stderr"] = Empty /\ pipe["stderr"] = Empty /\ (pos = Len(log) \/ broken)
    <3>1. CASE tty
      BY <3>1 DEF LInv, CInv, ControlType, Hands, Ends, Streams
    <3>2. CASE ~tty
      BY <3>2 DEF LInv, CInv, ControlType, Hands, Ends, Streams
    <3> QED
      BY <3>1, <3>2
  <2> QED
    BY <2>1, NothingOnTheWay DEF Streams
<1> QED
  BY <1>1, LogStreamInit, LogStreamStep, PTL DEF Spec

\* Of a container with a terminal, all that was read has been sent when the
\* channels are closed, and all of the log has been read, with the same
\* exceptions.
THEOREM LogStreamTTYIsComplete == Spec => []TTYIsComplete
<1>1. LInv => TTYIsComplete
  <2> SUFFICES ASSUME LInv, tty, closed["stdout"], ~ctxDone, ~failed
               PROVE  /\ \A x \in Streams : Sent(x) = ChunksOf(x, pos)
                      /\ pos = Len(log) \/ broken
    BY DEF TTYIsComplete
  <2>1. /\ \A x \in Streams : held[x] = Empty /\ pipe[x] = Empty
        /\ pos = Len(log) \/ broken
    BY DEF LInv, CInv, ControlType, Hands, Ends, Streams
  <2> QED
    BY <2>1, NothingOnTheWay
<1> QED
  BY <1>1, LogStreamInit, LogStreamStep, PTL DEF Spec
=============================================================================
