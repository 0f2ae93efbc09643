----------------------------- MODULE LogStream -----------------------------
(***************************************************************************)
(* StreamLogs of internal/docker/logs.go: one goroutine opens the log of a *)
(* container and either reads it itself (a TTY) or starts three more: a    *)
(* copier that splits the log over two pipes, and for each pipe a pump     *)
(* that feeds a channel.  It closes the channels when it returns.          *)
(*                                                                         *)
(* The log is a sequence of chunks, each written to one of the two streams *)
(* by the container and small enough for one Read.  io.Pipe has no buffer: *)
(* a Write returns when a Read has taken its bytes.                        *)
(* The log can break off anywhere: what reads it fails then as it does at  *)
(* its end, and the code treats the two alike.                             *)
(***************************************************************************)
EXTENDS Integers, Sequences

CONSTANTS
    ChanCap,   \* capacity of the channels (100 in the code)
    MaxChunks  \* bound: length of the log

ASSUME LogAssumption == ChanCap \in Nat \ {0} /\ MaxChunks \in Nat

Streams == {"stdout", "stderr"}
Empty == 0   \* no chunk: chunks are positions in the log

VARIABLES
    log,        \* the stream of each chunk
    tty,        \* the container has a terminal: no headers, one stream
    ctxDone,    \* the caller's context was cancelled
    broken,     \* reading the log fails from here on, cancelled or not
    failed,     \* opening or inspecting failed, errCh has the error
    pos,        \* chunks of the log read so far
    main,       \* control state of the goroutine that StreamLogs starts
    copier,     \* control state of stdcopy.StdCopy
    pipe,       \* the chunk a Write waits with, per stream
    pipeClosed, \* the write end was closed
    pump,       \* control state of each pump
    held,       \* the chunk a pump (or, on a TTY, main) is about to send
    done,       \* the channel done was closed
    channel,    \* contents of stdoutCh and stderrCh
    closed,     \* stdoutCh, stderrCh were closed
    panicked,   \* a send on a closed channel happened, which ends the process
    got         \* what the caller received

input == <<log, tty, ctxDone, broken>>
workers == <<copier, pipe, pipeClosed, pump>>
output == <<channel, closed, panicked>>
vars == <<input, failed, pos, main, workers, held, done, output, got>>

\* Those of the chunks 1 to n that are of stream x, in order.
ChunksOf(x, n) ==
    LET chunks[i \in 0..Len(log)] ==
            IF i = 0 THEN <<>>
            ELSE IF log[i] = x THEN Append(chunks[i - 1], i) ELSE chunks[i - 1]
    IN  chunks[n]

Init ==
    /\ log \in UNION {[1..n -> Streams] : n \in 0..MaxChunks}
    /\ tty \in BOOLEAN /\ (tty => \A i \in DOMAIN log : log[i] = "stdout")
    /\ ctxDone = FALSE /\ broken = FALSE /\ failed = FALSE
    /\ pos = 0 /\ main = "open" /\ copier = "off" /\ done = FALSE
    /\ pipe = [x \in Streams |-> Empty]
    /\ pipeClosed = [x \in Streams |-> FALSE]
    /\ pump = [x \in Streams |-> "off"]
    /\ held = [x \in Streams |-> Empty]
    /\ channel = [x \in Streams |-> <<>>]
    /\ closed = [x \in Streams |-> FALSE] /\ panicked = FALSE
    /\ got = [x \in Streams |-> <<>>]

-----------------------------------------------------------------------------
(* The caller and the daemon. *)

Cancel ==
    /\ ~ctxDone
    /\ ctxDone' = TRUE
    /\ UNCHANGED <<log, tty, broken, failed, pos, main, workers, held, done, output, got>>

\* The connection to the daemon is lost, the daemon reports an error of its
\* own or a header makes no sense.
ReaderBreaks ==
    /\ main \in {"read", "send", "wait"} /\ ~broken
    /\ broken' = TRUE
    /\ UNCHANGED <<log, tty, ctxDone, failed, pos, main, workers, held, done, output, got>>

Receive(x) ==
    /\ channel[x] # <<>>
    /\ got' = [got EXCEPT ![x] = Append(@, Head(channel[x]))]
    /\ channel' = [channel EXCEPT ![x] = Tail(@)]
    /\ UNCHANGED <<input, failed, pos, main, workers, held, done, closed, panicked>>

-----------------------------------------------------------------------------
(* The goroutine of StreamLogs, which also reads the log of a TTY. *)

Open ==
    /\ main = "open"
    /\ IF tty
       THEN main' = "read" /\ UNCHANGED <<copier, pump>>
       ELSE /\ main' = "wait" /\ copier' = "copy"
            /\ pump' = [x \in Streams |-> "read"]
    /\ UNCHANGED <<input, failed, pos, pipe, pipeClosed, held, done, output, got>>

\* The daemon cannot be reached or does not know the container.
OpenFails ==
    /\ main = "open"
    /\ failed' = TRUE
    /\ main' = "close"
    /\ UNCHANGED <<input, pos, workers, held, done, output, got>>

\* Mutant: the end of the log is not noticed.
TTYRead_PastEnd ==
    /\ main = "read" /\ ~ctxDone /\ ~broken
    /\ pos' = pos + 1
    /\ held' = [held EXCEPT !["stdout"] = pos + 1]
    /\ main' = "send"
    /\ UNCHANGED <<input, failed, workers, done, output, got>>

\* streamTTYLogs looks at the context before each Read; a Read fails at the
\* end of the log, where it breaks off and when the context is cancelled.
TTYRead ==
    /\ main = "read" /\ ~ctxDone /\ ~broken /\ pos < Len(log)
    /\ pos' = pos + 1
    /\ held' = [held EXCEPT !["stdout"] = pos + 1]
    /\ main' = "send"
    /\ UNCHANGED <<input, failed, workers, done, output, got>>

\* Mutant: what does not fit into the channel is dropped.
TTYSend_Drops ==
    /\ main = "send"
    /\ channel' = IF Len(channel["stdout"]) < ChanCap
                  THEN [channel EXCEPT !["stdout"] = Append(@, held["stdout"])] ELSE channel
    /\ held' = [held EXCEPT !["stdout"] = Empty]
    /\ main' = "read"
    /\ UNCHANGED <<input, failed, pos, workers, done, closed, panicked, got>>

TTYSend ==
    /\ main = "send" /\ Len(channel["stdout"]) < ChanCap
    /\ channel' = [channel EXCEPT !["stdout"] = Append(@, held["stdout"])]
    /\ held' = [held EXCEPT !["stdout"] = Empty]
    /\ main' = "read"
    /\ UNCHANGED <<input, failed, pos, workers, done, closed, panicked, got>>

\* Why it ended is not told: errCh stays empty.
TTYEnds ==
    /\ \/ main = "read" /\ (ctxDone \/ broken \/ pos = Len(log))
       \/ main = "send" /\ ctxDone
    /\ main' = "close"
    /\ UNCHANGED <<input, failed, pos, workers, held, done, output, got>>

\* Mutant: the wait ends only with the context.
MuxEnds_OnCancel ==
    /\ main = "wait" /\ ctxDone
    /\ main' = "close"
    /\ UNCHANGED <<input, failed, pos, workers, held, done, output, got>>

\* streamMultiplexedLogs waits for the context or for done.
MuxEnds ==
    /\ main = "wait" /\ (ctxDone \/ done)
    /\ main' = "close"
    /\ UNCHANGED <<input, failed, pos, workers, held, done, output, got>>

\* The deferred calls run last to first: reader.Close, then errCh, stderrCh
\* and stdoutCh are closed.
CloseChannel(x) ==
    /\ main = (IF x = "stderr" THEN "close" ELSE "close stdout")
    /\ closed' = [closed EXCEPT ![x] = TRUE]
    /\ main' = IF x = "stderr" THEN "close stdout" ELSE "done"
    /\ UNCHANGED <<input, failed, pos, workers, held, done, channel, panicked, got>>

-----------------------------------------------------------------------------
(* The copier: stdcopy.StdCopy from the log to the write ends of the pipes. *)

Copy ==
    /\ copier = "copy" /\ pos < Len(log) /\ ~broken /\ main = "wait"
    /\ pos' = pos + 1
    /\ pipe' = [pipe EXCEPT ![log[pos + 1]] = pos + 1]
    /\ copier' = "write"
    /\ UNCHANGED <<input, failed, main, pipeClosed, pump, held, done, output, got>>

CopyWritten ==
    /\ copier = "write" /\ \A x \in Streams : pipe[x] = Empty
    /\ copier' = "copy"
    /\ UNCHANGED <<input, failed, pos, main, pipe, pipeClosed, pump, held, done, output, got>>

\* A read of the log fails: at its end, where it breaks off, when the context
\* was cancelled and when StreamLogs has closed the reader.
ReadFails == pos = Len(log) \/ broken \/ ctxDone \/ main # "wait"

\* Mutant: the write end of stdout is not closed.
CopyEnds_StderrOnly(x) ==
    /\ copier = "copy" /\ x = "stderr" /\ ReadFails
    /\ pipeClosed' = [pipeClosed EXCEPT ![x] = TRUE]
    /\ copier' = "done"
    /\ UNCHANGED <<input, failed, pos, main, pipe, pump, held, done, output, got>>

\* StdCopy returns, and its error is dropped: the write end of stderr is
\* closed, then stdout's.
CopyEnds(x) ==
    /\ \/ copier = "copy" /\ x = "stderr" /\ ReadFails
       \/ copier = "close" /\ x = "stdout"
    /\ pipeClosed' = [pipeClosed EXCEPT ![x] = TRUE]
    /\ copier' = IF x = "stderr" THEN "close" ELSE "done"
    /\ UNCHANGED <<input, failed, pos, main, pipe, pump, held, done, output, got>>

-----------------------------------------------------------------------------
(* The pumps: Read, then send or notice that the context was cancelled.     *)
(* The one for stderr closes done when it returns.                          *)

PumpRead(x) ==
    /\ pump[x] = "read" /\ pipe[x] # Empty
    /\ held' = [held EXCEPT ![x] = pipe[x]]
    /\ pipe' = [pipe EXCEPT ![x] = Empty]
    /\ pump' = [pump EXCEPT ![x] = "send"]
    /\ UNCHANGED <<input, failed, pos, main, copier, pipeClosed, done, output, got>>

\* Mutant: what does not fit into the channel is dropped.
PumpSend_Drops(x) ==
    /\ pump[x] = "send"
    /\ channel' = IF Len(channel[x]) < ChanCap
                  THEN [channel EXCEPT ![x] = Append(@, held[x])] ELSE channel
    /\ panicked' = closed[x]
    /\ held' = [held EXCEPT ![x] = Empty]
    /\ pump' = [pump EXCEPT ![x] = "read"]
    /\ UNCHANGED <<input, failed, pos, main, copier, pipe, pipeClosed, done, closed, got>>

PumpSend(x) ==
    /\ pump[x] = "send"
    /\ \/ /\ closed[x]
          /\ panicked' = TRUE
          /\ UNCHANGED <<channel, held, pump>>
       \/ /\ ~closed[x] /\ Len(channel[x]) < ChanCap
          /\ channel' = [channel EXCEPT ![x] = Append(@, held[x])]
          /\ held' = [held EXCEPT ![x] = Empty]
          /\ pump' = [pump EXCEPT ![x] = "read"]
          /\ UNCHANGED panicked
    /\ UNCHANGED <<input, failed, pos, main, copier, pipe, pipeClosed, done, closed, got>>

\* Mutant: a pump returns as soon as the write end is closed, even with a
\* chunk in hand.
PumpEnds_TooEarly(x) ==
    /\ \/ pipe[x] = Empty /\ pipeClosed[x] /\ pump[x] # "done"
       \/ pump[x] = "send" /\ ctxDone
    /\ pump' = [pump EXCEPT ![x] = "done"]
    /\ done' = (done \/ x = "stderr")
    /\ UNCHANGED <<input, failed, pos, main, copier, pipe, pipeClosed, held, output, got>>

PumpEnds(x) ==
    /\ \/ pump[x] = "read" /\ pipe[x] = Empty /\ pipeClosed[x]
       \/ pump[x] = "send" /\ ctxDone
    /\ pump' = [pump EXCEPT ![x] = "done"]
    /\ done' = (done \/ x = "stderr")
    /\ UNCHANGED <<input, failed, pos, main, copier, pipe, pipeClosed, held, output, got>>

-----------------------------------------------------------------------------

MainStep ==
    \/ Open \/ TTYRead \/ TTYSend \/ TTYEnds \/ MuxEnds
    \/ \E x \in Streams : CloseChannel(x)
CopierStep == Copy \/ CopyWritten \/ \E x \in Streams : CopyEnds(x)
PumpStep(x) == PumpRead(x) \/ PumpSend(x) \/ PumpEnds(x)

Next ==
    /\ ~panicked
    /\ \/ Cancel \/ ReaderBreaks \/ OpenFails \/ MainStep \/ CopierStep
       \/ \E x \in Streams : Receive(x) \/ PumpStep(x)

Spec == Init /\ [][Next]_vars

\* Every goroutine runs, and the caller keeps receiving from both channels.
FairSpec ==
    /\ Spec
    /\ WF_vars(~panicked /\ MainStep) /\ WF_vars(~panicked /\ CopierStep)
    /\ \A x \in Streams :
        WF_vars(~panicked /\ PumpStep(x)) /\ WF_vars(~panicked /\ Receive(x))

-----------------------------------------------------------------------------
(* Properties. *)

TypeOK ==
    /\ log \in Seq(Streams) /\ pos \in 0..Len(log)
    /\ tty \in BOOLEAN /\ ctxDone \in BOOLEAN /\ broken \in BOOLEAN /\ failed \in BOOLEAN
    /\ main \in {"open", "read", "send", "wait", "close", "close stdout", "done"}
    /\ copier \in {"off", "copy", "write", "close", "done"}
    /\ pump \in [Streams -> {"off", "read", "send", "done"}]
    /\ pipe \in [Streams -> 0..Len(log)] /\ held \in [Streams -> 0..Len(log)]
    /\ pipeClosed \in [Streams -> BOOLEAN] /\ closed \in [Streams -> BOOLEAN]
    /\ channel \in [Streams -> Seq(1..Len(log))] /\ got \in [Streams -> Seq(1..Len(log))]
    /\ done \in BOOLEAN /\ panicked \in BOOLEAN

\* What has been put into the channel of x.
Sent(x) == got[x] \o channel[x]

\* Splitting the log over two pipes and two goroutines neither reorders nor
\* repeats nor leaves out anything on the way.
SentInOrder ==
    \A x \in Streams : Sent(x) = SubSeq(ChunksOf(x, pos), 1, Len(Sent(x)))

\* When stderrCh is closed and nobody cancelled, all that was read of stderr
\* was sent, and that is all of it unless the log broke off: the end of
\* stderr's pump is what the goroutine waits for.  Of a log that broke off the
\* caller learns no more than of one that ended.
StderrIsComplete ==
    closed["stderr"] /\ ~ctxDone /\ ~failed =>
        Sent("stderr") = ChunksOf("stderr", pos) /\ (pos = Len(log) \/ broken)

\* StreamLogs "streams logs from a container": when the log does not break off
\* and nobody cancels, all of both streams was sent.
StreamIsComplete ==
    closed["stdout"] /\ ~ctxDone /\ ~broken /\ ~failed =>
        \A x \in Streams : Sent(x) = ChunksOf(x, Len(log))

\* On a terminal, where nothing but main carries the log, the end of the
\* stream has waited for all that was read, and only a log that broke off is
\* cut short.
TTYIsComplete ==
    tty /\ closed["stdout"] /\ ~ctxDone /\ ~failed =>
        /\ \A x \in Streams : Sent(x) = ChunksOf(x, pos)
        /\ pos = Len(log) \/ broken

\* The caller sees both channels closed in the end, unless the process fails.
ChannelsAreClosed == <>(panicked \/ \A x \in Streams : closed[x])

\* Unless the caller cancels, no goroutine is left behind.
NobodyStaysBehind ==
    <>(ctxDone \/ panicked \/ (main = "done" /\ copier \in {"off", "done"}
                                /\ \A x \in Streams : pump[x] \in {"off", "done"}))
=============================================================================
