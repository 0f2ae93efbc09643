-------------------------------- MODULE Feed --------------------------------
(***************************************************************************)
(* What the WebSocket fan-out promises, without channels or goroutines: a  *)
(* log of published messages, and readers that join at some position and   *)
(* are then given the messages that follow, in order, none missing and     *)
(* none twice, until they are cut off.  A reader may be cut off at any     *)
(* moment and may be given several messages at once.                       *)
(***************************************************************************)
EXTENDS Integers, Sequences

CONSTANTS Readers, Message

VARIABLES
    log,     \* everything published
    joined,  \* the length of the log when a reader joined
    member,  \* readers that have joined
    given,   \* what each reader was given
    cut      \* readers that get nothing more

feedVars == <<log, joined, member, given, cut>>

Init ==
    /\ log = <<>> /\ member = {} /\ cut = {}
    /\ joined = [r \in Readers |-> 0]
    /\ given = [r \in Readers |-> <<>>]

Publish ==
    /\ \E m \in Message : log' = Append(log, m)
    /\ UNCHANGED <<joined, member, given, cut>>

Join(r) ==
    /\ r \notin member
    /\ member' = member \cup {r}
    /\ joined' = [joined EXCEPT ![r] = Len(log)]
    /\ UNCHANGED <<log, given, cut>>

\* The next n messages after those the reader already has.
Give(r) ==
    /\ r \in member \ cut
    /\ LET seen == joined[r] + Len(given[r]) IN
       \E n \in 1..(Len(log) - seen) :
           given' = [given EXCEPT ![r] = @ \o SubSeq(log, seen + 1, seen + n)]
    /\ UNCHANGED <<log, joined, member, cut>>

CutOff(r) ==
    /\ r \in member \ cut
    /\ cut' = cut \cup {r}
    /\ UNCHANGED <<log, joined, member, given>>

Next == Publish \/ \E r \in Readers : Join(r) \/ Give(r) \/ CutOff(r)

Spec == Init /\ [][Next]_feedVars
=============================================================================
