---------------------------- MODULE StatsProofs ----------------------------
(* What holds of Stats for any containers, callers and word size, proved.    *)
(* The bounds MaxTime and MaxEvents are arbitrary; the counters do not wrap  *)
(* by themselves (MaxTime < Word, as in StatsAssumption).                    *)
EXTENDS Stats, TLAPS

\* The readings of c that somebody may still put into a report.
Held(c) == {r \in Reading :
    \/ r = prev[c] /\ r # None
    \/ \E p \in Callers : call[p].pc = "answered" /\ call[p].ctr = c /\ call[p].reading = r}

\* Against the daemon's counters as they are now.
Fits(c, r) ==
    /\ r.at <= clock /\ r.life <= life[c]
    /\ r.live /\ r.life = life[c] => r.cpu <= usage[c] /\ usage[c] - r.cpu <= clock - r.at

\* Against another reading of the same container: in one life the counter
\* grows, and not faster than time goes by.
Agrees(r, s) ==
    r.live /\ s.live /\ r.life = s.life /\ r.at <= s.at =>
        r.cpu <= s.cpu /\ s.cpu - r.cpu <= s.at - r.at

ReadingsFit ==
    \A c \in Containers : \A r \in Held(c) :
        /\ r.live => r.system = r.at
        /\ Fits(c, r)
        /\ \A s \in Held(c) : Agrees(r, s)

IInv == TypeOK /\ ReadingsFit /\ InOrderIsExact

-----------------------------------------------------------------------------

\* What the daemon answers is a reading.
LEMMA CountersIsReading ==
    ASSUME TypeOK, NEW c \in Containers
    PROVE  Counters(c) \in Reading
  BY StatsAssumption DEF TypeOK, Counters, Reading

\* The quotient of two readings has the type of a report.
LEMMA CPUPercentIsReport ==
    ASSUME NEW old \in Reading \cup {None}, NEW new \in Reading
    PROVE  CPUPercent(old, new) \in Report
<1> DEFINE cpuDelta == IF old = None THEN 0 ELSE Minus(new.cpu, old.cpu)
           systemDelta == IF old = None THEN 0 ELSE Minus(new.system, old.system)
<1>1. cpuDelta \in 0..(Word - 1) /\ systemDelta \in 0..(Word - 1)
  BY StatsAssumption DEF Reading, Minus
<1>2. 0 \in 0..(Word - 1)
  BY StatsAssumption
<1>3. CASE cpuDelta > 0 /\ systemDelta > 0
  <2>1. CPUPercent(old, new) = [busy |-> cpuDelta, of |-> systemDelta, from |-> old, to |-> new]
    BY <1>3 DEF CPUPercent
  <2> HIDE DEF cpuDelta, systemDelta
  <2> QED
    BY <1>1, <2>1 DEF Report
<1>4. CASE ~(cpuDelta > 0 /\ systemDelta > 0)
  <2>1. CPUPercent(old, new) = [busy |-> 0, of |-> 1, from |-> old, to |-> new]
    BY <1>4 DEF CPUPercent
  <2>2. 1 \in 0..(Word - 1)
    BY StatsAssumption
  <2> QED
    BY <1>2, <2>1, <2>2 DEF Report
<1> QED
  BY <1>3, <1>4

-----------------------------------------------------------------------------
(* Types.                                                                    *)

LEMMA StatsTypeInit == Init => TypeOK
<1> SUFFICES ASSUME Init PROVE TypeOK
  OBVIOUS
<1>1. watched \in BOOLEAN
  BY DEF Init
<1>2. call \in [Callers -> [pc : {"idle", "next", "answered"},
                            projects : SUBSET Projects, todo : SUBSET Containers,
                            ctr : Containers \cup {None}, reading : Reading \cup {None},
                            report : Report \cup {None}]]
  BY DEF Init, Idle
<1>3. \A p \in Callers : call[p].pc # "answered"
  BY DEF Init, Idle
<1> QED
  BY <1>1, <1>2, <1>3, StatsAssumption DEF Init, TypeOK, States

LEMMA StatsTypeStep == TypeOK /\ [Next]_vars => TypeOK'
<1> SUFFICES ASSUME TypeOK, [Next]_vars PROVE TypeOK'
  OBVIOUS
<1> USE StatsAssumption
<1>1. CASE Pass
  <2>1. clock' \in 0..MaxTime /\ usage' \in [Containers -> 0..clock']
    BY <1>1 DEF Pass, TypeOK
  <2>2. usage' \in [Containers -> 0..MaxTime]
    BY <2>1
  <2> QED
    BY <1>1, <2>1, <2>2 DEF Pass, TypeOK
<1>2. ASSUME NEW c \in Containers, Stop(c) \/ Start(c) \/ Remove(c) PROVE TypeOK'
  BY <1>2 DEF Stop, Start, Remove, Occurs, TypeOK, States
<1>3. CASE Refresh
  BY <1>3 DEF Refresh, TypeOK, daemon
<1>4. CASE Round
  <2>1. Streamed \in SUBSET Projects /\ Streamer \in Callers
    BY DEF Streamed, Callers
  <2>2. /\ call' = [call EXCEPT ![Streamer] =
                [call[Streamer] EXCEPT !.pc = "next", !.projects = Streamed]]
        /\ UNCHANGED <<state, usage, clock, life, shown, watched, prev, events>>
    BY <1>4 DEF Round, daemon
  <2> QED
    BY <2>1, <2>2 DEF TypeOK
<1>5. ASSUME NEW p \in Callers, NEW q \in Projects, Request(p, q) \/ NextProject(p, q)
      PROVE  TypeOK'
  BY <1>5 DEF Request, NextProject, TypeOK, daemon
<1>6. ASSUME NEW p \in Callers, NEW c \in Containers, Ask(p, c) PROVE TypeOK'
  BY <1>6, CountersIsReading DEF Ask, TypeOK, daemon
<1>7. ASSUME NEW p \in Callers, NEW c \in Containers, AskFails(p, c) PROVE TypeOK'
  BY <1>7 DEF AskFails, Occurs, TypeOK, daemon
<1>8. ASSUME NEW p \in Callers, Swap(p) PROVE TypeOK'
  <2>1. call[p].ctr \in Containers /\ call[p].reading \in Reading
    BY <1>8 DEF Swap, TypeOK
  <2>2. prev[call[p].ctr] \in Reading \cup {None}
    BY <2>1 DEF TypeOK
  <2>3. CPUPercent(prev[call[p].ctr], call[p].reading) \in Report
    BY <2>1, <2>2, CPUPercentIsReport
  <2>4. prev' \in [Containers -> Reading \cup {None}]
    BY <1>8, <2>1 DEF Swap, TypeOK
  <2>5. PICK r \in Report :
          call' = [call EXCEPT ![p].pc = "next", ![p].report = r]
    BY <1>8, <2>3 DEF Swap
  <2>6. UNCHANGED <<state, usage, clock, life, shown, watched, events>>
    BY <1>8 DEF Swap, daemon
  <2>7. call' = [call EXCEPT ![p] = [call[p] EXCEPT !.pc = "next", !.report = r]]
    BY <2>5
  <2>8. call' \in [Callers -> [pc : {"idle", "next", "answered"},
                               projects : SUBSET Projects, todo : SUBSET Containers,
                               ctr : Containers \cup {None}, reading : Reading \cup {None},
                               report : Report \cup {None}]]
    BY <2>7 DEF TypeOK
  <2>9. \A x \in Callers : call'[x].pc = "answered" =>
            call'[x].ctr = call[x].ctr /\ call'[x].reading = call[x].reading /\ call[x].pc = "answered"
    BY <2>5 DEF TypeOK
  <2> QED
    BY <2>4, <2>6, <2>8, <2>9 DEF TypeOK
<1>9. ASSUME NEW p \in Callers, Finish(p) PROVE TypeOK'
  BY <1>9 DEF Finish, Idle, TypeOK, daemon
<1>10. CASE UNCHANGED vars
  BY <1>10 DEF vars, TypeOK
<1>11. CASE Audience
  BY <1>11 DEF Audience, TypeOK, daemon
<1> QED
  BY <1>1, <1>2, <1>3, <1>4, <1>5, <1>6, <1>7, <1>8, <1>9, <1>10, <1>11
     DEF Next, Daemon, Step

\* The counters, the readings and the reports keep their types: percentages
\* are computed within a word.
THEOREM StatsTypeCorrect == Spec => []TypeOK
  BY StatsTypeInit, StatsTypeStep, PTL DEF Spec

-----------------------------------------------------------------------------
(* Reports.                                                                  *)

\* A report from two readings that agree is what the container used.
LEMMA InOrderReport ==
    ASSUME NEW old \in Reading \cup {None}, NEW new \in Reading,
           new.live => new.system = new.at,
           old # None => /\ old.live => old.system = old.at
                         /\ Agrees(old, new)
    PROVE  LET r == CPUPercent(old, new) IN
           InOrder(r) => /\ r.busy = r.to.cpu - r.from.cpu
                         /\ r.busy > 0 => r.of = r.to.at - r.from.at /\ r.busy <= r.of
<1> DEFINE r == CPUPercent(old, new)
<1>1. r.from = old /\ r.to = new
  BY DEF CPUPercent
<1> SUFFICES ASSUME InOrder(r)
             PROVE  /\ r.busy = new.cpu - old.cpu
                    /\ r.busy > 0 => r.of = new.at - old.at /\ r.busy <= r.of
  BY <1>1
<1>2. /\ old \in Reading /\ old # None /\ old.live /\ new.live
      /\ old.life = new.life /\ old.at <= new.at
  BY <1>1 DEF InOrder
<1> HIDE DEF r
<1>3. /\ old.cpu \in Nat /\ new.cpu \in Nat /\ old.at \in Nat /\ new.at \in Nat
  BY <1>2, StatsAssumption DEF Reading
<1>4. /\ old.cpu <= new.cpu /\ new.cpu - old.cpu <= new.at - old.at
      /\ old.system = old.at /\ new.system = new.at
  BY <1>2 DEF Agrees
<1>5. /\ Minus(new.cpu, old.cpu) = new.cpu - old.cpu
      /\ Minus(new.system, old.system) = new.at - old.at
  BY <1>2, <1>3, <1>4 DEF Minus
<1>6. CASE Minus(new.cpu, old.cpu) > 0 /\ Minus(new.system, old.system) > 0
  <2>1. r.busy = Minus(new.cpu, old.cpu) /\ r.of = Minus(new.system, old.system)
    BY <1>2, <1>6 DEF r, CPUPercent
  <2> QED
    BY <1>3, <1>4, <1>5, <2>1
<1>7. CASE ~(Minus(new.cpu, old.cpu) > 0 /\ Minus(new.system, old.system) > 0)
  <2>1. r.busy = 0
    BY <1>2, <1>7 DEF r, CPUPercent
  <2>2. new.cpu - old.cpu = 0
    BY <1>3, <1>4, <1>5, <1>7
  <2> QED
    BY <2>1, <2>2
<1> QED
  BY <1>6, <1>7

LEMMA StatsInit == Init => IInv
<1> SUFFICES ASSUME Init PROVE IInv
  OBVIOUS
<1>1. TypeOK
  BY StatsTypeInit
<1>2. ASSUME NEW c \in Containers, NEW r \in Held(c) PROVE FALSE
  BY <1>2 DEF Init, Held, Idle, Callers
<1>3. InOrderIsExact
  BY DEF Init, InOrderIsExact, Reported, Idle, Callers
<1> QED
  BY <1>1, <1>2, <1>3 DEF IInv, ReadingsFit

\* A step in which no new reading appears and the daemon's counters stay.
LEMMA NoNewReading ==
    ASSUME IInv, UNCHANGED daemon,
           \A c \in Containers : Held(c)' \subseteq Held(c)
    PROVE  ReadingsFit'
  BY DEF IInv, ReadingsFit, Fits, daemon

\* Time goes by: a counter that moves moves less than the clock.
LEMMA PassFits == IInv /\ Pass => ReadingsFit'
<1> SUFFICES ASSUME IInv, Pass, NEW c \in Containers, NEW r \in Held(c)'
             PROVE  /\ r.live => r.system = r.at
                    /\ Fits(c, r)'
                    /\ \A s \in Held(c)' : Agrees(r, s)
  BY DEF ReadingsFit
<1>1. Held(c)' = Held(c)
  BY DEF Pass, Held
<1>2. Fits(c, r) /\ (r.live => r.system = r.at) /\ \A s \in Held(c) : Agrees(r, s)
  BY <1>1 DEF IInv, ReadingsFit
<1>3. PICK d \in 1..(MaxTime - clock) :
        /\ clock' = clock + d
        /\ usage'[c] - usage[c] \in IF state[c] = "running" THEN 0..d ELSE {0}
  BY DEF Pass
<1>4. usage'[c] \in Int /\ usage[c] \in Int /\ clock \in Int /\ d \in Int /\ MaxTime \in Int
  <2>1. usage'[c] \in 0..clock'
    BY DEF Pass
  <2> QED
    BY <1>3, <2>1, StatsAssumption DEF IInv, TypeOK
<1>5. /\ usage[c] <= usage'[c] /\ usage'[c] - usage[c] <= clock' - clock
      /\ clock <= clock'
  BY <1>3, <1>4
<1>6. r.cpu \in Int /\ r.at \in Int
  BY StatsAssumption DEF Held, Reading
<1>7. r.at <= clock'
  BY <1>2, <1>4, <1>5, <1>6 DEF Fits, Pass
<1>8. ASSUME r.live, r.life = life[c]
      PROVE  r.cpu <= usage'[c] /\ usage'[c] - r.cpu <= clock' - r.at
  <2>1. r.cpu <= usage[c] /\ usage[c] - r.cpu <= clock - r.at
    BY <1>2, <1>8 DEF Fits
  <2>2. clock' \in Int
    BY <1>3, <1>4
  <2> QED
    BY <1>4, <1>5, <1>6, <2>1, <2>2
<1>9. Fits(c, r)'
  BY <1>2, <1>7, <1>8 DEF Fits, Pass
<1> QED
  BY <1>1, <1>2, <1>9

\* A container that is started again has a life of which there is no reading.
LEMMA StartFits ==
    ASSUME IInv, NEW d \in Containers, Start(d)
    PROVE  ReadingsFit'
<1> SUFFICES ASSUME NEW c \in Containers, NEW r \in Held(c)'
             PROVE  /\ r.live => r.system = r.at
                    /\ Fits(c, r)'
                    /\ \A s \in Held(c)' : Agrees(r, s)
  BY DEF ReadingsFit
<1>1. Held(c)' = Held(c)
  BY DEF Start, Held
<1>2. Fits(c, r) /\ (r.live => r.system = r.at) /\ \A s \in Held(c) : Agrees(r, s)
  BY <1>1 DEF IInv, ReadingsFit
<1>3. r.life \in Nat /\ life[c] \in Nat
  BY DEF Held, Reading, IInv, TypeOK
<1>4. Fits(c, r)'
  BY <1>2, <1>3 DEF Start, Fits, IInv, TypeOK
<1> QED
  BY <1>1, <1>2, <1>4

\* A new reading fits those that are held, being the latest.
LEMMA AskFits ==
    ASSUME IInv, NEW p \in Callers, NEW d \in Containers, Ask(p, d)
    PROVE  ReadingsFit'
<1> DEFINE new == Counters(d)
<1>1. UNCHANGED daemon
  BY DEF Ask, daemon
<1>2. \A c \in Containers \ {d} : Held(c)' \subseteq Held(c)
  BY DEF Ask, Held, IInv, TypeOK
<1>3. Held(d)' \subseteq Held(d) \cup {new}
  BY DEF Ask, Held, IInv, TypeOK
<1>4. new \in Reading
  BY CountersIsReading DEF IInv
<1>5. /\ new.live => new.system = new.at /\ new.cpu = usage[d]
      /\ new.life = life[d] /\ new.at = clock
  BY DEF Counters
<1> HIDE DEF new
<1>6. clock \in Int /\ usage[d] \in Int /\ life[d] \in Int
  BY StatsAssumption DEF IInv, TypeOK
<1>7. Fits(d, new)
  BY <1>5, <1>6 DEF Fits
<1>8. ASSUME NEW r \in Held(d) PROVE Agrees(r, new) /\ Agrees(new, r)
  <2>1. Fits(d, r)
    BY DEF IInv, ReadingsFit
  <2>2. r.at \in Int /\ r.cpu \in Int
    BY DEF Held, Reading
  <2> QED
    BY <1>5, <1>6, <2>1, <2>2 DEF Agrees, Fits
<1>9. Agrees(new, new)
  BY <1>4 DEF Agrees, Reading
<1>10. ASSUME NEW c \in Containers, NEW r \in Held(c)'
       PROVE  /\ r.live => r.system = r.at
              /\ Fits(c, r)
              /\ \A s \in Held(c)' : Agrees(r, s)
  BY <1>2, <1>3, <1>5, <1>7, <1>8, <1>9 DEF IInv, ReadingsFit
<1> QED
  BY <1>1, <1>10 DEF ReadingsFit, Fits, daemon

LEMMA StatsStep == IInv /\ [Next]_vars => IInv'
<1> SUFFICES ASSUME IInv, [Next]_vars PROVE IInv'
  OBVIOUS
<1>1. TypeOK'
  BY StatsTypeStep DEF IInv
<1>2. ReadingsFit'
  <2>1. ASSUME NEW c \in Containers, Stop(c) \/ Remove(c) PROVE ReadingsFit'
    BY <2>1 DEF Stop, Remove, IInv, ReadingsFit, Held, Fits
  <2>2. CASE Refresh
    BY <2>2, NoNewReading DEF Refresh, Held
  <2>3. CASE Round
    <3>1. \A p \in Callers : call'[p].pc = "answered" =>
             /\ call[p].pc = "answered" /\ call'[p].ctr = call[p].ctr
             /\ call'[p].reading = call[p].reading
      BY <2>3 DEF Round, IInv, TypeOK
    <3> QED
      BY <2>3, <3>1, NoNewReading DEF Round, Held
  <2>4. ASSUME NEW p \in Callers, NEW q \in Projects, Request(p, q) \/ NextProject(p, q)
        PROVE  ReadingsFit'
    <3>1. \A x \in Callers : call'[x].pc = "answered" =>
             /\ call[x].pc = "answered" /\ call'[x].ctr = call[x].ctr
             /\ call'[x].reading = call[x].reading
      BY <2>4 DEF Request, NextProject, IInv, TypeOK
    <3> QED
      BY <2>4, <3>1, NoNewReading DEF Request, NextProject, Held
  <2>5. ASSUME NEW p \in Callers, NEW c \in Containers, AskFails(p, c) PROVE ReadingsFit'
    <3>1. \A x \in Callers : call'[x].pc = "answered" =>
             /\ call[x].pc = "answered" /\ call'[x].ctr = call[x].ctr
             /\ call'[x].reading = call[x].reading
      BY <2>5 DEF AskFails, IInv, TypeOK
    <3> QED
      BY <2>5, <3>1, NoNewReading DEF AskFails, Held
  <2>6. ASSUME NEW p \in Callers, Swap(p) PROVE ReadingsFit'
    <3>1. \A x \in Callers : call'[x].pc = "answered" =>
             /\ call[x].pc = "answered" /\ call'[x].ctr = call[x].ctr
             /\ call'[x].reading = call[x].reading
      BY <2>6 DEF Swap, IInv, TypeOK
    <3>2. \A c \in Containers : prev'[c] = prev[c] \/ (c = call[p].ctr /\ prev'[c] = call[p].reading)
      BY <2>6 DEF Swap, IInv, TypeOK
    <3> QED
      BY <2>6, <3>1, <3>2, NoNewReading DEF Swap, Held
  <2>7. ASSUME NEW p \in Callers, Finish(p) PROVE ReadingsFit'
    <3>1. \A x \in Callers : call'[x].pc = "answered" =>
             /\ call[x].pc = "answered" /\ call'[x].ctr = call[x].ctr
             /\ call'[x].reading = call[x].reading
      BY <2>7 DEF Finish, Idle, IInv, TypeOK
    <3> QED
      BY <2>7, <3>1, NoNewReading DEF Finish, Held
  <2>8. CASE UNCHANGED vars
    BY <2>8, NoNewReading DEF vars, daemon, Held
  <2>9. CASE Audience
    BY <2>9, NoNewReading DEF Audience, Held
  <2> QED
    BY <2>1, <2>2, <2>3, <2>4, <2>5, <2>6, <2>7, <2>8, <2>9, PassFits, StartFits, AskFits
       DEF Next, Daemon, Step
<1>3. InOrderIsExact'
  <2>1. ASSUME NEW x \in Callers, Swap(x) PROVE InOrderIsExact'
    <3> DEFINE c == call[x].ctr
               new == call[x].reading
               r == CPUPercent(prev[c], new)
    <3>1. c \in Containers /\ new \in Reading /\ prev[c] \in Reading \cup {None}
      BY <2>1 DEF Swap, IInv, TypeOK
    <3>2. new \in Held(c) /\ (prev[c] # None => prev[c] \in Held(c))
      BY <2>1, <3>1 DEF Swap, Held
    <3>3. /\ new.live => new.system = new.at
          /\ prev[c] # None => /\ prev[c].live => prev[c].system = prev[c].at
                               /\ Agrees(prev[c], new)
      BY <3>1, <3>2 DEF IInv, ReadingsFit
    <3>4. InOrder(r) => /\ r.busy = r.to.cpu - r.from.cpu
                        /\ r.busy > 0 => r.of = r.to.at - r.from.at /\ r.busy <= r.of
      BY <3>1, <3>3, InOrderReport
    <3>5. call'[x].report = r /\ \A p \in Callers \ {x} : call'[p].report = call[p].report
      BY <2>1 DEF Swap, IInv, TypeOK
    <3> QED
      BY <3>4, <3>5 DEF InOrderIsExact, Reported, InOrder, IInv
  <2>2. ASSUME \A p \in Callers : call'[p].report \in {call[p].report, None}
        PROVE  InOrderIsExact'
    BY <2>2 DEF InOrderIsExact, Reported, InOrder, IInv
  <2>3. ASSUME NEW p \in Callers, NEW q \in Projects, Request(p, q) \/ NextProject(p, q)
        PROVE  InOrderIsExact'
    BY <2>2, <2>3 DEF Request, NextProject, IInv, TypeOK
  <2>4. ASSUME NEW p \in Callers, NEW c \in Containers, Ask(p, c) \/ AskFails(p, c)
        PROVE  InOrderIsExact'
    BY <2>2, <2>4 DEF Ask, AskFails, IInv, TypeOK
  <2>5. ASSUME NEW p \in Callers, Finish(p) PROVE InOrderIsExact'
    BY <2>2, <2>5 DEF Finish, Idle, IInv, TypeOK
  <2>6. CASE Round
    BY <2>2, <2>6 DEF Round, IInv, TypeOK
  <2>7. CASE Daemon \/ Audience \/ UNCHANGED vars
    BY <2>2, <2>7 DEF Daemon, Audience, Pass, Stop, Start, Remove, Refresh, vars
  <2> QED
    BY <2>1, <2>3, <2>4, <2>5, <2>6, <2>7 DEF Next, Step
<1> QED
  BY <1>1, <1>2, <1>3 DEF IInv

\* A report from two readings of one life, in the order they were taken, is
\* exact, whatever the other callers and the containers did in between: no
\* other container's reading gets into it, and nothing wraps.
THEOREM StatsInOrderIsExact == Spec => []InOrderIsExact
<1>1. IInv => InOrderIsExact
  BY DEF IInv
<1> QED
  BY <1>1, StatsInit, StatsStep, PTL DEF Spec
=============================================================================
