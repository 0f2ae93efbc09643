--------------------------- MODULE ManagerProofs ---------------------------
(***************************************************************************)
(* Theorems about Manager, for any number of files, handlers and objects,  *)
(* any assignment of compose names and any events.                         *)
(*                                                                         *)
(* The argument is about pointers.  A frame, the map and the cache may     *)
(* take over only pointers that somebody holds for the same project        *)
(* (Inherits, StepFrame), except Load, which takes an address nobody holds *)
(* (LoadStep); hence two projects never share an object (NoSharing).  A    *)
(* write through a pointer therefore reaches one project only, and the     *)
(* objects somebody holds lose their protection only while the map shows   *)
(* the project unprotected (LosesOnlyAsListed).  Both protection           *)
(* properties follow from that.                                            *)
(***************************************************************************)
EXTENDS Manager, TLAPS

\* The points at which a goroutine holds a pointer to a project.
Held == {"keep", "check", "exec", "relist", "install"}

\* Elsewhere its pointer is nil.
Pointers == \A p \in Procs : frame[p].pc \notin Held => frame[p].obj = NoObj

\* The types of what goroutines keep for themselves, and of the rest.
FramesOK ==
    /\ frame \in [Procs -> Frame]
    /\ \A p \in Procs : frame[p].pc \in Held => frame[p].obj # NoObj

StateOK ==
    /\ server \in {"down", "boot", "serving", "stopping"} /\ hasStore \in BOOLEAN
    /\ file \in [Files -> [version : 1..MaxVersion, valid : BOOLEAN, present : BOOLEAN]]
    /\ docker \in [Files -> States] /\ rows \in [Files -> Rows]
    /\ projects \in [Files -> Objs \cup {NoObj}]
    /\ cache \in [Files -> [version : 0..MaxVersion, obj : Objs \cup {NoObj}]]
    /\ heap \in [Objs -> Project] /\ events \in 0..MaxEvents

HistoryOK ==
    /\ seen \in [Procs -> BOOLEAN]
    /\ lapsed \in [Procs -> SUBSET Files] /\ readable \in [Procs -> SUBSET Files]

\* The type invariant in the three parts the steps are proved from.
LEMMA TypeParts == TypeOK <=> StateOK /\ FramesOK /\ HistoryOK
  BY DEF TypeOK, StateOK, FramesOK, HistoryOK, Held

-----------------------------------------------------------------------------
(* Frames. *)

\* A goroutine that serves nothing, and one that begins a scan, have frames.
LEMMA IdleType == IdleFrame \in Frame
<1>1. (CHOOSE f \in Files : TRUE) \in Files
  BY FileAssumption
<1> QED
  BY <1>1, BoundAssumption DEF IdleFrame, Frame, Rows, States

\* The frame of a goroutine whose directory walk is done is a frame.
LEMMA WalkedType == Walked \in Frame
  BY IdleType DEF Walked, Frame

\* A frame that refers, on behalf of each project, to objects somebody
\* referred to already.
Inherits(r) ==
    /\ r \in Frame /\ (r.pc \in Held <=> r.obj # NoObj)
    /\ \A f \in Files : r.found[f] \in Holders(f) \cup {NoObj}
    /\ r.obj \in Holders(r.file) \cup {NoObj}

Becomes(p, r) == frame' = [frame EXCEPT ![p] = r]

\* When a goroutine's frame inherits its pointers, as m.projects and the
\* cache do, no project has an object it did not have before.
LEMMA InheritStep ==
    ASSUME FramesOK, Pointers, NEW p \in Procs, NEW r, Inherits(r), Becomes(p, r),
           \A f \in Files : projects'[f] \in Holders(f) \cup {NoObj},
           \A f \in Files : cache'[f].obj \in Holders(f) \cup {NoObj}
    PROVE  FramesOK' /\ Pointers' /\ \A f \in Files : Holders(f)' \subseteq Holders(f)
<1>1. r \in Frame
  BY DEF Inherits
<1>2. \A q \in Procs : frame'[q] = IF q = p THEN r ELSE frame[q]
  BY DEF FramesOK, Becomes
<1>3. FramesOK' /\ Pointers'
  BY <1>1, <1>2 DEF FramesOK, Pointers, Inherits, Becomes
<1>4. ASSUME NEW f \in Files, NEW a \in Holders(f)' PROVE a \in Holders(f)
  <2>1. a \in Objs /\ a # NoObj
    BY NilAssumption DEF Holders
  <2>2. CASE a = projects'[f] \/ a = cache'[f].obj
    BY <2>1, <2>2
  <2>3. ASSUME NEW q \in Procs, a = frame'[q].found[f] \/ (a = frame'[q].obj /\ frame'[q].file = f)
        PROVE  a \in Holders(f)
    <3>1. CASE q = p
      BY <2>1, <2>3, <3>1, <1>2 DEF Inherits
    <3>2. CASE q # p
      BY <2>1, <2>3, <3>2, <1>2 DEF Holders
    <3> QED BY <3>1, <3>2
  <2> QED BY <2>2, <2>3 DEF Holders
<1> QED BY <1>3, <1>4

\* Those two frames hold no pointer.
LEMMA IdleInherits == Inherits(IdleFrame) /\ Inherits(Walked)
<1>1. IdleFrame.pc = "idle" /\ IdleFrame.obj = NoObj /\ \A f \in Files : IdleFrame.found[f] = NoObj
  BY DEF IdleFrame
<1>2. Walked.pc = "parse" /\ Walked.obj = NoObj /\ \A f \in Files : Walked.found[f] = NoObj
  BY DEF IdleFrame, Walked
<1> QED
  BY <1>1, <1>2, IdleType, WalkedType DEF Inherits, Held

\* What a goroutine has it may keep.
LEMMA SelfInherits ==
    ASSUME FramesOK, Pointers, NEW p \in Procs PROVE Inherits(frame[p])
<1>1. frame[p] \in Frame
  BY DEF FramesOK
<1>2. /\ frame[p].found \in [Files -> Objs \cup {NoObj}]
      /\ frame[p].obj \in Objs \cup {NoObj} /\ frame[p].file \in Files
  BY <1>1 DEF Frame
<1>3. \A f \in Files : frame[p].found[f] \in Holders(f) \cup {NoObj}
  BY <1>2 DEF Holders
<1>4. frame[p].obj \in Holders(frame[p].file) \cup {NoObj}
  BY <1>2 DEF Holders
<1> QED
  BY <1>1, <1>3, <1>4 DEF Inherits, FramesOK, Pointers

\* Steps of a goroutine that leave the heap's structure alone.
LEMMA StepFrame ==
    ASSUME FramesOK, StateOK, Pointers, NEW p \in Procs, Step(p), ~Load(p)
    PROVE  \E r : Inherits(r) /\ Becomes(p, r)
<1> DEFINE s == frame[p]
<1>1. s \in Frame /\ Inherits(s) /\ (s.pc \notin Held => s.obj = NoObj)
  BY SelfInherits DEF FramesOK, Pointers
<1> HIDE DEF s
<1> DEFINE Goal == \E r : Inherits(r) /\ Becomes(p, r)
<1>2. ASSUME Return(p) PROVE Goal
  BY <1>2, IdleInherits DEF Return, Becomes
<1>3. ASSUME NEW pc \in {"parse", "prefs", "commit"}, s.pc \notin Held,
             frame' = [frame EXCEPT ![p].pc = pc]
      PROVE  Goal
  <2> DEFINE r == [s EXCEPT !.pc = pc]
  <2>1. r \in Frame /\ r.pc = pc /\ r.obj = s.obj /\ r.found = s.found /\ r.file = s.file
    BY <1>1 DEF Frame
  <2>2. Becomes(p, r)
    BY <1>3 DEF Becomes, s
  <2> HIDE DEF r
  <2> QED BY <1>1, <1>3, <2>1, <2>2 DEF Inherits, Held
<1>4. ASSUME NEW pc \in Held, s.pc \in Held, frame' = [frame EXCEPT ![p].pc = pc]
      PROVE  Goal
  <2> DEFINE r == [s EXCEPT !.pc = pc]
  <2>1. r \in Frame /\ r.pc = pc /\ r.obj = s.obj /\ r.found = s.found /\ r.file = s.file
    BY <1>1 DEF Frame, Held
  <2>2. Becomes(p, r)
    BY <1>4 DEF Becomes, s
  <2> HIDE DEF r
  <2> QED BY <1>1, <1>4, <2>1, <2>2 DEF Inherits
<1>5. ASSUME NEW f \in Files, Lookup(p, f) PROVE Goal
  <2>0. s.pc = "parse" /\ s.obj = NoObj
    BY <1>1, <1>5 DEF Lookup, s, Held
  <2>1. CASE frame' = [frame EXCEPT ![p].todo = @ \ {f}]
    <3> DEFINE r == [s EXCEPT !.todo = s.todo \ {f}]
    <3>1. r \in Frame /\ r.pc = s.pc /\ r.obj = s.obj /\ r.found = s.found /\ r.file = s.file
      BY <1>1 DEF Frame
    <3>2. Becomes(p, r)
      BY <2>1 DEF Becomes, s
    <3> HIDE DEF r
    <3> QED BY <1>1, <3>1, <3>2 DEF Inherits
  <2>2. CASE frame' = [frame EXCEPT ![p].todo = @ \ {f}, ![p].found[f] = cache[f].obj]
    <3> DEFINE r == [s EXCEPT !.todo = s.todo \ {f}, !.found[f] = cache[f].obj]
    <3>1. cache[f].obj \in Objs \cup {NoObj} /\ cache[f].obj \in Holders(f) \cup {NoObj}
      BY DEF StateOK, Holders
    <3>2. /\ r \in Frame /\ r.pc = s.pc /\ r.obj = s.obj /\ r.file = s.file
          /\ r.found = [s.found EXCEPT ![f] = cache[f].obj]
      BY <1>1, <3>1 DEF Frame
    <3>3. \A g \in Files : r.found[g] = IF g = f THEN cache[f].obj ELSE s.found[g]
      BY <1>1, <3>2 DEF Frame
    <3>4. Becomes(p, r)
      BY <2>2 DEF Becomes, s
    <3> HIDE DEF r
    <3> QED BY <1>1, <3>1, <3>2, <3>3, <3>4 DEF Inherits
  <2>3. CASE frame' = [frame EXCEPT ![p].todo = @ \ {f}, ![p].pc = "load", ![p].file = f,
                                    ![p].version = file[f].version]
    <3> DEFINE r == [s EXCEPT !.todo = s.todo \ {f}, !.pc = "load", !.file = f,
                              !.version = file[f].version]
    <3>1. file[f].version \in 0..MaxVersion
      BY DEF StateOK
    <3>2. /\ r \in Frame /\ r.pc = "load" /\ r.obj = s.obj /\ r.found = s.found
      BY <1>1, <3>1 DEF Frame
    <3>3. Becomes(p, r)
      BY <2>3 DEF Becomes, s
    <3> HIDE DEF r
    <3> QED BY <1>1, <2>0, <3>2, <3>3 DEF Inherits, Held
  <2> QED BY <1>5, <2>1, <2>2, <2>3 DEF Lookup
<1>6. CASE Keep(p)
  <2> DEFINE f == s.file
             r == [s EXCEPT !.pc = "parse", !.obj = NoObj, !.found[f] = s.obj]
  <2>1. f \in Files /\ s.obj \in Objs \cup {NoObj} /\ s.obj \in Holders(f) \cup {NoObj}
    BY <1>1 DEF Frame, Inherits
  <2>2. /\ r \in Frame /\ r.pc = "parse" /\ r.obj = NoObj
        /\ r.found = [s.found EXCEPT ![f] = s.obj]
    BY <1>1, <2>1 DEF Frame
  <2>3. \A g \in Files : r.found[g] = IF g = f THEN s.obj ELSE s.found[g]
    BY <1>1, <2>2 DEF Frame
  <2>4. Becomes(p, r)
    BY <1>6 DEF Keep, Becomes, s
  <2> HIDE DEF r
  <2> QED BY <1>1, <2>1, <2>2, <2>3, <2>4 DEF Inherits, Held
<1>7. CASE ListContainers(p) \/ Relist(p)
  <2>1. CASE Return(p)
    BY <2>1, <1>2
  <2>2. ASSUME NEW pc \in {"prefs", "install"}, s.pc \in Held <=> pc = "install",
               frame' = [frame EXCEPT ![p].pc = pc, ![p].snap = docker]
        PROVE  Goal
    <3> DEFINE r == [s EXCEPT !.pc = pc, !.snap = docker]
    <3>1. docker \in [Files -> States]
      BY DEF StateOK
    <3>2. r \in Frame /\ r.pc = pc /\ r.obj = s.obj /\ r.found = s.found /\ r.file = s.file
      BY <1>1, <3>1 DEF Frame
    <3>3. Becomes(p, r)
      BY <2>2 DEF Becomes, s
    <3> HIDE DEF r
    <3> QED BY <1>1, <2>2, <3>2, <3>3 DEF Inherits, Held
  <2> QED BY <1>7, <2>1, <2>2 DEF ListContainers, Relist, s, Held
<1>8. CASE ReadPrefs(p)
  <2>1. PICK t \in [Files -> Rows] : frame' = [frame EXCEPT ![p].pc = "commit", ![p].prefs = t]
    <3>1. rows \in [Files -> Rows] /\ frame[p].prefs \in [Files -> Rows]
      BY <1>1 DEF StateOK, Frame, s
    <3>2. \A part \in SUBSET Files :
            [f \in Files |-> IF f \in part THEN rows[f] ELSE NoRow] \in [Files -> Rows]
      BY <3>1 DEF Rows
    <3>3. CASE frame' = [frame EXCEPT ![p].pc = "commit",
                                      ![p].prefs = IF hasStore THEN rows ELSE @]
      BY <3>1, <3>3
    <3> QED BY <1>8, <3>2, <3>3 DEF ReadPrefs
  <2> DEFINE r == [s EXCEPT !.pc = "commit", !.prefs = t]
  <2>2. r \in Frame /\ r.pc = "commit" /\ r.obj = s.obj /\ r.found = s.found /\ r.file = s.file
    BY <1>1, <2>1 DEF Frame
  <2>3. Becomes(p, r)
    BY <2>1 DEF Becomes, s
  <2>4. s.pc = "prefs"
    BY <1>8 DEF ReadPrefs, s
  <2> HIDE DEF r
  <2> QED BY <1>1, <2>2, <2>3, <2>4 DEF Inherits, Held
<1>9. CASE LoadFails(p)
  BY <1>3, <1>9 DEF LoadFails, s, Held
<1>10. CASE Check(p) \/ Exec(p)
  BY <1>2, <1>4, <1>10 DEF Check, Exec, s, Held
<1>11. CASE ScanCancelled(p) \/ ListFails(p) \/ Commit(p) \/ ExecFails(p) \/ Install(p)
  BY <1>2, <1>11 DEF ScanCancelled, ListFails, Commit, ExecFails, Install
<1> QED
  BY <1>5, <1>6, <1>7, <1>8, <1>9, <1>10, <1>11 DEF Step

\* A loaded project gets an address nobody refers to, so that only the
\* project of its file has an object more.
LEMMA LoadStep ==
    ASSUME FramesOK, StateOK, Pointers, NEW p \in Procs, Load(p)
    PROVE  /\ FramesOK' /\ Pointers'
           /\ \E a \in Objs : /\ \A f \in Files : a \notin Holders(f)
                              /\ \A b \in Objs \ {a} : heap'[b] = heap[b]
                              /\ \A f \in Files : Holders(f)' \subseteq
                                    Holders(f) \cup (IF f = frame[p].file THEN {a} ELSE {})
<1> DEFINE s == frame[p]
           a == CHOOSE x \in Objs \ Live : TRUE
           r == [s EXCEPT !.pc = "keep", !.obj = a]
<1>1. a \in Objs \ Live
  BY DEF Load
<1>2. s \in Frame
  BY DEF FramesOK
<1>3. \A f \in Files : a \notin Holders(f)
  BY <1>1 DEF Live
<1>4. heap' = [heap EXCEPT ![a] = [Blank EXCEPT !.services = file[s.file].version]]
  BY DEF Load
<1>5. frame' = [frame EXCEPT ![p] = r] /\ projects' = projects /\ cache' = cache
  BY DEF Load
<1> HIDE DEF a
<1>6. r \in Frame /\ r.pc = "keep" /\ r.obj = a /\ r.found = s.found /\ r.file = s.file
  BY <1>1, <1>2 DEF Frame
<1> HIDE DEF r
<1>7. \A q \in Procs : frame'[q] = IF q = p THEN r ELSE frame[q]
  BY <1>5 DEF FramesOK
<1>8. FramesOK' /\ Pointers'
  BY <1>1, <1>5, <1>6, <1>7, NilAssumption DEF FramesOK, Pointers, Held
<1>9. \A b \in Objs \ {a} : heap'[b] = heap[b]
  BY <1>1, <1>4 DEF StateOK
<1>10. ASSUME NEW f \in Files
       PROVE  Holders(f)' \subseteq Holders(f) \cup (IF f = s.file THEN {a} ELSE {})
  BY <1>5, <1>6, <1>7 DEF Holders
<1> QED BY <1>1, <1>3, <1>8, <1>9, <1>10

\* The remaining steps: requests that come in, and the environment.
LEMMA OtherFrames ==
    ASSUME FramesOK, StateOK, Pointers, Boot \/ BootDone \/ Tick \/ Environment \/ Incoming
    PROVE  FramesOK' /\ Pointers' /\ \A f \in Files : Holders(f)' \subseteq Holders(f)
<1> DEFINE Goal == FramesOK' /\ Pointers' /\ \A f \in Files : Holders(f)' \subseteq Holders(f)
<1>0. \A f \in Files : projects[f] \in Holders(f) \cup {NoObj}
                       /\ cache[f].obj \in Holders(f) \cup {NoObj}
  BY DEF StateOK, Holders
<1>1. ASSUME UNCHANGED <<projects, cache, frame>> PROVE Goal
  BY <1>1 DEF FramesOK, Pointers, Holders
<1>2. ASSUME NEW p \in Procs, NEW r, Inherits(r), Becomes(p, r), UNCHANGED <<projects, cache>>
      PROVE  Goal
  BY <1>0, <1>2, InheritStep
<1>3. ASSUME NEW p \in Procs, frame' = [frame EXCEPT ![p].cancelled = TRUE],
             UNCHANGED <<projects, cache>>
      PROVE  Goal
  <2> DEFINE s == frame[p]
             r == [s EXCEPT !.cancelled = TRUE]
  <2>1. s \in Frame /\ Inherits(s)
    BY SelfInherits DEF FramesOK
  <2>2. Becomes(p, r)
    BY <1>3 DEF Becomes
  <2> HIDE DEF s
  <2>3. r \in Frame /\ r.pc = s.pc /\ r.obj = s.obj /\ r.found = s.found /\ r.file = s.file
    BY <2>1 DEF Frame
  <2> HIDE DEF r
  <2>4. Inherits(r)
    BY <2>1, <2>3 DEF Inherits
  <2> QED BY <1>2, <1>3, <2>2, <2>4
<1>4. CASE Exit
  <2>1. frame' = [p \in Procs |-> IdleFrame]
    BY <1>4 DEF Exit
  <2>2. IdleFrame.pc = "idle" /\ IdleFrame.obj = NoObj
        /\ \A f \in Files : IdleFrame.found[f] = NoObj
    BY DEF IdleFrame
  <2>3. \A f \in Files : projects'[f] = NoObj /\ cache'[f].obj = NoObj
    BY <1>4 DEF Exit
  <2>4. FramesOK' /\ Pointers'
    BY <2>1, <2>2, IdleType DEF FramesOK, Pointers, Held
  <2>5. \A f \in Files : Holders(f)' = {}
    BY <2>1, <2>2, <2>3, NilAssumption DEF Holders
  <2> QED BY <2>4, <2>5
<1>5. CASE Environment
  <2>1. ASSUME NEW f \in Files, FileChanges(f) \/ ContainerChanges(f) PROVE Goal
    BY <1>1, <2>1 DEF FileChanges, ContainerChanges, memory
  <2>2. ASSUME NEW p \in Procs, Disconnect(p) PROVE Goal
    BY <1>3, <2>2 DEF Disconnect, memory
  <2>3. CASE Shutdown
    BY <1>1, <1>3, <2>3 DEF Shutdown, memory, Procs
  <2> QED BY <1>4, <1>5, <2>1, <2>2, <2>3 DEF Environment
<1>6. CASE Boot \/ BootDone \/ Tick
  BY <1>1, <1>2, <1>6, IdleInherits DEF Boot, BootDone, Tick, memory, Becomes, Procs
<1>7. ASSUME NEW p \in Procs, ListRequest(p) PROVE Goal
  BY <1>2, <1>7, IdleInherits DEF ListRequest, memory, Becomes
<1>8. ASSUME NEW p \in Procs, NEW op \in Requests, NEW f \in Files, Request(p, op, f) PROVE Goal
  <2> DEFINE s == frame[p]
             pc == IF op \in {"stop", "restart"} THEN "check" ELSE "exec"
             r == [s EXCEPT !.pc = pc, !.op = op, !.file = f, !.obj = projects[f]]
  <2>1. s \in Frame /\ Inherits(s)
    BY SelfInherits DEF FramesOK
  <2>2. Becomes(p, r) /\ projects[f] # NoObj /\ UNCHANGED <<projects, cache>>
    BY <1>8 DEF Request, Becomes, Listed, memory
  <2> HIDE DEF s
  <2>3. projects[f] \in Objs \cup {NoObj}
    BY DEF StateOK
  <2>4. /\ r \in Frame /\ r.pc \in {"check", "exec"} /\ r.obj = projects[f]
        /\ r.found = s.found /\ r.file = f
    BY <2>1, <2>3 DEF Frame
  <2> HIDE DEF r, pc
  <2>5. Inherits(r)
    BY <1>0, <2>1, <2>2, <2>4 DEF Inherits, Held
  <2> QED BY <1>2, <2>2, <2>5
<1>9. ASSUME NEW f \in Files, NEW b \in BOOLEAN,
             SetProtection(f, b) \/ SetHidden(f, b) \/ SetDisplayName(f, b)
      PROVE  Goal
  BY <1>1, <1>9 DEF SetProtection, SetHidden, SetDisplayName
<1> QED BY <1>5, <1>6, <1>7, <1>8, <1>9 DEF Incoming

\* All steps together: an object a project has is one it had before, or a
\* new one that no project had.
LEMMA StructureStep ==
    ASSUME FramesOK, StateOK, Pointers, NoSharing, Next
    PROVE  FramesOK' /\ Pointers' /\ NoSharing'
<1>1. ASSUME FramesOK', Pointers', \A f \in Files : Holders(f)' \subseteq Holders(f)
      PROVE  FramesOK' /\ Pointers' /\ NoSharing'
  BY <1>1 DEF NoSharing
<1>2. ASSUME NEW p \in Procs, Load(p) PROVE FramesOK' /\ Pointers' /\ NoSharing'
  BY <1>2, LoadStep DEF NoSharing
<1>3. ASSUME NEW p \in Procs, Step(p), ~Load(p)
      PROVE  FramesOK' /\ Pointers' /\ \A f \in Files : Holders(f)' \subseteq Holders(f)
  <2>1. PICK r : Inherits(r) /\ Becomes(p, r)
    BY <1>3, StepFrame
  <2>2. frame[p] \in Frame /\ Inherits(frame[p])
    BY SelfInherits DEF FramesOK
  <2>3. \A f \in Files : projects[f] \in Holders(f) \cup {NoObj}
                         /\ cache[f].obj \in Holders(f) \cup {NoObj}
    BY DEF StateOK, Holders
  <2>4. \A f \in Files : projects'[f] \in Holders(f) \cup {NoObj}
    <3>1. projects' = projects \/ projects' = frame[p].found
      BY <1>3 DEF Step, ScanCancelled, Lookup, LoadFails, Keep, ListContainers, ListFails,
                  ReadPrefs, Commit, Check, Exec, ExecFails, Relist, Install, memory
    <3> QED BY <2>2, <2>3, <3>1 DEF Inherits
  <2>5. \A f \in Files : cache'[f].obj \in Holders(f) \cup {NoObj}
    <3>1. CASE cache' = cache
      BY <2>3, <3>1
    <3>2. CASE Keep(p)
      <4>1. cache' = [cache EXCEPT ![frame[p].file] =
                        [version |-> frame[p].version, obj |-> frame[p].obj]]
        BY <3>2 DEF Keep
      <4>2. frame[p].obj \in Holders(frame[p].file) \cup {NoObj}
        BY <2>2 DEF Inherits
      <4> QED BY <2>3, <4>1, <4>2 DEF StateOK
    <3>3. Keep(p) \/ cache' = cache
      BY <1>3 DEF Step, ScanCancelled, Lookup, LoadFails, ListContainers, ListFails,
                  ReadPrefs, Commit, Check, Exec, ExecFails, Relist, Install, memory
    <3> QED BY <3>1, <3>2, <3>3
  <2> QED BY <2>1, <2>4, <2>5, InheritStep
<1> QED BY <1>1, <1>2, <1>3, OtherFrames DEF Next

-----------------------------------------------------------------------------
(* Types of what is shared. *)

\* The object NewComposeFile starts from is a project.
LEMMA BlankType == Blank \in Project
  BY BoundAssumption DEF Blank, Project

\* What listing the containers gives for one project name is a set of pairs.
LEMMA GroupType ==
    ASSUME NEW snap \in [Files -> States], NEW name PROVE Group(snap, name) \in SUBSET Pairs
  BY DEF Group, Pairs

\* Writing one field of one project object.
LEMMA HeapField ==
    ASSUME heap \in [Objs -> Project], NEW a \in Objs,
           \/ \E b \in BOOLEAN : \/ heap' = [heap EXCEPT ![a].prot = b]
                                 \/ heap' = [heap EXCEPT ![a].hidden = b]
                                 \/ heap' = [heap EXCEPT ![a].named = b]
           \/ \E c \in SUBSET Pairs : heap' = [heap EXCEPT ![a].conts = c]
    PROVE  heap' \in [Objs -> Project]
<1>0. heap[a] \in Project
  OBVIOUS
<1>1. ASSUME NEW b \in BOOLEAN, heap' = [heap EXCEPT ![a].prot = b]
      PROVE  heap' \in [Objs -> Project]
  <2>1. [heap[a] EXCEPT !.prot = b] \in Project
    BY <1>0 DEF Project
  <2> QED BY <1>1, <2>1
<1>2. ASSUME NEW b \in BOOLEAN, heap' = [heap EXCEPT ![a].hidden = b]
      PROVE  heap' \in [Objs -> Project]
  <2>1. [heap[a] EXCEPT !.hidden = b] \in Project
    BY <1>0 DEF Project
  <2> QED BY <1>2, <2>1
<1>3. ASSUME NEW b \in BOOLEAN, heap' = [heap EXCEPT ![a].named = b]
      PROVE  heap' \in [Objs -> Project]
  <2>1. [heap[a] EXCEPT !.named = b] \in Project
    BY <1>0 DEF Project
  <2> QED BY <1>3, <2>1
<1>4. ASSUME NEW c \in SUBSET Pairs, heap' = [heap EXCEPT ![a].conts = c]
      PROVE  heap' \in [Objs -> Project]
  <2>1. [heap[a] EXCEPT !.conts = c] \in Project
    BY <1>0 DEF Project
  <2> QED BY <1>4, <2>1
<1> QED BY <1>1, <1>2, <1>3, <1>4

\* What a compose command makes of the containers.
LEMMA CommandType ==
    ASSUME StateOK, NEW p \in Procs, frame[p] \in Frame PROVE Command(p) \in [Files -> States]
<1>1. docker \in [Files -> States] /\ frame[p].file \in Files
  BY DEF StateOK, Frame
<1>2. "running" \in States /\ "absent" \in States
  BY DEF States
<1>3. ASSUME NEW f \in Files PROVE /\ ComposeUp(f) \in [Files -> States]
                                   /\ ComposeDown(f) \in [Files -> States]
                                   /\ ComposeRestart(f) \in [Files -> States]
  BY <1>1, <1>2 DEF ComposeUp, ComposeDown, ComposeRestart
<1> QED BY <1>1, <1>3 DEF Command

\* The objects Refresh merges into are projects again.
LEMMA MergedType ==
    ASSUME StateOK, FramesOK, NEW p \in Procs, NEW f \in Files, NEW name \in Names,
           frame[p].found[f] \in Objs
    PROVE  Merged(p, f, name) \in Project
<1>1. frame[p] \in Frame
  BY DEF FramesOK
<1>2. heap[frame[p].found[f]] \in Project
  BY DEF StateOK
<1>3. Listed(f) => Protected(f) \in BOOLEAN
  BY DEF StateOK, Listed, Protected, Project
<1>4. frame[p].prefs[f] # NoRow => frame[p].prefs[f] \in Row
  BY <1>1 DEF Frame, Rows
<1>5. Group(frame[p].snap, name) \in SUBSET Pairs
  BY <1>1, GroupType DEF Frame
<1>6. MatchesPattern(Group(frame[p].snap, name)) \in BOOLEAN
  BY DEF MatchesPattern
<1> QED
  BY <1>2, <1>3, <1>4, <1>5, <1>6 DEF Merged, Project, Row

\* The steps of a goroutine keep the types of the state it shares.
LEMMA StateStep ==
    ASSUME StateOK, FramesOK, NEW p \in Procs, Step(p)
    PROVE  StateOK'
<1>0. frame[p] \in Frame
  BY DEF FramesOK
<1>1. CASE \/ ScanCancelled(p) \/ LoadFails(p) \/ ListContainers(p) \/ Check(p)
           \/ \E f \in Files : Lookup(p, f)
  BY <1>1 DEF ScanCancelled, LoadFails, ListContainers, Check, Lookup, StateOK, disk, memory
<1>2. CASE ListFails(p) \/ ReadPrefs(p) \/ Relist(p)
  <2>1. events' \in 0..MaxEvents
    BY <1>2, BoundAssumption DEF ListFails, ReadPrefs, Relist, StateOK, Occurs
  <2> QED
    BY <1>2, <2>1 DEF ListFails, ReadPrefs, Relist, StateOK, disk, memory
<1>3. CASE Load(p)
  <2> DEFINE a == CHOOSE x \in Objs \ Live : TRUE
  <2>1. a \in Objs
    BY <1>3 DEF Load
  <2>2. file[frame[p].file].version \in 0..MaxVersion
    BY <1>0 DEF StateOK, Frame
  <2>3. [Blank EXCEPT !.services = file[frame[p].file].version] \in Project
    BY <2>2, BlankType DEF Project
  <2>4. heap' = [heap EXCEPT ![a] = [Blank EXCEPT !.services = file[frame[p].file].version]]
    BY <1>3 DEF Load
  <2> HIDE DEF a
  <2>5. heap' \in [Objs -> Project]
    BY <2>1, <2>3, <2>4 DEF StateOK
  <2> QED
    BY <1>3, <2>5 DEF Load, StateOK, disk
<1>4. CASE Keep(p)
  <2>1. [version |-> frame[p].version, obj |-> frame[p].obj]
            \in [version : 0..MaxVersion, obj : Objs \cup {NoObj}]
    BY <1>0 DEF Frame
  <2>2. cache' \in [Files -> [version : 0..MaxVersion, obj : Objs \cup {NoObj}]]
    BY <1>4, <2>1 DEF Keep, StateOK
  <2> QED
    BY <1>4, <2>2 DEF Keep, StateOK, disk
<1>5. CASE Commit(p)
  <2>1. projects' \in [Files -> Objs \cup {NoObj}]
    BY <1>0, <1>5 DEF Commit, Frame
  <2>2. PICK name \in [Files -> Names] :
            heap' = [a \in Objs |->
              IF \E f \in Files : frame[p].found[f] = a
              THEN LET f == CHOOSE g \in Files : frame[p].found[g] = a IN Merged(p, f, name[f])
              ELSE heap[a]]
    BY <1>5 DEF Commit
  <2>3. ASSUME NEW a \in Objs PROVE heap'[a] \in Project
    <3>1. CASE \E f \in Files : frame[p].found[f] = a
      <4> DEFINE g == CHOOSE f \in Files : frame[p].found[f] = a
      <4>1. g \in Files /\ frame[p].found[g] = a
        BY <3>1
      <4>2. heap'[a] = Merged(p, g, name[g])
        BY <2>2, <3>1
      <4> HIDE DEF g
      <4> QED BY <4>1, <4>2, MergedType
    <3>2. CASE ~\E f \in Files : frame[p].found[f] = a
      BY <2>2, <3>2 DEF StateOK
    <3> QED BY <3>1, <3>2
  <2>4. heap' \in [Objs -> Project]
    <3>1. heap' = [a \in Objs |-> heap'[a]]
      BY <2>2
    <3> QED BY <2>3, <3>1
  <2>5. events' \in 0..MaxEvents
    BY <1>5, BoundAssumption DEF Commit, MayBeNamed, StateOK, Occurs
  <2> QED
    BY <1>5, <2>1, <2>4, <2>5 DEF Commit, StateOK, disk
<1>6. CASE Exec(p)
  BY <1>0, <1>6, CommandType DEF Exec, StateOK, memory
<1>7. CASE ExecFails(p)
  <2>1. events' \in 0..MaxEvents
    BY <1>7, BoundAssumption DEF ExecFails, StateOK, Occurs
  <2>2. docker' \in [Files -> States]
    BY <1>0, <1>7, CommandType DEF ExecFails, StateOK
  <2> QED
    BY <1>7, <2>1, <2>2 DEF ExecFails, StateOK, memory
<1>8. CASE Install(p)
  <2>0. events' \in 0..MaxEvents
    <3>1. CASE UNCHANGED events
      BY <3>1 DEF StateOK
    <3>2. CASE Listed(frame[p].file)
      <4>1. PICK name \in [{frame[p].file} -> Names] : MayBeNamed(name)
        BY <1>8, <3>2 DEF Install
      <4> QED BY <4>1, BoundAssumption DEF MayBeNamed, Occurs, StateOK
    <3> QED BY <1>8, <3>1, <3>2 DEF Install
  <2>1. CASE UNCHANGED heap
    <3>1. UNCHANGED <<server, hasStore, disk, projects, cache>>
      BY <1>8 DEF Install
    <3> QED
      BY <2>0, <2>1, <3>1 DEF StateOK, disk
  <2>2. CASE Listed(frame[p].file)
    <3>1. PICK name \in [{frame[p].file} -> Names] :
            heap' = [heap EXCEPT ![projects[frame[p].file]].conts =
                                    Group(frame[p].snap, name[frame[p].file])]
      BY <1>8, <2>2 DEF Install
    <3>2. Group(frame[p].snap, name[frame[p].file]) \in SUBSET Pairs
      BY <1>0, GroupType DEF Frame
    <3>3. projects[frame[p].file] \in Objs
      BY <1>0, <2>2 DEF StateOK, Frame, Listed
    <3>4. heap' \in [Objs -> Project]
      BY <3>1, <3>2, <3>3, HeapField DEF StateOK
    <3> QED
      BY <1>8, <2>0, <3>4 DEF Install, StateOK, disk
  <2> QED BY <1>8, <2>1, <2>2 DEF Install
<1> QED
  BY <1>1, <1>2, <1>3, <1>4, <1>5, <1>6, <1>7, <1>8 DEF Step

\* The steps of requests and of the environment keep those types too.
LEMMA OtherState ==
    ASSUME StateOK, Boot \/ BootDone \/ Tick \/ Environment \/ Incoming
    PROVE  StateOK'
<1>1. ASSUME NEW e, Occurs(e) PROVE events' \in 0..MaxEvents
  BY <1>1, BoundAssumption DEF StateOK, Occurs
<1>2. CASE Boot \/ BootDone \/ Tick
  BY <1>2 DEF Boot, BootDone, Tick, StateOK, disk, memory
<1>3. CASE Environment
  <2>1. ASSUME NEW f \in Files, FileChanges(f) PROVE StateOK'
    <3>1. file' \in [Files -> [version : 1..MaxVersion, valid : BOOLEAN, present : BOOLEAN]]
      <4>1. CASE file' = [file EXCEPT ![f].present = ~@]
        <5>1. [file[f] EXCEPT !.present = ~file[f].present]
                 \in [version : 1..MaxVersion, valid : BOOLEAN, present : BOOLEAN]
          BY DEF StateOK
        <5> QED BY <4>1, <5>1 DEF StateOK
      <4>2. ASSUME NEW ok \in BOOLEAN, file[f].version < MaxVersion,
                   file' = [file EXCEPT ![f] = [version |-> file[f].version + 1,
                                                valid |-> ok, present |-> TRUE]]
            PROVE  file' \in [Files -> [version : 1..MaxVersion, valid : BOOLEAN,
                                        present : BOOLEAN]]
        <5>1. file[f].version + 1 \in 1..MaxVersion
          BY <4>2, BoundAssumption DEF StateOK
        <5>2. [version |-> file[f].version + 1, valid |-> ok, present |-> TRUE]
                 \in [version : 1..MaxVersion, valid : BOOLEAN, present : BOOLEAN]
          BY <5>1
        <5> QED BY <4>2, <5>2 DEF StateOK
      <4> QED BY <2>1, <4>1, <4>2 DEF FileChanges
    <3> QED BY <1>1, <2>1, <3>1 DEF FileChanges, StateOK, memory
  <2>2. ASSUME NEW f \in Files, ContainerChanges(f) PROVE StateOK'
    BY <1>1, <2>2 DEF ContainerChanges, StateOK, memory
  <2>3. ASSUME NEW p \in Procs, Disconnect(p) PROVE StateOK'
    BY <1>1, <2>3 DEF Disconnect, StateOK, memory, disk
  <2>4. CASE Shutdown
    BY <1>1, <2>4 DEF Shutdown, StateOK, memory, disk
  <2>5. CASE Exit
    <3>1. heap' \in [Objs -> Project]
      BY <2>5, BlankType DEF Exit
    <3>2. /\ projects' \in [Files -> Objs \cup {NoObj}]
          /\ cache' \in [Files -> [version : 0..MaxVersion, obj : Objs \cup {NoObj}]]
      BY <2>5, BoundAssumption DEF Exit
    <3> QED BY <1>1, <2>5, <3>1, <3>2 DEF Exit, StateOK, disk
  <2> QED BY <1>3, <2>1, <2>2, <2>3, <2>4, <2>5 DEF Environment
<1>4. CASE Incoming
  <2>1. ASSUME NEW p \in Procs, ListRequest(p) PROVE StateOK'
    BY <1>1, <2>1 DEF ListRequest, StateOK, memory, disk
  <2>2. ASSUME NEW p \in Procs, NEW op \in Requests, NEW f \in Files, Request(p, op, f)
        PROVE  StateOK'
    BY <1>1, <2>2 DEF Request, StateOK, memory, disk
  <2>3. ASSUME NEW f \in Files, NEW b \in BOOLEAN, SetProtection(f, b) PROVE StateOK'
    <3>1. heap' \in [Objs -> Project]
      BY <2>3, HeapField DEF SetProtection, Listed, StateOK
    <3> QED BY <1>1, <2>3, <3>1 DEF SetProtection, StateOK, disk
  <2>4. ASSUME NEW f \in Files PROVE /\ Upsert(f) \in Row
                                     /\ \A b \in BOOLEAN : [Upsert(f) EXCEPT !.hidden = b] \in Rows
                                     /\ \A b \in BOOLEAN : [Upsert(f) EXCEPT !.named = b] \in Rows
    BY DEF StateOK, Upsert, Rows, Row
  <2>5. ASSUME NEW f \in Files, NEW b \in BOOLEAN, SetHidden(f, b) PROVE StateOK'
    <3>1. heap' \in [Objs -> Project]
      BY <2>5, HeapField DEF SetHidden, Listed, StateOK
    <3>2. rows' \in [Files -> Rows]
      BY <2>4, <2>5 DEF SetHidden, StateOK
    <3> QED BY <1>1, <2>5, <3>1, <3>2 DEF SetHidden, StateOK
  <2>6. ASSUME NEW f \in Files, NEW b \in BOOLEAN, SetDisplayName(f, b) PROVE StateOK'
    <3>1. heap' \in [Objs -> Project]
      BY <2>6, HeapField DEF SetDisplayName, Listed, StateOK
    <3>2. rows' \in [Files -> Rows]
      BY <2>4, <2>6 DEF SetDisplayName, StateOK
    <3> QED BY <1>1, <2>6, <3>1, <3>2 DEF SetDisplayName, StateOK
  <2> QED BY <1>4, <2>1, <2>2, <2>3, <2>5, <2>6 DEF Incoming
<1> QED BY <1>2, <1>3, <1>4

\* The history variables keep their types.
LEMMA HistoryStep ==
    ASSUME HistoryOK, Observe PROVE HistoryOK'
  BY DEF HistoryOK, Observe, Scanning, Guarded, Unprotected, Listed, Protected

-----------------------------------------------------------------------------
(* Invariance of types and of the absence of sharing. *)

Structure == TypeOK /\ Pointers /\ NoSharing

\* Initially nobody holds an object.
LEMMA StructureInit == Init => Structure
<1> SUFFICES ASSUME Init PROVE Structure
  OBVIOUS
<1>1. IdleFrame.pc = "idle" /\ IdleFrame.obj = NoObj /\ \A f \in Files : IdleFrame.found[f] = NoObj
  BY DEF IdleFrame
<1>2. /\ \A p \in Procs : frame[p] = IdleFrame
      /\ \A f \in Files : projects[f] = NoObj /\ cache[f].obj = NoObj
  BY DEF Init
<1>3. FramesOK /\ Pointers
  BY <1>1, <1>2, IdleType DEF Init, FramesOK, Pointers, Held
<1>4. /\ file \in [Files -> [version : 1..MaxVersion, valid : BOOLEAN, present : BOOLEAN]]
      /\ cache \in [Files -> [version : 0..MaxVersion, obj : Objs \cup {NoObj}]]
  BY BoundAssumption DEF Init
<1>5. StateOK
  BY <1>4, BlankType, BoundAssumption DEF Init, StateOK, States, Rows
<1>6. HistoryOK
  BY DEF Init, HistoryOK
<1>7. \A f \in Files : Holders(f) = {}
  BY <1>1, <1>2, NilAssumption DEF Holders
<1>8. NoSharing
  BY <1>7 DEF NoSharing
<1> QED BY <1>3, <1>5, <1>6, <1>8, TypeParts DEF Structure

\* Every step preserves the structure.
LEMMA StructureNext == Structure /\ [Next]_vars => Structure'
<1> SUFFICES ASSUME Structure, [Next]_vars PROVE Structure'
  OBVIOUS
<1>0. StateOK /\ FramesOK /\ HistoryOK /\ Pointers /\ NoSharing
  BY TypeParts DEF Structure
<1>1. CASE Next
  <2>1. FramesOK' /\ Pointers' /\ NoSharing'
    BY <1>0, <1>1, StructureStep
  <2>2. StateOK'
    BY <1>0, <1>1, StateStep, OtherState DEF Next
  <2>3. HistoryOK'
    BY <1>0, <1>1, HistoryStep DEF Next
  <2>4. TypeOK'
    BY <2>1, <2>2, <2>3 DEF TypeOK, StateOK, FramesOK, HistoryOK, Held
  <2> QED BY <2>1, <2>4 DEF Structure
<1>2. CASE UNCHANGED vars
  <2>1. /\ UNCHANGED <<server, hasStore, file, docker, rows, projects, cache, heap, frame>>
        /\ UNCHANGED <<events, seen, lapsed, readable>>
    BY <1>2 DEF vars, disk, memory, history
  <2>2. TypeOK'
    BY <1>0, <2>1, TypeParts DEF TypeOK, StateOK, FramesOK, HistoryOK, Held
  <2>3. \A f \in Files : Holders(f)' = Holders(f)
    BY <2>1 DEF Holders
  <2>4. Pointers' /\ NoSharing'
    BY <1>0, <2>1, <2>3 DEF Pointers, NoSharing
  <2> QED BY <2>2, <2>4 DEF Structure
<1> QED BY <1>1, <1>2

\* Types, pointers and the absence of sharing are invariant.
THEOREM ManagerStructure == Spec => []Structure
  BY StructureInit, StructureNext, PTL DEF Spec

\* Every variable keeps its type, and no request goes on to a project it has
\* not found.
THEOREM ManagerTypeCorrect == Spec => []TypeOK
<1>1. Structure => TypeOK BY DEF Structure
<1> QED BY ManagerStructure, <1>1, PTL

\* Two projects never share an object.
THEOREM ManagerNoSharing == Spec => []NoSharing
<1>1. Structure => NoSharing BY DEF Structure
<1> QED BY ManagerStructure, <1>1, PTL

-----------------------------------------------------------------------------
(* Protection. *)

\* What Refresh does to the protection of the project it found for f: it may
\* add it, but keeps what the project in the map has.
LEMMA CommitKeeps ==
    ASSUME Structure, NEW p \in Procs, Commit(p), NEW f \in Files, frame[p].found[f] \in Objs,
           IF Listed(f) THEN Protected(f) ELSE heap[frame[p].found[f]].prot
    PROVE  heap'[frame[p].found[f]].prot
<1> DEFINE a == frame[p].found[f]
           g == CHOOSE h \in Files : frame[p].found[h] = a
<1>1. g \in Files /\ frame[p].found[g] = a
  OBVIOUS
<1>2. a \in Holders(f) /\ a \in Holders(g)
  BY <1>1 DEF Holders
<1>3. g = f
  BY <1>1, <1>2 DEF Structure, NoSharing
<1>4. PICK name \in [Files -> Names] : heap'[a] = Merged(p, g, name[g])
  BY DEF Commit
<1> HIDE DEF a, g
<1>5. Merged(p, f, name[f]).prot
  BY DEF Merged, a
<1> QED BY <1>3, <1>4, <1>5 DEF a

\* Every step but Commit and SetProtection leaves the protection of the
\* objects in use alone.
LEMMA OthersKeep ==
    ASSUME Structure, Next, ~Exit, \A p \in Procs : ~Commit(p),
           \A f \in Files, b \in BOOLEAN : ~SetProtection(f, b),
           NEW f \in Files, NEW a \in Holders(f)
    PROVE  heap'[a].prot = heap[a].prot
<1>0. a \in Objs /\ heap \in [Objs -> Project]
  BY DEF Holders, Structure, TypeOK
<1>1. CASE heap' = heap
  BY <1>1
<1>2. ASSUME NEW p \in Procs, Load(p) PROVE heap'[a].prot = heap[a].prot
  <2>1. StateOK /\ FramesOK /\ Pointers
    BY TypeParts DEF Structure
  <2> QED BY <1>0, <1>2, <2>1, LoadStep
<1>3. ASSUME NEW o \in Objs, NEW v,
             \/ heap' = [heap EXCEPT ![o].conts = v]
             \/ heap' = [heap EXCEPT ![o].hidden = v]
             \/ heap' = [heap EXCEPT ![o].named = v]
      PROVE  heap'[a].prot = heap[a].prot
  <2>0. heap[o] \in Project
    BY <1>0
  <2>1. /\ [heap[o] EXCEPT !.conts = v].prot = heap[o].prot
        /\ [heap[o] EXCEPT !.hidden = v].prot = heap[o].prot
        /\ [heap[o] EXCEPT !.named = v].prot = heap[o].prot
    BY <2>0 DEF Project
  <2>2. ASSUME NEW r, r.prot = heap[o].prot, heap' = [heap EXCEPT ![o] = r]
        PROVE  heap'[a].prot = heap[a].prot
    BY <1>0, <2>2
  <2>3. \/ heap' = [heap EXCEPT ![o] = [heap[o] EXCEPT !.conts = v]]
        \/ heap' = [heap EXCEPT ![o] = [heap[o] EXCEPT !.hidden = v]]
        \/ heap' = [heap EXCEPT ![o] = [heap[o] EXCEPT !.named = v]]
    BY <1>0, <1>3
  <2> QED BY <2>1, <2>2, <2>3
<1>4. ASSUME NEW p \in Procs, Install(p) PROVE heap'[a].prot = heap[a].prot
  <2>1. CASE Listed(frame[p].file)
    <3>1. projects[frame[p].file] \in Objs
      BY <2>1 DEF Structure, TypeOK, Listed, Frame
    <3> QED BY <1>3, <1>4, <2>1, <3>1 DEF Install
  <2> QED BY <1>1, <1>4, <2>1 DEF Install
<1>5. ASSUME NEW g \in Files, NEW b \in BOOLEAN, SetHidden(g, b) \/ SetDisplayName(g, b)
      PROVE  heap'[a].prot = heap[a].prot
  <2>1. projects[g] \in Objs
    BY <1>5 DEF Structure, TypeOK, SetHidden, SetDisplayName, Listed
  <2> QED BY <1>3, <1>5, <2>1 DEF SetHidden, SetDisplayName
<1>6. ASSUME NEW p \in Procs, Step(p) PROVE heap'[a].prot = heap[a].prot
  BY <1>1, <1>2, <1>4, <1>6
  DEF Step, ScanCancelled, Lookup, LoadFails, Keep, ListContainers, ListFails,
      ReadPrefs, Check, Exec, ExecFails, Relist, memory
<1>7. CASE Boot \/ BootDone \/ Tick \/ Environment
  BY <1>1, <1>7 DEF Boot, BootDone, Tick, Environment, FileChanges, ContainerChanges, Disconnect,
                    Shutdown, memory
<1>8. CASE Incoming
  BY <1>1, <1>5, <1>8 DEF Incoming, ListRequest, Request, memory
<1> QED BY <1>6, <1>7, <1>8 DEF Next

\* An object of f loses its protection only while f is, or becomes, a project
\* of the map that is not protected.
LEMMA LosesOnlyAsListed ==
    ASSUME Structure, Structure', Next, ~Exit, NEW f \in Files, NEW a \in Holders(f),
           heap[a].prot, ~heap'[a].prot
    PROVE  Unprotected(f) \/ Unprotected(f)'
<1>0. a \in Objs /\ a # NoObj /\ heap \in [Objs -> Project]
  BY NilAssumption DEF Holders, Structure, TypeOK
<1>1. ASSUME NEW p \in Procs, Commit(p) PROVE Unprotected(f)
  <2>1. CASE \E g \in Files : frame[p].found[g] = a
    <3>1. PICK g \in Files : frame[p].found[g] = a
      BY <2>1
    <3>2. a \in Holders(g)
      BY <1>0, <3>1 DEF Holders
    <3>3. g = f
      BY <3>2 DEF Structure, NoSharing
    <3> QED BY <1>0, <1>1, <3>1, <3>3, CommitKeeps DEF Unprotected
  <2>2. CASE ~\E g \in Files : frame[p].found[g] = a
    <3>1. heap'[a] = heap[a]
      BY <1>0, <1>1, <2>2 DEF Commit
    <3> QED BY <3>1
  <2> QED BY <2>1, <2>2
<1>2. ASSUME NEW g \in Files, NEW b \in BOOLEAN, SetProtection(g, b) PROVE Unprotected(f)'
  <2>1. projects[g] \in Objs /\ projects' = projects /\ heap' = [heap EXCEPT ![projects[g]].prot = b]
    BY <1>2 DEF SetProtection, Listed, Structure, TypeOK
  <2>2. a = projects[g] /\ b = FALSE
    BY <1>0, <2>1 DEF Project
  <2>3. projects[g] \in Holders(g)
    BY <2>1 DEF Holders
  <2>4. g = f
    BY <2>2, <2>3 DEF Structure, NoSharing
  <2> QED BY <1>0, <2>1, <2>2, <2>4 DEF Unprotected, Listed, Protected
<1> QED BY <1>1, <1>2, OthersKeep

\* Only a user takes the protection of a project away.
THEOREM ManagerOnlyUserUnprotects == Spec => OnlyUserUnprotects
<1> DEFINE Kept == \A f \in Files :
              Listed(f) /\ Protected(f) /\ Unprotected(f)' => SetProtection(f, FALSE)
<1>1. Structure /\ Structure' /\ [Next]_vars => [Kept]_vars
  <2> SUFFICES ASSUME Structure, Structure', Next,
                      NEW f \in Files, Listed(f), Protected(f), Unprotected(f)'
               PROVE  SetProtection(f, FALSE)
    OBVIOUS
  <2> DEFINE a == projects[f]
  <2>0. a \in Objs /\ a \in Holders(f) /\ heap \in [Objs -> Project]
    BY DEF Structure, TypeOK, Listed, Holders
  <2>1. ~Exit
    BY DEF Exit, Unprotected, Listed
  <2>2. ASSUME NEW p \in Procs, Commit(p) PROVE FALSE
    <3>1. projects' = frame[p].found
      BY <2>2 DEF Commit
    <3>2. frame[p].found[f] \in Objs
      BY <3>1 DEF Unprotected, Listed, Structure, TypeOK
    <3> QED BY <2>2, <3>1, <3>2, CommitKeeps DEF Unprotected, Listed, Protected
  <2>3. ASSUME NEW g \in Files, NEW b \in BOOLEAN, SetProtection(g, b) PROVE SetProtection(f, FALSE)
    <3>1. projects[g] \in Objs /\ projects' = projects
          /\ heap' = [heap EXCEPT ![projects[g]].prot = b]
      BY <2>3 DEF SetProtection, Listed, Structure, TypeOK
    <3>2. ~heap'[a].prot /\ heap[a].prot
      BY <3>1 DEF Unprotected, Protected
    <3>3. a = projects[g] /\ b = FALSE
      BY <2>0, <3>1, <3>2 DEF Project
    <3>4. projects[g] \in Holders(g)
      BY <3>1 DEF Holders
    <3>5. g = f
      BY <2>0, <3>3, <3>4 DEF Structure, NoSharing
    <3> QED BY <2>3, <3>3, <3>5
  <2>4. ASSUME projects' = projects, heap'[a].prot = heap[a].prot PROVE FALSE
    BY <2>4 DEF Unprotected, Protected
  <2>5. projects' = projects \/ (\E p \in Procs : Commit(p))
    BY <2>1 DEF Next, Step, ScanCancelled, Lookup, Load, LoadFails, Keep, ListContainers,
                ListFails, ReadPrefs, Check, Exec, ExecFails, Relist, Install, memory, Boot,
                BootDone, Tick, Environment, FileChanges, ContainerChanges, Disconnect, Shutdown,
                Incoming, ListRequest, Request, SetProtection, SetHidden, SetDisplayName
  <2> QED BY <2>0, <2>1, <2>2, <2>3, <2>4, <2>5, OthersKeep
<1>2. Spec => [][Kept]_vars
  BY ManagerStructure, <1>1, PTL DEF Spec
<1> QED BY <1>2 DEF OnlyUserUnprotects

-----------------------------------------------------------------------------
(* Unforced requests. *)

\* A goroutine gets to the check or to the command of an unforced request
\* only from a request, from the check, or by being there already.
LEMMA GuardedStep ==
    ASSUME Structure, Next, NEW p \in Procs, Guarded(p)'
    PROVE  \/ /\ Guarded(p) /\ ~Exit /\ frame'[p].pc = frame[p].pc
              /\ frame'[p].file = frame[p].file /\ frame'[p].obj = frame[p].obj
           \/ Check(p) /\ Guarded(p) /\ ~heap[frame[p].obj].prot
           \/ \E op \in Requests, f \in Files : Request(p, op, f)
<1> DEFINE Same == /\ Guarded(p) /\ ~Exit /\ frame'[p].pc = frame[p].pc
                   /\ frame'[p].file = frame[p].file /\ frame'[p].obj = frame[p].obj
           Goal == \/ Same
                   \/ Check(p) /\ Guarded(p) /\ ~heap[frame[p].obj].prot
                   \/ \E op \in Requests, f \in Files : Request(p, op, f)
<1>1. frame \in [Procs -> Frame]
  BY DEF Structure, TypeOK
<1>2. IdleFrame.pc = "idle" /\ Walked.pc = "parse"
  BY DEF IdleFrame, Walked
<1>3. ~Exit
  BY <1>2 DEF Exit, Guarded
<1>4. ASSUME frame'[p] = frame[p] PROVE Goal
  BY <1>3, <1>4 DEF Guarded
<1>5. ASSUME NEW q \in Procs, frame' = [frame EXCEPT ![q].cancelled = TRUE] PROVE Goal
  <2>1. CASE q # p
    BY <1>1, <1>4, <1>5, <2>1
  <2>2. CASE q = p
    <3> DEFINE r == [frame[p] EXCEPT !.cancelled = TRUE]
    <3>1. frame'[p] = r
      BY <1>1, <1>5, <2>2
    <3>2. r.pc = frame[p].pc /\ r.op = frame[p].op /\ r.file = frame[p].file
          /\ r.obj = frame[p].obj
      BY <1>1 DEF Frame
    <3> QED BY <1>3, <3>1, <3>2 DEF Guarded
  <2> QED BY <2>1, <2>2
<1>6. ASSUME NEW q \in Procs, NEW r, r.pc \notin {"check", "exec"}, Becomes(q, r) PROVE Goal
  BY <1>1, <1>4, <1>6 DEF Becomes, Guarded
<1>7. ASSUME NEW q \in Procs, Step(q) PROVE Goal
  <2>1. CASE Check(q)
    <3>1. CASE q = p /\ ~heap[frame[p].obj].prot
      <4> DEFINE r == [frame[p] EXCEPT !.pc = "exec"]
      <4>1. frame'[p] = r /\ frame[p].pc = "check"
        BY <1>1, <2>1, <3>1 DEF Check
      <4>2. r.op = frame[p].op
        BY <1>1 DEF Frame
      <4> QED BY <2>1, <3>1, <4>1, <4>2 DEF Guarded
    <3>2. CASE q # p
      BY <1>1, <1>4, <2>1, <3>2 DEF Check, Return
    <3>3. CASE q = p /\ heap[frame[p].obj].prot
      BY <1>2, <1>6, <2>1, <3>3 DEF Check, Return, Becomes
    <3> QED BY <3>1, <3>2, <3>3
  <2>2. CASE Return(q)
    BY <1>2, <1>6, <2>2 DEF Return, Becomes
  <2>3. ASSUME q # p, ~Return(q) PROVE Goal
    <3>1. \E r : Becomes(q, r)
      <4>1. CASE Load(q)
        BY <4>1 DEF Load, Becomes
      <4>2. CASE ~Load(q)
        BY <1>7, <4>2, StepFrame, TypeParts DEF Structure
      <4> QED BY <4>1, <4>2
    <3> QED BY <1>1, <1>4, <2>3, <3>1 DEF Becomes
  <2>4. ASSUME q = p, ~Return(p), ~Check(p) PROVE Goal
    <3>1. frame'[p].pc \notin {"check", "exec"}
      <4>1. ASSUME NEW f \in Files, Lookup(p, f) PROVE frame'[p].pc \in {"parse", "load"}
        BY <1>1, <4>1 DEF Lookup, Frame
      <4>2. CASE Load(p) \/ LoadFails(p) \/ Keep(p)
        BY <1>1, <4>2 DEF Load, LoadFails, Keep, Frame
      <4>3. CASE ListContainers(p) \/ ReadPrefs(p) \/ Relist(p) \/ Exec(p)
        BY <1>1, <2>4, <4>3 DEF ListContainers, ReadPrefs, Relist, Exec, Frame
      <4> QED BY <1>7, <2>4, <4>1, <4>2, <4>3
              DEF Step, ScanCancelled, ListFails, Commit, ExecFails, Install
    <3> QED BY <3>1 DEF Guarded
  <2> QED BY <2>1, <2>2, <2>3, <2>4
<1>8. CASE Boot \/ BootDone \/ Tick
  BY <1>2, <1>4, <1>6, <1>8 DEF Boot, BootDone, Tick, Becomes, Procs
<1>9. CASE Environment
  BY <1>3, <1>4, <1>5, <1>9 DEF Environment, FileChanges, ContainerChanges, Disconnect, Shutdown,
                                Procs
<1>10. CASE Incoming
  <2>1. ASSUME NEW q \in Procs, ListRequest(q) PROVE Goal
    BY <1>2, <1>6, <2>1 DEF ListRequest, Becomes
  <2>2. ASSUME NEW q \in Procs \ {p}, NEW op \in Requests, NEW f \in Files, Request(q, op, f)
        PROVE  Goal
    BY <1>1, <1>4, <2>2 DEF Request
  <2>3. ASSUME NEW f \in Files, NEW b \in BOOLEAN,
               SetProtection(f, b) \/ SetHidden(f, b) \/ SetDisplayName(f, b)
        PROVE  Goal
    BY <1>4, <2>3 DEF SetProtection, SetHidden, SetDisplayName
  <2> QED BY <1>10, <2>1, <2>2, <2>3 DEF Incoming
<1> QED BY <1>7, <1>8, <1>9, <1>10 DEF Next

\* While an unforced request waits for its check, the project was seen
\* unprotected if its object says so or if the map does, even when a scan has
\* put another object in the map since.
SeenInv ==
    \A p \in Procs : Guarded(p) =>
        /\ frame[p].pc = "check" /\ ~heap[frame[p].obj].prot => seen[p]
        /\ frame[p].pc = "exec" => seen[p]
        /\ Unprotected(frame[p].file) => seen[p]

\* Every step preserves SeenInv: the object loses its protection only while
\* the map shows the project unprotected, which seen records.
LEMMA SeenStep ==
    ASSUME Structure, Structure', SeenInv, Next PROVE SeenInv'
<1> SUFFICES ASSUME NEW p \in Procs, Guarded(p)',
                    ~seen'[p]
             PROVE  /\ frame'[p].pc = "check" => heap'[frame'[p].obj].prot
                    /\ frame'[p].pc # "exec"
                    /\ ~Unprotected(frame[p].file)'
  BY DEF SeenInv
<1>1. ~seen[p] /\ ~Unprotected(frame[p].file)'
  BY DEF Next, Observe
<1>2. CASE /\ Guarded(p) /\ ~Exit /\ frame'[p].pc = frame[p].pc
           /\ frame'[p].file = frame[p].file /\ frame'[p].obj = frame[p].obj
  <2> DEFINE a == frame[p].obj
             f == frame[p].file
  <2>1. frame[p].pc = "check" /\ heap[a].prot /\ ~Unprotected(f) /\ ~Unprotected(f)'
    BY <1>1, <1>2 DEF SeenInv, Guarded, Unprotected, Listed, Protected
  <2>2. f \in Files /\ a \in Holders(f)
    BY <2>1 DEF Structure, TypeOK, Frame, Holders
  <2>3. heap'[a].prot
    BY <1>2, <2>1, <2>2, LosesOnlyAsListed
  <2> QED BY <1>1, <1>2, <2>1, <2>3
<1>3. CASE Check(p) /\ Guarded(p) /\ ~heap[frame[p].obj].prot
  BY <1>1, <1>3 DEF Check, SeenInv
<1>4. ASSUME NEW op \in Requests, NEW f \in Files, Request(p, op, f)
      PROVE  /\ frame'[p].pc = "check" => heap'[frame'[p].obj].prot
             /\ frame'[p].pc # "exec"
  <2> DEFINE pc == IF op \in {"stop", "restart"} THEN "check" ELSE "exec"
             r == [frame[p] EXCEPT !.pc = pc, !.op = op, !.file = f, !.obj = projects[f]]
  <2>1. frame'[p] = r /\ frame[p] \in Frame
    BY <1>4 DEF Request, Structure, TypeOK
  <2>2. r.pc = pc /\ r.op = op /\ r.file = f /\ r.obj = projects[f]
    BY <2>1 DEF Frame
  <2>3. Listed(f) /\ UNCHANGED <<projects, heap>>
    BY <1>4 DEF Request, memory
  <2>4. op \in {"stop", "restart"}
    BY <2>1, <2>2 DEF Guarded
  <2> QED BY <1>1, <2>1, <2>2, <2>3, <2>4 DEF Unprotected, Listed, Protected
<1> QED BY <1>1, <1>2, <1>3, <1>4, GuardedStep

\* An unforced stop or restart goes ahead only if the project was in the map
\* and unprotected at some moment since the request came.
THEOREM ManagerUnforcedWasUnprotected == Spec => []UnforcedWasUnprotected
<1>1. Init => SeenInv
  <2>1. IdleFrame.pc = "idle"
    BY DEF IdleFrame
  <2> QED BY <2>1 DEF Init, SeenInv, Guarded
<1>2. Structure /\ Structure' /\ SeenInv /\ [Next]_vars => SeenInv'
  <2>1. ASSUME UNCHANGED vars, SeenInv PROVE SeenInv'
    BY <2>1 DEF SeenInv, Guarded, Unprotected, Listed, Protected, vars, memory, history
  <2> QED BY <2>1, SeenStep
<1>3. SeenInv => UnforcedWasUnprotected
  BY DEF SeenInv, UnforcedWasUnprotected, Guarded
<1> QED BY ManagerStructure, <1>1, <1>2, <1>3, PTL DEF Spec
-----------------------------------------------------------------------------
(* What a scan finds. *)

\* The points of a Refresh, and those after the files were read.
Scans == {"parse", "load", "keep", "prefs", "commit"}
Parsed == {"prefs", "commit"}

\* What the cache says of a file is of an earlier version, or of this one,
\* and then the file parses.
CacheInv ==
    \A f \in Files :
        /\ cache[f].version <= file[f].version
        /\ cache[f].obj # NoObj /\ cache[f].version = file[f].version => file[f].valid

\* What became of f in the scan of p: it is still to be read, being read,
\* found, or it was unreadable at some moment.
Accounted(p, f) ==
    \/ f \in frame[p].todo
    \/ frame[p].pc \in {"load", "keep"} /\ frame[p].file = f
    \/ frame[p].found[f] # NoObj \/ f \in lapsed[p]

\* A file that is found, or about to be, was readable during the scan; a scan
\* that can still replace the map accounts for every file.
ScanInv(p) ==
    /\ frame[p].pc \in Scans <=> frame[p].op = "refresh"
    /\ frame[p].pc \notin Scans => \A f \in Files : frame[p].found[f] = NoObj
    /\ frame[p].pc \in {"load", "keep"} => frame[p].version <= file[frame[p].file].version
    /\ frame[p].pc = "keep" =>
          /\ frame[p].file \in readable[p]
          /\ frame[p].version = file[frame[p].file].version => file[frame[p].file].valid
    /\ \A f \in Files : frame[p].found[f] # NoObj => f \in readable[p]
    /\ frame[p].pc \in Parsed => frame[p].todo = {}
    /\ frame[p].pc \in Scans /\ (frame[p].pc \in Parsed \/ ~frame[p].cancelled) =>
          \A f \in Files : Accounted(p, f)

FilesInv == CacheInv /\ \A p \in Procs : ScanInv(p)

\* The versions of the files only go up, and what a file says changes only
\* with its version.
LEMMA FilesMove ==
    ASSUME StateOK, Next, NEW f \in Files
    PROVE  /\ file[f].version <= file'[f].version
           /\ file'[f].version = file[f].version => file'[f].valid = file[f].valid
<1>0. file \in [Files -> [version : 1..MaxVersion, valid : BOOLEAN, present : BOOLEAN]]
  BY DEF StateOK
<1>1. CASE file' = file
  BY <1>0, <1>1
<1>2. ASSUME NEW g \in Files, FileChanges(g)
      PROVE  /\ file[f].version <= file'[f].version
             /\ file'[f].version = file[f].version => file'[f].valid = file[f].valid
  <2>1. CASE file' = [file EXCEPT ![g].present = ~@]
    <3> DEFINE r == [file[g] EXCEPT !.present = ~file[g].present]
    <3>1. r.version = file[g].version /\ r.valid = file[g].valid
      BY <1>0
    <3>2. file'[f] = IF f = g THEN r ELSE file[f]
      BY <1>0, <2>1
    <3> HIDE DEF r
    <3> QED BY <1>0, <3>1, <3>2
  <2>2. ASSUME NEW ok \in BOOLEAN,
               file' = [file EXCEPT ![g] = [version |-> file[g].version + 1, valid |-> ok,
                                            present |-> TRUE]]
        PROVE  /\ file[f].version <= file'[f].version
               /\ file'[f].version = file[f].version => file'[f].valid = file[f].valid
    <3>1. CASE f = g
      <4>1. file'[f].version = file[f].version + 1 /\ file[f].version \in Nat
        BY <1>0, <2>2, <3>1
      <4> QED BY <4>1
    <3>2. CASE f # g
      BY <1>0, <2>2, <3>2
    <3> QED BY <3>1, <3>2
  <2> QED BY <1>2, <2>1, <2>2 DEF FileChanges
<1>3. file' = file \/ \E g \in Files : FileChanges(g)
  BY DEF Next, Step, ScanCancelled, Lookup, Load, LoadFails, Keep, ListContainers, ListFails,
         ReadPrefs, Commit, Check, Exec, ExecFails, Relist, Install, disk, Boot, BootDone, Tick,
         Environment, ContainerChanges, Disconnect, Shutdown, Exit, Incoming, ListRequest,
         Request, SetProtection, SetHidden, SetDisplayName
<1> QED BY <1>1, <1>2, <1>3

\* During a scan lapsed and readable only grow, and have every file that is,
\* or is not, readable now.
LEMMA Watched ==
    ASSUME HistoryOK, Next, NEW p \in Procs, Scanning(p)', NEW f \in Files
    PROVE  /\ f \in lapsed'[p] <=> f \in lapsed[p] \/ ~Readable(f)'
           /\ f \in readable'[p] <=> f \in readable[p] \/ Readable(f)'
  BY DEF HistoryOK, Next, Observe

\* The cache gets only what Keep puts there.
LEMMA CacheStep ==
    ASSUME Structure, FilesInv, Next PROVE CacheInv'
<1>0. StateOK /\ FramesOK
  BY TypeParts DEF Structure
<1>1. \A f \in Files : /\ file[f].version \in Nat /\ file'[f].version \in Nat
                       /\ file[f].version <= file'[f].version
                       /\ file'[f].version = file[f].version => file'[f].valid = file[f].valid
  <2>1. StateOK'
    BY <1>0, StateStep, OtherState DEF Next
  <2> QED BY <1>0, <2>1, FilesMove DEF StateOK
<1>2. \A f \in Files : cache[f].version \in Nat
  BY <1>0 DEF StateOK
<1>3. CASE cache' = cache
  BY <1>1, <1>2, <1>3 DEF FilesInv, CacheInv
<1>4. CASE Exit
  <2>1. \A f \in Files : cache'[f].version = 0 /\ cache'[f].obj = NoObj
    BY <1>4 DEF Exit
  <2> QED BY <1>1, <2>1 DEF CacheInv
<1>5. ASSUME NEW p \in Procs, Keep(p) PROVE CacheInv'
  <2> DEFINE g == frame[p].file
             v == frame[p].version
  <2>1. g \in Files /\ v \in Nat
    BY <1>0 DEF FramesOK, Frame
  <2>2. /\ v <= file[g].version
        /\ v = file[g].version => file[g].valid
        /\ file' = file
    BY <1>5 DEF FilesInv, ScanInv, Keep, disk
  <2>3. \A f \in Files : cache'[f] = IF f = g THEN [version |-> v, obj |-> frame[p].obj]
                                     ELSE cache[f]
    BY <1>0, <1>5 DEF Keep, StateOK
  <2> HIDE DEF g, v
  <2> QED BY <1>2, <2>1, <2>2, <2>3 DEF FilesInv, CacheInv
<1>6. cache' = cache \/ Exit \/ \E p \in Procs : Keep(p)
  BY DEF Next, Step, ScanCancelled, Lookup, Load, LoadFails, ListContainers, ListFails,
         ReadPrefs, Commit, Check, Exec, ExecFails, Relist, Install, memory, Boot, BootDone, Tick,
         Environment, FileChanges, ContainerChanges, Disconnect, Shutdown, Incoming, ListRequest,
         Request, SetProtection, SetHidden, SetDisplayName
<1> QED BY <1>3, <1>4, <1>5, <1>6

\* A goroutine that is not in a scan, and has found nothing, owes nothing.
LEMMA NoScan ==
    ASSUME NEW p \in Procs, frame[p].pc \notin Scans, frame[p].op # "refresh",
           \A f \in Files : frame[p].found[f] = NoObj
    PROVE  ScanInv(p)
  BY DEF ScanInv, Scans, Parsed

\* What keeps ScanInv: a frame that keeps what it has found and not yet lost
\* track of, at a point of the scan where it may do so.
ScanKept(p, r) ==
    LET s == frame[p] IN
    /\ r.pc \in Scans <=> r.op = "refresh"
    /\ r.pc \notin Scans => \A f \in Files : r.found[f] = NoObj
    /\ r.pc \in {"load", "keep"} => r.version <= file[r.file].version
    /\ r.pc = "keep" =>
          /\ \A f \in Files : r.file = f => f \in readable[p] \/ Readable(f)'
          /\ r.version = file[r.file].version => file[r.file].valid
    /\ \A f \in Files : r.found[f] # NoObj => s.found[f] # NoObj \/ f \in readable[p] \/ Readable(f)'
    /\ r.pc \in Parsed => r.todo = {}
    /\ r.pc \in Scans /\ (r.pc \in Parsed \/ ~r.cancelled) =>
          \A f \in Files : \/ f \in r.todo \/ r.found[f] # NoObj \/ f \in lapsed[p]
                           \/ ~Readable(f)'
                           \/ r.pc \in {"load", "keep"} /\ r.file = f

\* Such a frame keeps what is known of its scan.
LEMMA ScanKeptStep ==
    ASSUME Structure, FilesInv, Next, NEW p \in Procs, NEW r, r \in Frame, frame'[p] = r,
           ScanKept(p, r)
    PROVE  ScanInv(p)'
<1>0. StateOK /\ FramesOK /\ HistoryOK /\ StateOK'
  BY TypeParts, StateStep, OtherState DEF Structure, Next
<1>1. r.pc \in Scans <=> r.op = "refresh"
  BY DEF ScanKept
<1>2. CASE r.op # "refresh"
  <2>1. \A f \in Files : r.found[f] = NoObj
    BY <1>1, <1>2 DEF ScanKept
  <2> QED BY <1>1, <1>2, <2>1 DEF ScanInv, Scans, Parsed
<1>3. CASE r.op = "refresh"
  <2>1. Scanning(p)'
    BY <1>3 DEF Scanning
  <2>2. \A f \in Files : /\ f \in lapsed[p] \/ ~Readable(f)' => f \in lapsed'[p]
                         /\ f \in readable[p] \/ Readable(f)' => f \in readable'[p]
    BY <1>0, <2>1, Watched
  <2>3. r.file \in Files /\ r.version \in Nat
    BY DEF Frame
  <2>4. \A f \in Files : /\ file[f].version \in Nat /\ file'[f].version \in Nat
                         /\ file[f].version <= file'[f].version
                         /\ file'[f].version = file[f].version => file'[f].valid = file[f].valid
    BY <1>0, FilesMove DEF StateOK
  <2>5. \A f \in Files : frame[p].found[f] # NoObj => f \in readable[p]
    BY DEF FilesInv, ScanInv
  <2>6. r.pc \in {"load", "keep"} => r.version <= file'[r.file].version
    BY <2>3, <2>4 DEF ScanKept
  <2>7. r.pc = "keep" =>
          /\ r.file \in readable'[p]
          /\ r.version = file'[r.file].version => file'[r.file].valid
    BY <2>2, <2>3, <2>4 DEF ScanKept
  <2>8. \A f \in Files : r.found[f] # NoObj => f \in readable'[p]
    BY <2>2, <2>5 DEF ScanKept
  <2>9. r.pc \in Scans /\ (r.pc \in Parsed \/ ~r.cancelled) => \A f \in Files : Accounted(p, f)'
    BY <2>2 DEF ScanKept, Accounted
  <2> QED BY <1>1, <2>6, <2>7, <2>8, <2>9 DEF ScanInv, ScanKept
<1> QED BY <1>2, <1>3

\* What a goroutine's own frame keeps of the scan when the goroutine does
\* nothing, or when its context is cancelled.
LEMMA SameKept ==
    ASSUME Structure, FilesInv, NEW p \in Procs, NEW r,
           \/ r = frame[p] \/ r = [frame[p] EXCEPT !.cancelled = TRUE]
    PROVE  r \in Frame /\ ScanKept(p, r)
<1> DEFINE s == frame[p]
<1>1. s \in Frame
  BY DEF Structure, TypeOK
<1>2. /\ r \in Frame /\ r.pc = s.pc /\ r.op = s.op /\ r.file = s.file /\ r.version = s.version
      /\ r.todo = s.todo /\ r.found = s.found /\ (~r.cancelled => ~s.cancelled)
  BY <1>1 DEF Frame
<1>3. ScanInv(p)
  BY DEF FilesInv
<1> QED BY <1>2, <1>3 DEF ScanInv, ScanKept, Accounted

\* The scan's own steps.
LEMMA ScanOwnStep ==
    ASSUME Structure, FilesInv, Next, NEW p \in Procs, Step(p)
    PROVE  \E r \in Frame : frame'[p] = r /\ ScanKept(p, r)
<1> DEFINE s == frame[p]
           Goal == \E r \in Frame : frame'[p] = r /\ ScanKept(p, r)
<1>1. StateOK /\ FramesOK /\ Pointers /\ s \in Frame
  BY TypeParts DEF Structure, FramesOK
<1>2. /\ s.pc \in Scans <=> s.op = "refresh"
      /\ s.pc \notin Scans => \A f \in Files : s.found[f] = NoObj
      /\ s.pc \in {"load", "keep"} => s.version <= file[s.file].version
      /\ s.pc = "keep" =>
            /\ s.file \in readable[p]
            /\ s.version = file[s.file].version => file[s.file].valid
      /\ s.pc \in Parsed => s.todo = {}
      /\ s.pc \in Scans /\ (s.pc \in Parsed \/ ~s.cancelled) =>
            \A f \in Files : \/ f \in s.todo \/ s.found[f] # NoObj \/ f \in lapsed[p]
                             \/ s.pc \in {"load", "keep"} /\ s.file = f
  BY DEF FilesInv, ScanInv, Accounted
<1>3. CASE Return(p)
  <2>1. IdleFrame.pc = "idle" /\ IdleFrame.op = "none" /\ \A f \in Files : IdleFrame.found[f] = NoObj
    BY DEF IdleFrame
  <2>2. ScanKept(p, IdleFrame)
    BY <2>1 DEF ScanKept, Scans, Parsed
  <2> QED BY <1>1, <1>3, <2>2, IdleType DEF Return, FramesOK
<1>4. ASSUME NEW f \in Files, Lookup(p, f) PROVE Goal
  <2>0. s.pc = "parse" /\ s.op = "refresh" /\ f \in s.todo /\ ~s.cancelled /\ file' = file
    BY <1>2, <1>4 DEF Lookup, Scans, disk
  <2>1. CASE ~file[f].present /\ frame' = [frame EXCEPT ![p].todo = @ \ {f}]
    <3> DEFINE r == [s EXCEPT !.todo = s.todo \ {f}]
    <3>1. /\ r \in Frame /\ r.pc = s.pc /\ r.op = s.op /\ r.found = s.found
          /\ r.todo = s.todo \ {f} /\ frame'[p] = r
      BY <1>1, <2>1 DEF Frame, FramesOK
    <3>2. ~Readable(f)'
      BY <2>0, <2>1 DEF Readable
    <3> HIDE DEF r
    <3>3. ScanKept(p, r)
      BY <1>2, <2>0, <3>1, <3>2 DEF ScanKept, Scans, Parsed
    <3> QED BY <3>1, <3>3
  <2>2. CASE Unchanged(f) /\ file[f].present
             /\ frame' = [frame EXCEPT ![p].todo = @ \ {f}, ![p].found[f] = cache[f].obj]
    <3> DEFINE r == [s EXCEPT !.todo = s.todo \ {f}, !.found[f] = cache[f].obj]
    <3>1. cache[f].obj \in Objs \cup {NoObj} /\ s.found \in [Files -> Objs \cup {NoObj}]
      BY <1>1 DEF StateOK, Frame
    <3>2. /\ r \in Frame /\ r.pc = s.pc /\ r.op = s.op /\ r.todo = s.todo \ {f}
          /\ r.found = [s.found EXCEPT ![f] = cache[f].obj] /\ frame'[p] = r
      BY <1>1, <2>2, <3>1 DEF Frame, FramesOK
    <3>3. \A g \in Files : r.found[g] = IF g = f THEN cache[f].obj ELSE s.found[g]
      BY <3>1, <3>2
    <3>4. Readable(f)' /\ cache[f].obj # NoObj
      BY <2>0, <2>2 DEF Readable, Unchanged, FilesInv, CacheInv
    <3> HIDE DEF r
    <3>5. ScanKept(p, r)
      BY <1>2, <2>0, <3>2, <3>3, <3>4 DEF ScanKept, Scans, Parsed
    <3> QED BY <3>2, <3>5
  <2>3. CASE frame' = [frame EXCEPT ![p].todo = @ \ {f}, ![p].pc = "load", ![p].file = f,
                                    ![p].version = file[f].version]
    <3> DEFINE r == [s EXCEPT !.todo = s.todo \ {f}, !.pc = "load", !.file = f,
                              !.version = file[f].version]
    <3>1. file[f].version \in 0..MaxVersion
      BY <1>1 DEF StateOK
    <3>2. /\ r \in Frame /\ r.pc = "load" /\ r.op = s.op /\ r.found = s.found /\ r.file = f
          /\ r.version = file[f].version /\ r.todo = s.todo \ {f} /\ frame'[p] = r
      BY <1>1, <2>3, <3>1 DEF Frame, FramesOK
    <3>3. r.version <= file[f].version
      BY <3>1, <3>2
    <3> HIDE DEF r
    <3>4. ScanKept(p, r)
      BY <1>2, <2>0, <3>2, <3>3 DEF ScanKept, Scans, Parsed
    <3> QED BY <3>2, <3>4
  <2> QED BY <1>4, <2>1, <2>2, <2>3 DEF Lookup
<1>5. CASE Load(p)
  <2> DEFINE a == CHOOSE x \in Objs \ Live : TRUE
             r == [s EXCEPT !.pc = "keep", !.obj = a]
  <2>1. a \in Objs /\ frame'[p] = r
    BY <1>1, <1>5 DEF Load, FramesOK
  <2>2. s.pc = "load" /\ s.op = "refresh" /\ Readable(s.file) /\ file' = file
    BY <1>2, <1>5 DEF Load, Scans, disk
  <2> HIDE DEF a
  <2>3. /\ r \in Frame /\ r.pc = "keep" /\ r.op = s.op /\ r.found = s.found /\ r.file = s.file
        /\ r.version = s.version /\ r.todo = s.todo /\ (~r.cancelled => ~s.cancelled)
    BY <1>1, <2>1 DEF Frame
  <2>4. file[s.file].valid /\ \A f \in Files : f = s.file => Readable(f)'
    BY <2>2 DEF Readable
  <2> HIDE DEF r
  <2>5. ScanKept(p, r)
    BY <1>2, <2>2, <2>3, <2>4 DEF ScanKept, Scans, Parsed
  <2> QED BY <2>1, <2>3, <2>5
<1>6. CASE LoadFails(p)
  <2> DEFINE r == [s EXCEPT !.pc = "parse"]
  <2>1. /\ r \in Frame /\ r.pc = "parse" /\ r.op = s.op /\ r.found = s.found /\ r.todo = s.todo
        /\ r.cancelled = s.cancelled /\ frame'[p] = r
    BY <1>1, <1>6 DEF LoadFails, Frame, FramesOK
  <2>2. s.pc = "load" /\ s.op = "refresh" 
        /\ \A f \in Files : f = s.file => ~Readable(f)' \/ s.cancelled
    BY <1>2, <1>6 DEF LoadFails, Scans, Readable, disk
  <2> HIDE DEF r
  <2>3. ScanKept(p, r)
    BY <1>2, <2>1, <2>2 DEF ScanKept, Scans, Parsed
  <2> QED BY <2>1, <2>3
<1>7. CASE Keep(p)
  <2> DEFINE g == s.file
             r == [s EXCEPT !.pc = "parse", !.obj = NoObj, !.found[g] = s.obj]
  <2>1. g \in Files /\ s.obj \in Objs \cup {NoObj} /\ s.found \in [Files -> Objs \cup {NoObj}]
        /\ s.obj # NoObj /\ s.pc = "keep"
    BY <1>1, <1>7 DEF Frame, FramesOK, Keep, Held
  <2>2. /\ r \in Frame /\ r.pc = "parse" /\ r.op = s.op /\ r.todo = s.todo
        /\ r.cancelled = s.cancelled /\ r.found = [s.found EXCEPT ![g] = s.obj] /\ frame'[p] = r
    BY <1>1, <1>7, <2>1 DEF Frame, FramesOK, Keep
  <2>3. \A f \in Files : r.found[f] = IF f = g THEN s.obj ELSE s.found[f]
    BY <2>1, <2>2
  <2> HIDE DEF r
  <2>4. ScanKept(p, r)
    BY <1>2, <2>1, <2>2, <2>3 DEF ScanKept, Scans, Parsed
  <2> QED BY <2>2, <2>4
<1>8. CASE ListContainers(p)
  <2> DEFINE r == [s EXCEPT !.pc = "prefs", !.snap = docker]
  <2>0. docker \in [Files -> States]
    BY <1>1 DEF StateOK
  <2>1. /\ r \in Frame /\ r.pc = "prefs" /\ r.op = s.op /\ r.found = s.found /\ r.todo = s.todo
        /\ frame'[p] = r
    BY <1>1, <1>8, <2>0 DEF ListContainers, Frame, FramesOK
  <2>2. s.pc = "parse" /\ s.op = "refresh" /\ s.todo = {} /\ ~s.cancelled
    BY <1>2, <1>8 DEF ListContainers, Scans
  <2> HIDE DEF r
  <2>3. ScanKept(p, r)
    BY <1>2, <2>1, <2>2 DEF ScanKept, Scans, Parsed
  <2> QED BY <2>1, <2>3
<1>9. CASE ReadPrefs(p)
  <2>1. PICK t : frame' = [frame EXCEPT ![p].pc = "commit", ![p].prefs = t]
    BY <1>9 DEF ReadPrefs
  <2> DEFINE r == [s EXCEPT !.pc = "commit", !.prefs = t]
  <2>2. /\ r.pc = "commit" /\ r.op = s.op /\ r.found = s.found /\ r.todo = s.todo
        /\ frame'[p] = r /\ r \in Frame
    <3>1. frame'[p] \in Frame
      BY StructureNext DEF Structure, TypeOK
    <3> QED BY <1>1, <2>1, <3>1 DEF Frame, FramesOK
  <2>3. s.pc = "prefs" /\ s.op = "refresh"
    BY <1>2, <1>9 DEF ReadPrefs, Scans
  <2> HIDE DEF r
  <2>4. ScanKept(p, r)
    BY <1>2, <2>2, <2>3 DEF ScanKept, Scans, Parsed
  <2> QED BY <2>2, <2>4
<1>10. ASSUME NEW pc, pc \notin Scans, s.pc \notin Scans, NEW r \in Frame, frame'[p] = r,
              r.pc = pc, r.op = s.op, r.found = s.found
       PROVE  Goal
  BY <1>2, <1>10 DEF ScanKept, Scans, Parsed
<1>11. CASE Check(p) \/ Exec(p)
  <2>1. CASE Return(p)
    BY <1>3, <2>1
  <2>2. ASSUME NEW pc \in {"exec", "relist"}, s.pc \in {"check", "exec"},
               frame' = [frame EXCEPT ![p].pc = pc]
        PROVE  Goal
    <3> DEFINE r == [s EXCEPT !.pc = pc]
    <3>1. r \in Frame /\ r.pc = pc /\ r.op = s.op /\ r.found = s.found /\ frame'[p] = r
      BY <1>1, <2>2 DEF Frame, FramesOK
    <3> HIDE DEF r
    <3> QED BY <1>10, <2>2, <3>1 DEF Scans
  <2> QED BY <1>11, <2>1, <2>2 DEF Check, Exec
<1>12. CASE Relist(p)
  <2>1. CASE Return(p)
    BY <1>3, <2>1
  <2>2. CASE frame' = [frame EXCEPT ![p].pc = "install", ![p].snap = docker]
    <3> DEFINE r == [s EXCEPT !.pc = "install", !.snap = docker]
    <3>0. docker \in [Files -> States] /\ s.pc = "relist"
      BY <1>1, <1>12 DEF StateOK, Relist
    <3>1. r \in Frame /\ r.pc = "install" /\ r.op = s.op /\ r.found = s.found /\ frame'[p] = r
      BY <1>1, <2>2, <3>0 DEF Frame, FramesOK
    <3> HIDE DEF r
    <3> QED BY <1>10, <3>0, <3>1 DEF Scans
  <2> QED BY <1>12, <2>1, <2>2 DEF Relist
<1> QED
  BY <1>3, <1>4, <1>5, <1>6, <1>7, <1>8, <1>9, <1>11, <1>12
  DEF Step, ScanCancelled, ListFails, Commit, ExecFails, Install

\* Every step keeps what is known about the scans.
LEMMA ScanStep ==
    ASSUME Structure, FilesInv, Next, NEW p \in Procs
    PROVE  ScanInv(p)'
<1> DEFINE s == frame[p]
           Goal == \E r \in Frame : frame'[p] = r /\ ScanKept(p, r)
<1>1. StateOK /\ FramesOK /\ Pointers /\ s \in Frame
  BY TypeParts DEF Structure, FramesOK
<1>2. ASSUME frame'[p] = s PROVE Goal
  BY <1>2, SameKept
<1>3. ASSUME NEW q \in Procs, frame' = [frame EXCEPT ![q].cancelled = TRUE] PROVE Goal
  <2> DEFINE r == [s EXCEPT !.cancelled = TRUE]
  <2>1. CASE q = p
    <3>1. frame'[p] = r
      BY <1>1, <1>3, <2>1 DEF FramesOK
    <3> QED BY <3>1, SameKept
  <2>2. CASE q # p
    BY <1>1, <1>2, <1>3, <2>2 DEF FramesOK
  <2> QED BY <2>1, <2>2
<1>4. ASSUME frame'[p] = Walked, file' = file PROVE Goal
  <2>1. /\ Walked.pc = "parse" /\ Walked.op = "refresh" /\ \A f \in Files : Walked.found[f] = NoObj
        /\ Walked.todo = {f \in Files : file[f].present}
    BY DEF Walked, IdleFrame
  <2>2. \A f \in Files : f \in Walked.todo \/ ~Readable(f)'
    BY <1>4, <2>1 DEF Readable
  <2>3. ScanKept(p, Walked)
    BY <2>1, <2>2 DEF ScanKept, Scans, Parsed
  <2> QED BY <1>4, <2>3, WalkedType
<1>5. ASSUME NEW q \in Procs, Becomes(q, Walked), file' = file PROVE Goal
  <2>1. CASE q = p
    BY <1>1, <1>4, <1>5, <2>1 DEF Becomes, FramesOK
  <2>2. CASE q # p
    BY <1>1, <1>2, <1>5, <2>2 DEF Becomes, FramesOK
  <2> QED BY <2>1, <2>2
<1>6. ASSUME NEW q \in Procs, Step(q) PROVE Goal
  <2>1. CASE q = p
    BY <1>6, <2>1, ScanOwnStep
  <2>2. CASE q # p
    <3>1. \E r : Becomes(q, r)
      <4>1. CASE Load(q)
        BY <4>1 DEF Load, Becomes
      <4>2. CASE ~Load(q)
        BY <1>1, <1>6, <4>2, StepFrame
      <4> QED BY <4>1, <4>2
    <3> QED BY <1>1, <1>2, <2>2, <3>1 DEF Becomes, FramesOK
  <2> QED BY <2>1, <2>2
<1>7. ASSUME Boot \/ BootDone \/ Tick PROVE Goal
  BY <1>2, <1>5, <1>7 DEF Boot, BootDone, Tick, Becomes, Procs, disk
<1>8. ASSUME Environment PROVE Goal
  <2>1. ASSUME Exit PROVE Goal
    <3>1. /\ IdleFrame.pc = "idle" /\ IdleFrame.op = "none"
          /\ \A f \in Files : IdleFrame.found[f] = NoObj
      BY DEF IdleFrame
    <3>2. frame'[p] = IdleFrame
      BY <2>1 DEF Exit
    <3>3. ScanKept(p, IdleFrame)
      BY <3>1 DEF ScanKept, Scans, Parsed
    <3> QED BY <3>2, <3>3, IdleType
  <2> QED BY <1>2, <1>3, <1>8, <2>1
          DEF Environment, FileChanges, ContainerChanges, Disconnect, Shutdown, Procs
<1>9. ASSUME Incoming PROVE Goal
  <2>1. ASSUME NEW q \in Procs, ListRequest(q) PROVE Goal
    BY <1>5, <2>1 DEF ListRequest, Becomes, disk
  <2>2. ASSUME NEW q \in Procs, NEW op \in Requests, NEW g \in Files, Request(q, op, g)
        PROVE  Goal
    <3>1. CASE q = p
      <4> DEFINE pc == IF op \in {"stop", "restart"} THEN "check" ELSE "exec"
                 r == [s EXCEPT !.pc = pc, !.op = op, !.file = g, !.obj = projects[g]]
      <4>1. frame'[p] = r /\ s.pc = "idle"
        BY <1>1, <2>2, <3>1 DEF Request, FramesOK, Busy
      <4>2. projects[g] \in Objs \cup {NoObj} /\ pc \in {"check", "exec"} /\ op # "refresh"
        BY <1>1 DEF StateOK, Requests
      <4> HIDE DEF pc
      <4>3. r \in Frame /\ r.pc = pc /\ r.op = op /\ r.found = s.found
        BY <1>1, <4>2 DEF Frame
      <4>4. \A f \in Files : s.found[f] = NoObj
        BY <4>1 DEF FilesInv, ScanInv, Scans
      <4> HIDE DEF r
      <4>5. ScanKept(p, r)
        BY <4>2, <4>3, <4>4 DEF ScanKept, Scans, Parsed
      <4> QED BY <4>1, <4>3, <4>5
    <3>2. CASE q # p
      BY <1>1, <1>2, <2>2, <3>2 DEF Request, FramesOK
    <3> QED BY <3>1, <3>2
  <2>3. ASSUME NEW f \in Files, NEW b \in BOOLEAN,
               SetProtection(f, b) \/ SetHidden(f, b) \/ SetDisplayName(f, b)
        PROVE  Goal
    BY <1>2, <2>3 DEF SetProtection, SetHidden, SetDisplayName
  <2> QED BY <1>9, <2>1, <2>2, <2>3 DEF Incoming
<1>10. Goal
  BY <1>6, <1>7, <1>8, <1>9 DEF Next
<1> QED BY <1>10, ScanKeptStep

\* What the cache and the scans know of the files is invariant.
LEMMA ManagerFiles == Spec => []FilesInv
<1>1. Init => FilesInv
  <2> SUFFICES ASSUME Init PROVE FilesInv
    OBVIOUS
  <2>1. /\ IdleFrame.pc = "idle" /\ IdleFrame.op = "none"
        /\ \A f \in Files : IdleFrame.found[f] = NoObj
    BY DEF IdleFrame
  <2>2. \A f \in Files : file[f].version = 1 /\ cache[f].version = 0 /\ cache[f].obj = NoObj
    BY DEF Init
  <2>3. CacheInv
    BY <2>2 DEF CacheInv
  <2>4. ASSUME NEW p \in Procs PROVE ScanInv(p)
    BY <2>1, NoScan DEF Init, Scans
  <2> QED BY <2>3, <2>4 DEF FilesInv
<1>2. Structure /\ FilesInv /\ [Next]_vars => FilesInv'
  <2>1. ASSUME UNCHANGED vars, FilesInv PROVE FilesInv'
    <3>1. UNCHANGED <<file, cache, frame, lapsed, readable>>
      BY <2>1 DEF vars, disk, memory, history
    <3>2. CacheInv'
      BY <2>1, <3>1 DEF FilesInv, CacheInv
    <3>3. ASSUME NEW p \in Procs PROVE ScanInv(p)'
      BY <2>1, <3>1 DEF FilesInv, ScanInv, Accounted
    <3> QED BY <3>2, <3>3 DEF FilesInv
  <2>2. ASSUME Structure, FilesInv, Next PROVE FilesInv'
    BY <2>2, CacheStep, ScanStep DEF FilesInv
  <2> QED BY <2>1, <2>2
<1> QED BY ManagerStructure, <1>1, <1>2, PTL DEF Spec

\* A project leaves the map only because its file was unreadable at some
\* moment of a scan, or the process ends; it enters only because the file was
\* readable.
THEOREM ManagerListFollowsFiles == Spec => ListFollowsFiles
<1> DEFINE Follows == \A f \in Files :
              /\ Listed(f) /\ ~Listed(f)' => server' = "down" \/ \E p \in Procs : f \in lapsed[p]
              /\ ~Listed(f) /\ Listed(f)' => \E p \in Procs : f \in readable[p]
<1>1. Structure /\ FilesInv /\ [Next]_vars => [Follows]_vars
  <2> SUFFICES ASSUME Structure, FilesInv, Next,
                      NEW f \in Files, Listed(f)' # Listed(f)
               PROVE  /\ ~Listed(f)' => server' = "down" \/ \E p \in Procs : f \in lapsed[p]
                      /\ Listed(f)' => \E p \in Procs : f \in readable[p]
    BY DEF Listed
  <2>1. CASE Exit
    BY <2>1 DEF Exit, Listed
  <2>2. ASSUME NEW p \in Procs, Commit(p)
        PROVE  /\ ~Listed(f)' => f \in lapsed[p]
               /\ Listed(f)' => f \in readable[p]
    <3>1. projects' = frame[p].found /\ frame[p].pc = "commit"
      BY <2>2 DEF Commit
    <3>2. Accounted(p, f) /\ frame[p].todo = {} /\ (frame[p].found[f] # NoObj => f \in readable[p])
      BY <3>1 DEF FilesInv, ScanInv, Scans, Parsed
    <3> QED BY <3>1, <3>2 DEF Listed, Accounted
  <2>3. projects' = projects \/ Exit \/ \E p \in Procs : Commit(p)
    BY DEF Next, Step, ScanCancelled, Lookup, Load, LoadFails, Keep, ListContainers,
           ListFails, ReadPrefs, Check, Exec, ExecFails, Relist, Install, memory, Boot,
           BootDone, Tick, Environment, FileChanges, ContainerChanges, Disconnect, Shutdown,
           Incoming, ListRequest, Request, SetProtection, SetHidden, SetDisplayName
  <2> QED BY <2>1, <2>2, <2>3 DEF Listed
<1>2. Spec => [][Follows]_vars
  BY ManagerStructure, ManagerFiles, <1>1, PTL DEF Spec
<1> QED BY <1>2 DEF ListFollowsFiles

-----------------------------------------------------------------------------
(* The refinement of Catalogue. *)

\* Of a listed project its object is what is shown.
LEMMA ShownOf ==
    /\ DOMAIN Shown = {f \in Files : Listed(f)}
    /\ \A f \in Files : Listed(f) => Shown[f] = heap[projects[f]]
  BY DEF Shown

\* What does not touch the objects of the map does not show.
LEMMA ShownSame ==
    ASSUME UNCHANGED projects,
           \A f \in Files : Listed(f) => heap'[projects[f]] = heap[projects[f]]
    PROVE  UNCHANGED Shown
<1>1. \A f \in Files : Listed(f)' <=> Listed(f)
  BY DEF Listed
<1> QED BY <1>1 DEF Shown

\* A write to the object of one project shows in that project only.
LEMMA ShownWrite ==
    ASSUME Structure, NEW f \in Files, Listed(f), UNCHANGED projects,
           NEW r, heap' = [heap EXCEPT ![projects[f]] = r]
    PROVE  Shown' = [Shown EXCEPT ![f] = r]
<1>1. \A g \in Files : Listed(g)' <=> Listed(g)
  BY DEF Listed
<1>2. heap \in [Objs -> Project] /\ \A g \in Files : Listed(g) => projects[g] \in Objs
  BY DEF Structure, TypeOK, Listed
<1>3. \A g \in Files : Listed(g) /\ g # f => projects[g] # projects[f]
  BY <1>2 DEF Structure, NoSharing, Holders
<1>4. \A g \in Files : Listed(g) =>
          heap'[projects'[g]] = IF g = f THEN r ELSE heap[projects[g]]
  BY <1>2, <1>3
<1>5. Shown' = [g \in {h \in Files : Listed(h)} |-> IF g = f THEN r ELSE heap[projects[g]]]
  BY <1>1, <1>4 DEF Shown
<1> QED BY <1>5 DEF Shown

\* A write to one of its fields is a step of the catalogue.
LEMMA ShownField ==
    ASSUME Structure, NEW f \in Files, Listed(f), UNCHANGED projects
    PROVE  /\ (\E b \in BOOLEAN : \/ heap' = [heap EXCEPT ![projects[f]].prot = b]
                                  \/ heap' = [heap EXCEPT ![projects[f]].hidden = b]
                                  \/ heap' = [heap EXCEPT ![projects[f]].named = b])
              => Entries!Set(f)
           /\ (\E c \in SUBSET Pairs : heap' = [heap EXCEPT ![projects[f]].conts = c])
              => Entries!Relist(f)
<1> DEFINE o == Shown[f]
<1>1. o = heap[projects[f]] /\ f \in DOMAIN Shown
  BY ShownOf
<1>2. ASSUME NEW b, heap' = [heap EXCEPT ![projects[f]].prot = b]
      PROVE  Shown' = [Shown EXCEPT ![f].prot = b]
  <2>1. heap' = [heap EXCEPT ![projects[f]] = [o EXCEPT !.prot = b]]
    BY <1>1, <1>2
  <2> DEFINE r == [o EXCEPT !.prot = b]
  <2> HIDE DEF r
  <2>2. Shown' = [Shown EXCEPT ![f] = r]
    BY <2>1, ShownWrite DEF r
  <2> QED BY <2>2 DEF r
<1>3. ASSUME NEW b, heap' = [heap EXCEPT ![projects[f]].hidden = b]
      PROVE  Shown' = [Shown EXCEPT ![f].hidden = b]
  <2>1. heap' = [heap EXCEPT ![projects[f]] = [o EXCEPT !.hidden = b]]
    BY <1>1, <1>3
  <2> DEFINE r == [o EXCEPT !.hidden = b]
  <2> HIDE DEF r
  <2>2. Shown' = [Shown EXCEPT ![f] = r]
    BY <2>1, ShownWrite DEF r
  <2> QED BY <2>2 DEF r
<1>4. ASSUME NEW b, heap' = [heap EXCEPT ![projects[f]].named = b]
      PROVE  Shown' = [Shown EXCEPT ![f].named = b]
  <2>1. heap' = [heap EXCEPT ![projects[f]] = [o EXCEPT !.named = b]]
    BY <1>1, <1>4
  <2> DEFINE r == [o EXCEPT !.named = b]
  <2> HIDE DEF r
  <2>2. Shown' = [Shown EXCEPT ![f] = r]
    BY <2>1, ShownWrite DEF r
  <2> QED BY <2>2 DEF r
<1>5. ASSUME NEW c, heap' = [heap EXCEPT ![projects[f]].conts = c]
      PROVE  Shown' = [Shown EXCEPT ![f].conts = c]
  <2>1. heap' = [heap EXCEPT ![projects[f]] = [o EXCEPT !.conts = c]]
    BY <1>1, <1>5
  <2> DEFINE r == [o EXCEPT !.conts = c]
  <2> HIDE DEF r
  <2>2. Shown' = [Shown EXCEPT ![f] = r]
    BY <2>1, ShownWrite DEF r
  <2> QED BY <2>2 DEF r
<1> QED BY <1>2, <1>3, <1>4, <1>5 DEF Entries!Set, Entries!Relist

\* A scan's last step is a refresh of the catalogue.
LEMMA CommitRefreshes ==
    ASSUME Structure, Structure', NEW p \in Procs, Commit(p) PROVE Entries!Refresh
<1>1. projects' = frame[p].found
  BY DEF Commit
<1>2. \A f \in Files : Listed(f)' => projects'[f] \in Objs /\ heap'[projects'[f]] \in Project
  BY DEF Structure, TypeOK, Listed
<1>3. Shown' \in [{f \in Files : Listed(f)'} -> Project]
  BY <1>2 DEF Shown
<1>4. DOMAIN Shown' = {f \in Files : Listed(f)'}
      /\ \A f \in Files : Listed(f)' => Shown'[f] = heap'[projects'[f]]
  BY DEF Shown
<1>5. ASSUME NEW f \in Files, Listed(f)',
             \/ f \in ConfigProtected
             \/ Shown'[f].conts \cap {c \in Pairs : c[1] \in PatternProtected} # {}
             \/ f \in DOMAIN Shown /\ Shown[f].prot
      PROVE  Shown'[f].prot
  <2> DEFINE a == frame[p].found[f]
             g == CHOOSE h \in Files : frame[p].found[h] = a
  <2>1. g \in Files /\ frame[p].found[g] = a /\ a \in Objs /\ Shown'[f] = heap'[a]
    BY <1>1, <1>2, <1>4, <1>5
  <2>2. a \in Holders(f) /\ a \in Holders(g)
    BY <2>1 DEF Holders
  <2>3. g = f
    BY <2>1, <2>2 DEF Structure, NoSharing
  <2>4. PICK name \in [Files -> Names] : heap'[a] = Merged(p, g, name[g])
    BY <2>1 DEF Commit
  <2> HIDE DEF a, g
  <2>5. CASE f \in ConfigProtected \/ Shown'[f].conts \cap {c \in Pairs : c[1] \in PatternProtected} # {}
    <3> DEFINE conts == Group(frame[p].snap, name[f])
    <3>1. Shown'[f] = Merged(p, f, name[f])
      BY <2>1, <2>3, <2>4
    <3>2. Shown'[f].conts = conts
      <4>1. Merged(p, f, name[f]).conts = conts
        BY DEF Merged
      <4> QED BY <3>1, <4>1
    <3>3. f \in ConfigProtected \/ MatchesPattern(conts) => Shown'[f].prot
      <4>1. f \in ConfigProtected \/ MatchesPattern(conts) => Merged(p, f, name[f]).prot
        BY DEF Merged
      <4> QED BY <3>1, <4>1
    <3> HIDE DEF conts
    <3>4. Shown'[f].conts \cap {c \in Pairs : c[1] \in PatternProtected} # {}
              => MatchesPattern(conts)
      BY <3>2 DEF MatchesPattern
    <3> QED BY <2>5, <3>3, <3>4
  <2>6. CASE f \in DOMAIN Shown /\ Shown[f].prot
    <3>1. Listed(f) /\ Protected(f)
      BY <2>6, ShownOf DEF Protected
    <3> QED BY <2>1, <3>1, CommitKeeps DEF a
  <2> QED BY <1>5, <2>5, <2>6
<1>6. {f \in Files : Listed(f)'} \in SUBSET Files
  OBVIOUS
<1> QED BY <1>3, <1>4, <1>5, <1>6 DEF Entries!Refresh

\* Every other step leaves the objects in use alone, or writes one field.
LEMMA OthersShow ==
    ASSUME Structure, Next, ~Exit, \A p \in Procs : ~Commit(p)
    PROVE  UNCHANGED Shown \/ \E f \in DOMAIN Shown : Entries!Set(f) \/ Entries!Relist(f)
<1> DEFINE Goal == UNCHANGED Shown \/ \E f \in DOMAIN Shown : Entries!Set(f) \/ Entries!Relist(f)
<1>0. StateOK /\ FramesOK /\ Pointers
  BY TypeParts DEF Structure
<1>1. ASSUME UNCHANGED <<projects, heap>> PROVE Goal
  BY <1>1, ShownSame
<1>2. ASSUME NEW p \in Procs, Load(p) PROVE Goal
  <2>1. \A f \in Files : Listed(f) => projects[f] \in Objs /\ projects[f] \in Holders(f)
    BY <1>0 DEF StateOK, Listed, Holders
  <2>2. UNCHANGED projects
    BY <1>2 DEF Load
  <2>3. \A f \in Files : Listed(f) => heap'[projects[f]] = heap[projects[f]]
    <3>1. PICK a \in Objs : /\ \A f \in Files : a \notin Holders(f)
                            /\ \A b \in Objs \ {a} : heap'[b] = heap[b]
      BY <1>0, <1>2, LoadStep
    <3> QED BY <2>1, <3>1
  <2> QED BY <2>2, <2>3, ShownSame
<1>3. ASSUME NEW p \in Procs, Install(p) PROVE Goal
  <2>1. CASE Listed(frame[p].file)
    <3> DEFINE f == frame[p].file
    <3>1. f \in Files /\ Listed(f) /\ UNCHANGED projects
      BY <1>0, <1>3, <2>1 DEF FramesOK, Frame, Install
    <3>2. PICK name \in [{f} -> Names] :
              heap' = [heap EXCEPT ![projects[f]].conts = Group(frame[p].snap, name[f])]
      BY <1>3, <2>1 DEF Install
    <3>3. Group(frame[p].snap, name[f]) \in SUBSET Pairs
      BY <1>0, GroupType DEF FramesOK, Frame
    <3>4. Entries!Relist(f)
      BY <3>1, <3>2, <3>3, ShownField
    <3> QED BY <3>1, <3>4, ShownOf
  <2>2. CASE ~Listed(frame[p].file)
    BY <1>1, <1>3, <2>2 DEF Install
  <2> QED BY <2>1, <2>2
<1>4. ASSUME NEW f \in Files, NEW b \in BOOLEAN,
             SetProtection(f, b) \/ SetHidden(f, b) \/ SetDisplayName(f, b)
      PROVE  Goal
  <2>1. Listed(f) /\ UNCHANGED projects
    BY <1>4 DEF SetProtection, SetHidden, SetDisplayName
  <2>2. \/ heap' = [heap EXCEPT ![projects[f]].prot = b]
        \/ heap' = [heap EXCEPT ![projects[f]].hidden = b]
        \/ heap' = [heap EXCEPT ![projects[f]].named = b]
    BY <1>4 DEF SetProtection, SetHidden, SetDisplayName
  <2>3. Entries!Set(f)
    BY <2>1, <2>2, ShownField
  <2> QED BY <2>1, <2>3, ShownOf
<1>5. ASSUME NEW p \in Procs, Step(p) PROVE Goal
  <2>1. CASE Load(p) \/ Install(p)
    BY <1>2, <1>3, <2>1
  <2>2. CASE ~Load(p) /\ ~Install(p)
    <3>1. UNCHANGED <<projects, heap>>
      BY <1>5, <2>2 DEF Step, ScanCancelled, Lookup, LoadFails, Keep, ListContainers, ListFails,
                        ReadPrefs, Check, Exec, ExecFails, Relist, memory
    <3> QED BY <1>1, <3>1
  <2> QED BY <2>1, <2>2
<1>6. CASE Boot \/ BootDone \/ Tick \/ Environment
  <2>1. UNCHANGED <<projects, heap>>
    BY <1>6 DEF Boot, BootDone, Tick, Environment, FileChanges, ContainerChanges, Disconnect,
                Shutdown, memory
  <2> QED BY <1>1, <2>1
<1>7. CASE Incoming
  <2>1. CASE \E p \in Procs : ListRequest(p) \/ \E op \in Requests, f \in Files : Request(p, op, f)
    <3>1. UNCHANGED <<projects, heap>>
      BY <2>1 DEF ListRequest, Request, memory
    <3> QED BY <1>1, <3>1
  <2> QED BY <1>4, <1>7, <2>1 DEF Incoming
<1> QED BY <1>5, <1>6, <1>7 DEF Next

\* Every step is one of the catalogue, or none.
LEMMA ManagerCatalogueStep ==
    Structure /\ Structure' /\ [Next]_vars => [Entries!Next]_Shown
<1> SUFFICES ASSUME Structure, Structure', [Next]_vars PROVE [Entries!Next]_Shown
  OBVIOUS
<1>1. CASE UNCHANGED vars
  BY <1>1, ShownSame DEF vars, memory
<1>2. CASE Exit
  <2>1. \A f \in Files : ~Listed(f)'
    BY <1>2 DEF Exit, Listed
  <2>2. Shown' \in [{} -> Project]
    BY <2>1 DEF Shown
  <2> QED BY <2>2 DEF Entries!Next, Entries!Lose
<1>3. ASSUME NEW p \in Procs, Commit(p) PROVE Entries!Next
  BY <1>3, CommitRefreshes DEF Entries!Next
<1>4. CASE Next /\ ~Exit /\ \A p \in Procs : ~Commit(p)
  BY <1>4, OthersShow DEF Entries!Next
<1> QED BY <1>1, <1>2, <1>3, <1>4

\* Manager implements Catalogue for any number of projects, goroutines, names
\* and events: a write through a pointer shows in one field of one project, and
\* no refresh takes a protection away or leaves out one that is due.
THEOREM ManagerImplementsCatalogue == Spec => ImplementsCatalogue
<1>1. Init => Entries!Init
  <2>1. Init => \A f \in Files : ~Listed(f)
    BY DEF Init, Listed
  <2> QED BY <2>1 DEF Shown, Entries!Init
<1> QED
  BY <1>1, ManagerCatalogueStep, ManagerStructure, PTL
  DEF Spec, ImplementsCatalogue, Entries!Spec
=============================================================================
