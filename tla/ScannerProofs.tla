--------------------------- MODULE ScannerProofs ---------------------------
(* What holds of Scanner for any tree, any configurations and any number of  *)
(* concurrent scans, proved.                                                 *)
EXTENDS Scanner, ConfigProofs, TLAPS

\* What the fields of a scan say of each other.
Shape ==
    \A s \in Scans : /\ scan[s].todo # {} => scan[s].root \in Nodes
                     /\ Swapped(s) => scan[s].file \in YAML

TInv == TypeOK /\ Shape

LEMMA IdleIsScanState == Idle \in ScanState
  BY DEF Idle, ScanState

LEMMA ScannerTypeInit == Init => TInv
<1> SUFFICES ASSUME Init PROVE TInv
  OBVIOUS
<1>1. scan \in [Scans -> ScanState]
  BY IdleIsScanState DEF Init
<1>2. disk \in [dirs : SUBSET Dirs, file : [Files -> Kinds]]
  BY DEF Init, Kinds
<1>3. TypeOK
  <2>1. stderr \in File /\ open \subseteq Scans \cup {Stderr}
    BY DEF Init, File
  <2>2. old \in [Scans -> File] /\ null \in [Scans -> File]
    BY DEF Init, File
  <2>3. MaxEvents \in Nat /\ events = 0
    BY ScannerAssumption DEF Init
  <2>4. events \in 0..MaxEvents
    BY <2>3
  <2> QED
    BY <1>1, <1>2, <2>1, <2>2, <2>4 DEF Init, TypeOK
<1>4. Shape
  BY DEF Init, Shape, Swapped, Idle
<1> QED
  BY <1>3, <1>4 DEF TInv

\* What is closed is closed for everybody.
LEMMA AfterIsFile ==
    ASSUME NEW x, NEW y \in File
    PROVE  After(x, y) \in File
  BY DEF After, File

\* A step of one scan that leaves the disk and the files alone.
LEMMA WalkType ==
    ASSUME TInv, NEW s \in Scans, UNCHANGED Walk,
           NEW new \in ScanState, scan' = [scan EXCEPT ![s] = new],
           new.todo # {} => new.root \in Nodes,
           new.pc \in {"silence", "options", "reload", "load"} => new.file \in YAML
    PROVE  TInv'
<1>1. TypeOK'
  BY DEF TInv, TypeOK, Walk, files
<1>2. Shape'
  BY DEF TInv, TypeOK, Shape, Swapped
<1> QED
  BY <1>1, <1>2 DEF TInv

LEMMA BeginType ==
    ASSUME TInv, NEW s \in Scans, Begin(s)
    PROVE  TInv'
<1> DEFINE new == [Idle EXCEPT !.pc = "walk", !.roots = config["paths"], !.been = Composes]
<1>1. config["paths"] \in SUBSET Nodes /\ Composes \in SUBSET Files
  BY ScannerAssumption DEF Begin, TInv, TypeOK, Composes
<1>2. new \in ScanState /\ new.todo = {} /\ new.pc = "walk"
  BY <1>1, IdleIsScanState DEF ScanState, Idle
<1>3. scan' = [scan EXCEPT ![s] = new] /\ UNCHANGED Walk
  BY DEF Begin
<1> HIDE DEF new
<1> QED
  BY <1>2, <1>3, WalkType

\* Three actions, field by field.
LEMMA EnterRootForm ==
    ASSUME TInv, NEW s \in Scans, EnterRoot(s)
    PROVE  \E r \in scan[s].roots, new \in ScanState :
             /\ scan' = [scan EXCEPT ![s] = new] /\ scan[s].pc = "walk" /\ new.pc = "walk"
             /\ new.roots = scan[s].roots \ {r} /\ new.root = r /\ r \in Nodes
             /\ new.todo = IF Exists(r) THEN {r} ELSE {}
             /\ scan[s].todo = {} /\ new.listed = scan[s].listed /\ new.found = scan[s].found
             /\ new.visited = scan[s].visited /\ new.touched = scan[s].touched
             /\ new.been = scan[s].been /\ new.cancelled = scan[s].cancelled
<1>1. PICK r \in scan[s].roots :
        scan' = [scan EXCEPT ![s].roots = @ \ {r}, ![s].root = r,
                             ![s].todo = IF Exists(r) THEN {r} ELSE {}]
  BY DEF EnterRoot
<1> DEFINE todo == IF Exists(r) THEN {r} ELSE {}
           new == [scan[s] EXCEPT !.roots = @ \ {r}, !.root = r, !.todo = todo]
<1>2. scan[s] \in ScanState /\ scan[s].pc = "walk" /\ scan[s].todo = {}
  BY DEF TInv, TypeOK, EnterRoot
<1>3. r \in Nodes /\ todo \in SUBSET Nodes
  BY <1>2 DEF ScanState
<1>4. scan' = [scan EXCEPT ![s] = new]
  BY <1>1
<1> HIDE DEF todo
<1>5. /\ new \in ScanState /\ new.pc = "walk" /\ new.root = r /\ new.todo = todo
      /\ new.roots = scan[s].roots \ {r}
      /\ new.listed = scan[s].listed /\ new.found = scan[s].found
      /\ new.visited = scan[s].visited /\ new.touched = scan[s].touched
      /\ new.been = scan[s].been /\ new.cancelled = scan[s].cancelled
  BY <1>2, <1>3 DEF ScanState
<1> HIDE DEF new
<1> QED
  BY <1>2, <1>3, <1>4, <1>5 DEF todo

LEMMA VisitForm ==
    ASSUME TInv, NEW s \in Scans, Visit(s)
    PROVE  \E n \in scan[s].todo, new \in ScanState :
             /\ scan' = [scan EXCEPT ![s] = new] /\ scan[s].pc = "walk" /\ new.pc = "walk"
             /\ n \in Nodes /\ new.root = scan[s].root /\ new.root \in Nodes
             /\ new.visited = scan[s].visited \cup {n}
             /\ new.todo = IF n \in Dirs THEN Enter(s, n) ELSE scan[s].todo \ {n}
             /\ new.listed = IF n \in YAML THEN scan[s].listed \cup {<<scan[s].root, n>>}
                             ELSE scan[s].listed
             /\ new.roots = scan[s].roots /\ new.found = scan[s].found
             /\ new.touched = scan[s].touched
             /\ new.been = scan[s].been /\ new.cancelled = scan[s].cancelled
<1>1. PICK n \in scan[s].todo :
        scan' = [scan EXCEPT
            ![s].visited = @ \cup {n},
            ![s].todo = IF n \in Dirs THEN Enter(s, n) ELSE @ \ {n},
            ![s].listed = IF n \in YAML THEN @ \cup {<<scan[s].root, n>>} ELSE @]
  BY DEF Visit
<1> DEFINE todo == IF n \in Dirs THEN Enter(s, n) ELSE scan[s].todo \ {n}
           listed == IF n \in YAML THEN scan[s].listed \cup {<<scan[s].root, n>>}
                     ELSE scan[s].listed
           new == [scan[s] EXCEPT !.visited = @ \cup {n}, !.todo = todo, !.listed = listed]
<1>2. scan[s] \in ScanState /\ scan[s].pc = "walk"
  BY DEF TInv, TypeOK, Visit
<1>3. n \in Nodes /\ scan[s].root \in Nodes
  BY <1>2 DEF TInv, Shape, ScanState
<1>4. todo \in SUBSET Nodes
  BY <1>2 DEF Enter, ScanState
<1>5. listed \in SUBSET (Nodes \X YAML)
  BY <1>2, <1>3 DEF ScanState
<1>6. scan' = [scan EXCEPT ![s] = new]
  BY <1>1
<1> HIDE DEF todo, listed
<1>7. /\ new \in ScanState /\ new.pc = "walk" /\ new.root = scan[s].root
      /\ new.visited = scan[s].visited \cup {n} /\ new.todo = todo /\ new.listed = listed
      /\ new.roots = scan[s].roots /\ new.found = scan[s].found
      /\ new.touched = scan[s].touched
      /\ new.been = scan[s].been /\ new.cancelled = scan[s].cancelled
  BY <1>2, <1>3, <1>4, <1>5 DEF ScanState
<1> HIDE DEF new
<1> QED
  BY <1>2, <1>3, <1>6, <1>7 DEF todo, listed

LEMMA ParseSkipsForm ==
    ASSUME TInv, NEW s \in Scans, ParseSkips(s)
    PROVE  \E entry \in scan[s].listed, new \in ScanState :
             LET hit == entry[2] \in kept /\ entry[2] \in Composes IN
             /\ scan' = [scan EXCEPT ![s] = new] /\ scan[s].pc = "parse" /\ new.pc = "parse"
             /\ hit \/ disk.file[entry[2]] \in {"absent", "broken"}
             /\ new.listed = scan[s].listed \ {entry}
             /\ new.found = IF hit THEN scan[s].found \cup {entry[2]} ELSE scan[s].found
             /\ new.roots = scan[s].roots /\ new.todo = scan[s].todo /\ new.root = scan[s].root
             /\ new.visited = scan[s].visited /\ new.touched = scan[s].touched
             /\ new.been = scan[s].been /\ new.cancelled = scan[s].cancelled
<1>1. PICK entry \in scan[s].listed :
        LET hit == entry[2] \in kept /\ entry[2] \in Composes IN
        /\ hit \/ disk.file[entry[2]] \in {"absent", "broken"}
        /\ scan' = [scan EXCEPT ![s].listed = @ \ {entry},
                                ![s].found = IF hit THEN @ \cup {entry[2]} ELSE @]
  BY DEF ParseSkips
<1> DEFINE found == IF entry[2] \in kept /\ entry[2] \in Composes
                    THEN scan[s].found \cup {entry[2]} ELSE scan[s].found
           new == [scan[s] EXCEPT !.listed = @ \ {entry}, !.found = found]
<1>2. scan[s] \in ScanState /\ scan[s].pc = "parse"
  BY DEF TInv, TypeOK, ParseSkips
<1>3. found \in SUBSET YAML
  BY <1>2 DEF ScanState
<1>4. scan' = [scan EXCEPT ![s] = new]
  BY <1>1
<1> HIDE DEF found
<1>5. /\ new \in ScanState /\ new.pc = "parse" /\ new.found = found
      /\ new.listed = scan[s].listed \ {entry}
      /\ new.roots = scan[s].roots /\ new.todo = scan[s].todo /\ new.root = scan[s].root
      /\ new.visited = scan[s].visited /\ new.touched = scan[s].touched
      /\ new.been = scan[s].been /\ new.cancelled = scan[s].cancelled
  BY <1>2, <1>3 DEF ScanState
<1> HIDE DEF new
<1> QED
  BY <1>1, <1>2, <1>4, <1>5 DEF found

LEMMA EnterRootType ==
    ASSUME TInv, NEW s \in Scans, EnterRoot(s)
    PROVE  TInv'
<1>1. PICK new \in ScanState :
        scan' = [scan EXCEPT ![s] = new] /\ new.pc = "walk" /\ new.root \in Nodes
  BY EnterRootForm
<1> QED
  BY <1>1, WalkType DEF EnterRoot

LEMMA VisitType ==
    ASSUME TInv, NEW s \in Scans, Visit(s)
    PROVE  TInv'
<1>1. PICK new \in ScanState :
        scan' = [scan EXCEPT ![s] = new] /\ new.pc = "walk" /\ new.root \in Nodes
  BY VisitForm
<1> QED
  BY <1>1, WalkType DEF Visit

LEMMA ParseType ==
    ASSUME TInv, NEW s \in Scans,
           VisitCancelled(s) \/ WalkDone(s) \/ ParseSkips(s) \/ ScanDone(s) \/ Return(s)
    PROVE  TInv'
<1>1. scan[s] \in ScanState
  BY DEF TInv, TypeOK
<1>2. CASE VisitCancelled(s)
  <2> DEFINE new == [scan[s] EXCEPT !.todo = {}]
  <2>1. new \in ScanState /\ new.todo = {} /\ new.pc = "walk"
    BY <1>1, <1>2 DEF ScanState, VisitCancelled
  <2> QED
    BY <1>2, <2>1, WalkType DEF VisitCancelled
<1>3. CASE WalkDone(s)
  <2> DEFINE new == [scan[s] EXCEPT !.pc = "parse"]
  <2>1. new \in ScanState /\ new.todo = {} /\ new.pc = "parse"
    BY <1>1, <1>3 DEF ScanState, WalkDone
  <2> QED
    BY <1>3, <2>1, WalkType DEF WalkDone
<1>4. CASE ScanDone(s)
  <2> DEFINE new == [scan[s] EXCEPT !.pc = "done"]
  <2>1. new \in ScanState /\ new.todo = scan[s].todo /\ new.pc = "done" /\ new.root = scan[s].root
    BY <1>1, <1>4 DEF ScanState, ScanDone
  <2> QED
    BY <1>4, <2>1, WalkType DEF ScanDone, TInv, Shape
<1>5. CASE Return(s)
  BY <1>5, IdleIsScanState, WalkType DEF Return, Idle
<1>6. CASE ParseSkips(s)
  <2>1. PICK new \in ScanState :
          /\ scan' = [scan EXCEPT ![s] = new] /\ new.pc = "parse"
          /\ new.todo = scan[s].todo /\ new.root = scan[s].root
    BY <1>6, ParseSkipsForm
  <2> QED
    BY <1>6, <2>1, WalkType DEF ParseSkips, TInv, Shape
<1> QED
  BY <1>2, <1>3, <1>4, <1>5, <1>6

\* A step of one scan that swaps os.Stderr.
LEMMA SwapType ==
    ASSUME TInv, NEW s \in Scans, UNCHANGED <<source, config, disk, events>>,
           NEW new \in ScanState, scan' = [scan EXCEPT ![s] = new],
           new.todo # {} => new.root \in Nodes,
           new.pc \in {"silence", "options", "reload", "load"} => new.file \in YAML,
           kept' \subseteq Files, stderr' \in File, open' \subseteq Scans \cup {Stderr},
           old' \in [Scans -> File], null' \in [Scans -> File], raced' \in BOOLEAN
    PROVE  TInv'
<1>1. TypeOK'
  BY DEF TInv, TypeOK
<1>2. Shape'
  BY DEF TInv, TypeOK, Shape, Swapped
<1> QED
  BY <1>1, <1>2 DEF TInv

LEMMA OpenNullType ==
    ASSUME TInv, NEW s \in Scans, OpenNull(s)
    PROVE  null' \in [Scans -> File] /\ open' \subseteq Scans \cup {Stderr}
           /\ null'[s] \in {s, Nil}
  BY DEF OpenNull, TInv, TypeOK, File

LEMMA RestoreType ==
    ASSUME TInv, NEW s \in Scans, NEW saved \in File, Restore(s, saved)
    PROVE  /\ stderr' \in File /\ open' \subseteq Scans \cup {Stderr}
           /\ old' \in [Scans -> File]
<1>1. \A t \in Scans : After(null[s], old[t]) \in File
  BY AfterIsFile DEF TInv, TypeOK
<1>2. old' \in [Scans -> File]
  BY <1>1 DEF Restore
<1> QED
  BY <1>2 DEF Restore, TInv, TypeOK

LEMMA SilencesType ==
    ASSUME TInv, NEW s \in Scans,
           ParseBegins(s) \/ Silence(s) \/ Options(s) \/ SilenceAgain(s) \/ LoadProject(s)
    PROVE  TInv'
<1>1. scan[s] \in ScanState /\ (scan[s].todo # {} => scan[s].root \in Nodes)
  BY DEF TInv, TypeOK, Shape
<1>t. /\ kept \subseteq Files /\ stderr \in File /\ open \subseteq Scans \cup {Stderr}
      /\ old \in [Scans -> File] /\ null \in [Scans -> File] /\ raced \in BOOLEAN
      /\ Nil \in File /\ s \in File
  BY DEF TInv, TypeOK, File
<1>2. CASE ParseBegins(s)
  <2>1. PICK entry \in scan[s].listed :
          scan' = [scan EXCEPT ![s].listed = @ \ {entry}, ![s].file = entry[2],
                               ![s].pc = "silence"]
    BY <1>2 DEF ParseBegins
  <2> DEFINE new == [scan[s] EXCEPT !.listed = @ \ {entry}, !.file = entry[2], !.pc = "silence"]
  <2>2. /\ new \in ScanState /\ new.file \in YAML
        /\ new.todo = scan[s].todo /\ new.root = scan[s].root
    BY <1>1 DEF ScanState
  <2>3. scan' = [scan EXCEPT ![s] = new]
    BY <2>1
  <2>4. old' \in [Scans -> File] /\ raced' \in BOOLEAN
    BY <1>2, <1>t DEF ParseBegins
  <2> HIDE DEF new
  <2> QED
    BY <1>1, <1>2, <1>t, <2>2, <2>3, <2>4, SwapType DEF ParseBegins
<1>3. CASE Silence(s)
  <2> DEFINE new == [scan[s] EXCEPT !.pc = "options"]
  <2>1. /\ new \in ScanState /\ new.file \in YAML
        /\ new.todo = scan[s].todo /\ new.root = scan[s].root
    BY <1>1, <1>3 DEF ScanState, Silence, TInv, Shape, Swapped
  <2>2. stderr' \in File
    BY <1>3, <1>t DEF Silence
  <2> HIDE DEF new
  <2>3. scan' = [scan EXCEPT ![s] = new]
    BY <1>3 DEF Silence, new
  <2> QED
    BY <1>1, <1>3, <1>t, <2>1, <2>2, <2>3, OpenNullType, SwapType DEF Silence
<1>4. CASE Options(s)
  <2>1. ASSUME NEW x \in File, null' = [null EXCEPT ![s] = x] PROVE null' \in [Scans -> File]
    BY <1>t, <2>1
  <2>2. CASE /\ Restore(s, old[s])
             /\ null' = [null EXCEPT ![s] = After(@, @)]
             /\ scan' = [scan EXCEPT ![s].pc = "reload"]
    <3> DEFINE new == [scan[s] EXCEPT !.pc = "reload"]
    <3>1. /\ new \in ScanState /\ new.file \in YAML
          /\ new.todo = scan[s].todo /\ new.root = scan[s].root
      BY <1>1, <1>4 DEF ScanState, Options, TInv, Shape, Swapped
    <3>2. scan' = [scan EXCEPT ![s] = new]
      BY <2>2
    <3>3. old[s] \in File /\ After(null[s], null[s]) \in File
      BY <1>t, AfterIsFile
    <3>4. null' \in [Scans -> File]
      BY <2>1, <2>2, <3>3
    <3> HIDE DEF new
    <3> QED
      BY <1>1, <1>4, <1>t, <2>2, <3>1, <3>2, <3>3, <3>4, RestoreType, SwapType DEF Options
  <2>3. CASE /\ Restore(s, Nil)
             /\ null' = [null EXCEPT ![s] = Nil]
             /\ scan' = [scan EXCEPT ![s].pc = "parse", ![s].file = Nil]
    <3> DEFINE new == [scan[s] EXCEPT !.pc = "parse", !.file = Nil]
    <3>1. /\ new \in ScanState /\ new.pc = "parse"
          /\ new.todo = scan[s].todo /\ new.root = scan[s].root
      BY <1>1 DEF ScanState
    <3>2. scan' = [scan EXCEPT ![s] = new]
      BY <2>3
    <3>3. null' \in [Scans -> File]
      BY <1>t, <2>1, <2>3
    <3> HIDE DEF new
    <3> QED
      BY <1>1, <1>4, <1>t, <2>3, <3>1, <3>2, <3>3, RestoreType, SwapType DEF Options
  <2> QED
    BY <1>4, <2>2, <2>3 DEF Options
<1>5. CASE SilenceAgain(s)
  <2> DEFINE new == [scan[s] EXCEPT !.pc = "load"]
  <2>1. /\ new \in ScanState /\ new.file \in YAML
        /\ new.todo = scan[s].todo /\ new.root = scan[s].root
    BY <1>1, <1>5 DEF ScanState, SilenceAgain, TInv, Shape, Swapped
  <2>2. scan' = [scan EXCEPT ![s] = new]
    BY <1>5 DEF SilenceAgain
  <2>3. null' \in [Scans -> File] /\ open' \subseteq Scans \cup {Stderr}
    BY <1>5, <1>t, OpenNullType DEF SilenceAgain
  <2>4. stderr' \in File
    BY <1>5, <1>t DEF SilenceAgain
  <2> HIDE DEF new
  <2> QED
    BY <1>1, <1>5, <1>t, <2>1, <2>2, <2>3, <2>4, SwapType DEF SilenceAgain
<1>6. CASE LoadProject(s)
  <2>1. PICK is \in BOOLEAN :
          /\ is => scan[s].file \in Composes
          /\ kept' = IF is THEN kept \cup {scan[s].file} ELSE kept
          /\ scan' = [scan EXCEPT ![s].pc = "parse", ![s].file = Nil,
                          ![s].found = IF is THEN @ \cup {scan[s].file} ELSE @]
    BY <1>6 DEF LoadProject
  <2>2. scan[s].file \in YAML /\ YAML \subseteq Files
    BY <1>6, ScannerAssumption DEF LoadProject, TInv, Shape, Swapped
  <2> DEFINE found == IF is THEN scan[s].found \cup {scan[s].file} ELSE scan[s].found
             new == [scan[s] EXCEPT !.pc = "parse", !.file = Nil, !.found = found]
  <2>3. found \in SUBSET YAML
    BY <1>1, <2>2 DEF ScanState
  <2>4. scan' = [scan EXCEPT ![s] = new]
    BY <2>1
  <2> HIDE DEF found
  <2>5. /\ new \in ScanState /\ new.pc = "parse"
        /\ new.todo = scan[s].todo /\ new.root = scan[s].root
    BY <1>1, <2>3 DEF ScanState
  <2> HIDE DEF new
  <2>6. kept' \subseteq Files /\ null' \in [Scans -> File]
    BY <1>6, <1>t, <2>1, <2>2 DEF LoadProject
  <2> QED
    BY <1>1, <1>6, <1>t, <2>4, <2>5, <2>6, RestoreType, SwapType DEF LoadProject
<1> QED
  BY <1>2, <1>3, <1>4, <1>5, <1>6

\* What happens around the scans.
LEMMA AroundType ==
    ASSUME TInv,
           \/ Configure
           \/ \E f \in Files, kind \in Kinds : FileChanges(f, kind)
           \/ \E d \in Dirs : DirVanishes(d)
           \/ \E s \in Scans : Cancel(s)
    PROVE  TInv'
<1>1. ASSUME NEW n \in Nodes, NEW composes \in SUBSET Files, Observe(n, composes)
      PROVE  scan' \in [Scans -> ScanState] /\ Shape'
  <2> DEFINE new(s) == IF scan[s].pc = "idle" THEN Idle
        ELSE [scan[s] EXCEPT !.touched = @ \cup {n}, !.been = @ \cup composes]
  <2>1. ASSUME NEW s \in Scans
        PROVE  /\ new(s) \in ScanState
               /\ new(s).pc = scan[s].pc
               /\ new(s).todo # {} => new(s).todo = scan[s].todo /\ new(s).root = scan[s].root
               /\ new(s).pc # "idle" => new(s).file = scan[s].file
    <3>1. scan[s] \in ScanState
      BY DEF TInv, TypeOK
    <3>2. CASE scan[s].pc = "idle"
      BY <3>2, IdleIsScanState DEF Idle
    <3>3. CASE scan[s].pc # "idle"
      <4>1. new(s) = [scan[s] EXCEPT !.touched = @ \cup {n}, !.been = @ \cup composes]
        BY <3>3
      <4>2. scan[s].touched \cup {n} \in SUBSET Nodes /\ scan[s].been \cup composes \in SUBSET Files
        BY <3>1 DEF ScanState
      <4> HIDE DEF new
      <4>3. new(s) \in ScanState
        BY <3>1, <4>1, <4>2 DEF ScanState
      <4> QED
        BY <3>1, <4>1, <4>3 DEF ScanState
    <3> QED
      BY <3>2, <3>3
  <2>2. scan' = [s \in Scans |-> new(s)]
    BY <1>1 DEF Observe
  <2> HIDE DEF new
  <2>3. Shape'
    BY <2>1, <2>2 DEF TInv, Shape, Swapped
  <2> QED
    BY <2>1, <2>2, <2>3
<1>2. CASE Configure
  BY <1>2 DEF Configure, TInv, TypeOK, Shape, Swapped, files
<1>3. ASSUME NEW f \in Files, NEW kind \in Kinds, FileChanges(f, kind) PROVE TInv'
  <2>1. (IF kind = "compose" THEN {f} ELSE {}) \in SUBSET Files /\ f \in Nodes
    BY DEF Nodes
  <2>2. scan' \in [Scans -> ScanState] /\ Shape'
    BY <1>1, <1>3, <2>1 DEF FileChanges
  <2>3. events' \in 0..MaxEvents
    BY <1>3, ScannerAssumption DEF FileChanges, Occurs, TInv, TypeOK
  <2>4. disk' \in [dirs : SUBSET Dirs, file : [Files -> Kinds]]
    BY <1>3 DEF FileChanges, TInv, TypeOK
  <2> QED
    BY <1>3, <2>2, <2>3, <2>4 DEF FileChanges, TInv, TypeOK, files
<1>4. ASSUME NEW d \in Dirs, DirVanishes(d) PROVE TInv'
  <2>1. scan' \in [Scans -> ScanState] /\ Shape'
    BY <1>1, <1>4 DEF DirVanishes, Nodes
  <2>2. events' \in 0..MaxEvents
    BY <1>4, ScannerAssumption DEF DirVanishes, Occurs, TInv, TypeOK
  <2>3. disk' \in [dirs : SUBSET Dirs, file : [Files -> Kinds]]
    BY <1>4 DEF DirVanishes, TInv, TypeOK
  <2> QED
    BY <1>4, <2>1, <2>2, <2>3 DEF DirVanishes, TInv, TypeOK, files
<1>5. ASSUME NEW s \in Scans, Cancel(s) PROVE TInv'
  <2> DEFINE new == [scan[s] EXCEPT !.cancelled = TRUE]
  <2>1. scan[s] \in ScanState
    BY DEF TInv, TypeOK
  <2>2. /\ new \in ScanState /\ new.pc = scan[s].pc /\ new.todo = scan[s].todo
        /\ new.root = scan[s].root /\ new.file = scan[s].file
    BY <2>1 DEF ScanState
  <2>3. scan' = [scan EXCEPT ![s] = new]
    BY <1>5 DEF Cancel
  <2> HIDE DEF new
  <2>4. events' \in 0..MaxEvents
    BY <1>5, ScannerAssumption DEF Cancel, Occurs, TInv, TypeOK
  <2>5. Shape' /\ scan' \in [Scans -> ScanState]
    BY <2>2, <2>3 DEF TInv, TypeOK, Shape, Swapped
  <2> QED
    BY <1>5, <2>4, <2>5 DEF Cancel, TInv, TypeOK, files
<1> QED
  BY <1>2, <1>3, <1>4, <1>5

LEMMA ScannerTypeStep == TInv /\ [Next]_vars => TInv'
<1>1. TInv /\ UNCHANGED vars => TInv'
  BY DEF TInv, TypeOK, Shape, Swapped, vars, files
<1> QED
  BY <1>1, BeginType, EnterRootType, VisitType, ParseType, SilencesType, AroundType
     DEF Next, Step

\* The variables keep their types: in particular every file a scan lists or
\* reports has the extension of a YAML file.
THEOREM ScannerTypeCorrect == Spec => []TypeOK
<1>1. TInv => TypeOK
  BY DEF TInv
<1> QED
  BY <1>1, ScannerTypeInit, ScannerTypeStep, PTL DEF Spec

-----------------------------------------------------------------------------
(* os.Stderr and /dev/null.                                                  *)

\* A scan's devNull is its own file, while it is open, and otherwise nil or
\* closed; and there is no other file but the original stderr.
Opened ==
    /\ Stderr \in open
    /\ \A s \in Scans :
        IF scan[s].pc \in {"options", "load"} THEN null[s] \in {s, Nil}
        ELSE null[s] \in {Nil, Closed}
    /\ \A t \in open \ {Stderr} : null[t] = t

\* Before two scans have been in a parse at a time, one at most is, and it
\* holds what os.Stderr was.
Alone ==
    ~raced => /\ \A s \in Scans : Swapped(s) => old[s] = Stderr
              /\ \A s, t \in Scans : Swapped(s) /\ Swapped(t) => s = t
              /\ (\A s \in Scans : ~Swapped(s)) => stderr = Stderr

SInv == TInv /\ Opened /\ Alone

SwappedStates == {"silence", "options", "reload", "load"}

\* A step that neither enters nor leaves a parse nor moves on in one.
LEMMA OutsideParse ==
    ASSUME SInv, UNCHANGED <<files, raced>>,
           \A s \in Scans : \/ scan'[s].pc = scan[s].pc
                            \/ scan[s].pc \notin SwappedStates /\ scan'[s].pc \notin SwappedStates
    PROVE  Opened' /\ Alone'
<1>1. Opened'
  BY DEF SInv, Opened, files, SwappedStates
<1>2. \A s \in Scans : Swapped(s)' <=> Swapped(s)
  BY DEF Swapped, SwappedStates
<1>3. Alone'
  BY <1>2 DEF SInv, Alone, files
<1> QED
  BY <1>1, <1>3

LEMMA SwapOpened ==
    ASSUME SInv, NEW s \in Scans,
           ParseBegins(s) \/ Silence(s) \/ Options(s) \/ SilenceAgain(s) \/ LoadProject(s)
    PROVE  Opened'
<1>1. /\ Nil \notin Scans /\ Closed \notin Scans /\ Stderr \notin Scans
      /\ Nil # Stderr /\ Nil # Closed /\ Stderr # Closed
  BY ScannerAssumption
<1>2. \A t \in Scans \ {s} : scan'[t].pc = scan[t].pc
  BY DEF ParseBegins, Silence, Options, SilenceAgain, LoadProject, SInv, TInv, TypeOK
<1>t. null \in [Scans -> File] /\ scan \in [Scans -> ScanState] /\ open \subseteq Scans \cup {Stderr}
  BY DEF SInv, TInv, TypeOK
<1>3. CASE ParseBegins(s)
  <2>1. scan[s].pc = "parse" /\ scan'[s].pc = "silence"
    BY <1>3, <1>t DEF ParseBegins, ScanState
  <2> QED
    BY <1>2, <1>3, <2>1 DEF ParseBegins, SInv, Opened
<1>4. CASE Silence(s) \/ (SilenceAgain(s) /\ null[s] # Nil)
  <2>1. /\ scan[s].pc \in {"silence", "reload"} /\ scan'[s].pc \in {"options", "load"}
        /\ OpenNull(s)
    BY <1>4, <1>t DEF Silence, SilenceAgain, ScanState
  <2>2. null'[s] \in {s, Nil} /\ \A t \in Scans \ {s} : null'[t] = null[t]
    BY <2>1, <1>t DEF OpenNull
  <2>3. s \notin open /\ (open' = open \/ (open' = open \cup {s} /\ null'[s] = s))
    BY <1>1, <1>t, <2>1 DEF OpenNull, SInv, Opened
  <2> QED
    BY <1>1, <1>2, <1>t, <2>1, <2>2, <2>3 DEF SInv, Opened
<1>5. CASE SilenceAgain(s) /\ null[s] = Nil
  <2>1. scan[s].pc = "reload" /\ scan'[s].pc = "load"
    BY <1>5, <1>t DEF SilenceAgain, ScanState
  <2> QED
    BY <1>2, <1>5, <2>1 DEF SilenceAgain, SInv, Opened
<1>6. CASE Options(s) \/ LoadProject(s)
  <2>1. scan[s].pc \in {"options", "load"} /\ scan'[s].pc \in {"reload", "parse"}
    BY <1>6, <1>t DEF Options, LoadProject, ScanState
  <2>2. null[s] \in {s, Nil} /\ open' = open \ {null[s]}
    BY <1>6, <2>1 DEF Options, LoadProject, Restore, SInv, Opened
  <2>3. null'[s] \in {Nil, Closed} /\ \A t \in Scans \ {s} : null'[t] = null[t]
    BY <1>6, <1>t, <2>2 DEF Options, LoadProject, After
  <2>4. s \notin open'
    BY <1>1, <2>2 DEF SInv, Opened
  <2> QED
    BY <1>1, <1>2, <1>t, <2>1, <2>2, <2>3, <2>4 DEF SInv, Opened
<1> QED
  BY <1>3, <1>4, <1>5, <1>6

LEMMA SwapAlone ==
    ASSUME SInv, NEW s \in Scans,
           ParseBegins(s) \/ Silence(s) \/ Options(s) \/ SilenceAgain(s) \/ LoadProject(s)
    PROVE  Alone'
<1> SUFFICES ASSUME ~raced'
             PROVE  /\ \A t \in Scans : Swapped(t)' => old'[t] = Stderr
                    /\ \A t, u \in Scans : Swapped(t)' /\ Swapped(u)' => t = u
                    /\ (\A t \in Scans : ~Swapped(t)') => stderr' = Stderr
  BY DEF Alone
<1>1. ~raced
  BY DEF ParseBegins, Silence, Options, SilenceAgain, LoadProject
<1>t. old \in [Scans -> File] /\ scan \in [Scans -> ScanState]
  BY DEF SInv, TInv, TypeOK
<1>2. \A t \in Scans \ {s} : Swapped(t)' <=> Swapped(t)
  BY <1>t DEF ParseBegins, Silence, Options, SilenceAgain, LoadProject, Swapped
<1>3. CASE ParseBegins(s)
  <2>1. \A t \in Scans \ {s} : ~Swapped(t)
    BY <1>3 DEF ParseBegins
  <2>2. ~Swapped(s) /\ Swapped(s)'
    BY <1>3, <1>t DEF ParseBegins, Swapped, ScanState
  <2>3. stderr = Stderr /\ old'[s] = stderr
    BY <1>1, <1>3, <1>t, <2>1, <2>2 DEF ParseBegins, SInv, Alone
  <2> QED
    BY <1>2, <2>1, <2>2, <2>3
<1>4. CASE Silence(s) \/ SilenceAgain(s)
  <2>1. Swapped(s) /\ Swapped(s)' /\ old' = old
    BY <1>4, <1>t DEF Silence, SilenceAgain, Swapped, ScanState
  <2> QED
    BY <1>1, <1>2, <2>1 DEF SInv, Alone
<1>5. CASE Options(s) \/ LoadProject(s)
  <2>1. Swapped(s) /\ stderr' = old[s] /\ old[s] = Stderr
    BY <1>1, <1>5 DEF Options, LoadProject, Restore, Swapped, SInv, Alone
  <2>2. \A t \in Scans \ {s} : ~Swapped(t)'
    BY <1>1, <1>2, <2>1 DEF SInv, Alone
  <2>3. Swapped(s)' => old'[s] = Stderr
    BY <1>5, <1>t, <2>1 DEF Options, LoadProject, Restore, Swapped, ScanState
  <2> QED
    BY <2>1, <2>2, <2>3
<1> QED
  BY <1>3, <1>4, <1>5

\* Steps within the walk, and from file to file.
LEMMA SamePC ==
    ASSUME TInv, NEW u \in Scans, EnterRoot(u) \/ Visit(u) \/ ParseSkips(u), NEW s \in Scans
    PROVE  scan'[s].pc = scan[s].pc
<1>1. PICK new \in ScanState : /\ scan' = [scan EXCEPT ![u] = new]
                               /\ \/ scan[u].pc = "walk" /\ new.pc = "walk"
                                  \/ scan[u].pc = "parse" /\ new.pc = "parse"
  <2>1. CASE EnterRoot(u)
    BY <2>1, EnterRootForm
  <2>2. CASE Visit(u)
    BY <2>2, VisitForm
  <2>3. CASE ParseSkips(u)
    BY <2>3, ParseSkipsForm
  <2> QED
    BY <2>1, <2>2, <2>3
<1> QED
  BY <1>1 DEF TInv, TypeOK

\* The steps that leave every parse as it is.
LEMMA OtherSteps ==
    ASSUME SInv,
           \/ UNCHANGED vars \/ Configure
           \/ \E f \in Files, kind \in Kinds : FileChanges(f, kind)
           \/ \E d \in Dirs : DirVanishes(d)
           \/ \E s \in Scans :
                \/ Begin(s) \/ EnterRoot(s) \/ Visit(s) \/ VisitCancelled(s) \/ WalkDone(s)
                \/ ParseSkips(s) \/ ScanDone(s) \/ Return(s) \/ Cancel(s)
    PROVE  Opened' /\ Alone'
<1>t. scan \in [Scans -> ScanState]
  BY DEF SInv, TInv, TypeOK
<1>1. UNCHANGED <<files, raced>>
  BY DEF vars, Configure, FileChanges, DirVanishes, Begin, EnterRoot, Visit, VisitCancelled,
         WalkDone, ParseSkips, ScanDone, Return, Cancel, Walk
<1>2. ASSUME NEW n, NEW composes, Observe(n, composes), NEW s \in Scans
      PROVE  scan'[s].pc = scan[s].pc
  BY <1>2, <1>t DEF Observe, ScanState, Idle
<1>3. ASSUME NEW s \in Scans
      PROVE  \/ scan'[s].pc = scan[s].pc
             \/ scan[s].pc \notin SwappedStates /\ scan'[s].pc \notin SwappedStates
  <2>1. ASSUME NEW f \in Files, NEW kind \in Kinds, FileChanges(f, kind)
        PROVE  scan'[s].pc = scan[s].pc
    BY <1>2, <2>1 DEF FileChanges
  <2>2. ASSUME NEW d \in Dirs, DirVanishes(d)
        PROVE  scan'[s].pc = scan[s].pc
    BY <1>2, <2>2 DEF DirVanishes
  <2>3. ASSUME NEW u \in Scans,
               \/ EnterRoot(u) \/ Visit(u) \/ VisitCancelled(u) \/ ParseSkips(u) \/ Cancel(u)
        PROVE  scan'[s].pc = scan[s].pc
    <3>1. CASE VisitCancelled(u) \/ Cancel(u)
      BY <1>t, <3>1 DEF VisitCancelled, Cancel, ScanState
    <3>2. CASE EnterRoot(u) \/ Visit(u) \/ ParseSkips(u)
      BY <3>2, SamePC DEF SInv
    <3> QED
      BY <2>3, <3>1, <3>2
  <2>4. ASSUME NEW u \in Scans, Begin(u) \/ WalkDone(u) \/ ScanDone(u) \/ Return(u)
        PROVE  \/ scan'[s].pc = scan[s].pc
               \/ scan[s].pc \notin SwappedStates /\ scan'[s].pc \notin SwappedStates
    <3>1. s # u => scan'[s].pc = scan[s].pc
      BY <1>t, <2>4 DEF Begin, WalkDone, ScanDone, Return
    <3>2. scan[u].pc \notin SwappedStates
      BY <2>4 DEF Begin, WalkDone, ScanDone, Return, SwappedStates
    <3>3. scan'[u].pc \notin SwappedStates
      <4>1. CASE Begin(u)
        <5>1. PICK roots, been :
                scan' = [scan EXCEPT ![u] =
                    [Idle EXCEPT !.pc = "walk", !.roots = roots, !.been = been]]
          BY <4>1 DEF Begin
        <5> QED
          BY <1>t, <5>1 DEF Idle, SwappedStates
      <4>3. CASE Return(u)
        BY <1>t, <4>3 DEF Return, Idle, SwappedStates
      <4>2. CASE WalkDone(u) \/ ScanDone(u)
        BY <1>t, <4>2 DEF WalkDone, ScanDone, SwappedStates, ScanState
      <4> QED
        BY <2>4, <4>1, <4>2, <4>3
    <3> QED
      BY <3>1, <3>2, <3>3
  <2> QED
    BY <2>1, <2>2, <2>3, <2>4 DEF vars, Configure
<1> QED
  BY <1>1, <1>3, OutsideParse

LEMMA ScannerFilesInit == Init => SInv
<1>1. Init => Opened /\ Alone
  BY DEF Init, Opened, Alone, Idle, Swapped
<1> QED
  BY <1>1, ScannerTypeInit DEF SInv

LEMMA ScannerFilesStep == SInv /\ [Next]_vars => SInv'
<1>1. SInv /\ [Next]_vars => TInv'
  BY ScannerTypeStep DEF SInv
<1>2. SInv /\ [Next]_vars => Opened' /\ Alone'
  BY SwapOpened, SwapAlone, OtherSteps DEF Next, Step
<1> QED
  BY <1>1, <1>2 DEF SInv

\* However many scans parse at a time and whichever openings fail, no file
\* that was opened on /dev/null stays open when no parse is under way.
THEOREM ScannerNullIsClosed == Spec => []NullIsClosed
<1>1. SInv => NullIsClosed
  <2> SUFFICES ASSUME SInv, \A s \in Scans : ~Swapped(s), NEW t \in open, t # Stderr
               PROVE  FALSE
    BY DEF NullIsClosed
  <2>1. t \in Scans /\ null[t] = t
    BY DEF SInv, TInv, TypeOK, Opened
  <2>2. null[t] \in {Nil, Closed}
    BY <2>1 DEF Swapped, SInv, Opened
  <2> QED
    BY <2>1, <2>2, ScannerAssumption
<1> QED
  BY <1>1, ScannerFilesInit, ScannerFilesStep, PTL DEF Spec

\* Nobody closes the process's own stderr, whichever file os.Stderr is.
THEOREM ScannerStderrStaysOpen == Spec => []StderrStaysOpen
<1>1. SInv => StderrStaysOpen
  BY DEF SInv, Opened, StderrStaysOpen
<1> QED
  BY <1>1, ScannerFilesInit, ScannerFilesStep, PTL DEF Spec

\* os.Stderr is put back by every parse that no other one overlapped.
THEOREM ScannerAloneRestores == Spec => []AloneRestores
<1>1. SInv => AloneRestores
  BY DEF SInv, Alone, AloneRestores
<1> QED
  BY <1>1, ScannerFilesInit, ScannerFilesStep, PTL DEF Spec

-----------------------------------------------------------------------------
(* What scans find.                                                          *)

\* q is the state of a scan.  What is there and was not touched is visited or
\* will be, and what was visited is listed, being parsed or found.
Steady(q) == {n \in Nodes : Exists(n) /\ n \notin q.touched}

Covers(q) ==
    /\ \A n \in Steady(q) : n \in Paths => n \in q.roots \cup q.todo \cup q.visited
    /\ \A n \in Steady(q) :
          Parent[n] \in q.visited \cap Dirs /\ ~Barred(Parent[n]) => n \in q.todo \cup q.visited
    /\ \A f \in YAML \cap q.visited :
          f \in Composes \ q.touched =>
            \/ \E r \in Nodes : <<r, f>> \in q.listed
            \/ q.pc \in SwappedStates /\ q.file = f
            \/ f \in q.found

Progress(q) ==
    q.pc # "idle" =>
        /\ config # Unset
        /\ ~q.cancelled => Covers(q)
        /\ q.pc # "walk" => q.roots = {} /\ q.todo = {}
        /\ q.pc = "done" /\ ~q.cancelled => q.listed = {}

WInv == TInv /\ \A s \in Scans : Progress(scan[s])

\* A step of one scan only has to be looked at for that scan.
LEMMA OneScan ==
    ASSUME WInv, UNCHANGED <<config, disk>>, NEW s \in Scans, NEW new,
           scan' = [scan EXCEPT ![s] = new], Progress(new)
    PROVE  \A t \in Scans : Progress(scan[t])'
<1>1. \A q : Progress(q) <=> Progress(q)'
  BY DEF Progress, Covers, Steady, Composes, Exists, Paths, Barred
<1> QED
  BY <1>1 DEF WInv, TInv, TypeOK

LEMMA ExcludedIsBarred ==
    ASSUME NEW d \in Dirs
    PROVE  ExcludedDir(d) <=> Barred(d)
  BY DEF ExcludedDir, Exclude, Barred

LEMMA BeginCovers ==
    ASSUME WInv, NEW s \in Scans, Begin(s)
    PROVE  \A t \in Scans : Progress(scan[t])'
<1> DEFINE new == [Idle EXCEPT !.pc = "walk", !.roots = config["paths"], !.been = Composes]
<1>1. /\ new.pc = "walk" /\ new.roots = Paths /\ new.visited = {} /\ config # Unset
  BY DEF Begin, Idle, Paths
<1>2. scan' = [scan EXCEPT ![s] = new] /\ UNCHANGED <<config, disk>>
  BY DEF Begin, Walk
<1> HIDE DEF new
<1>3. Progress(new)
  BY <1>1 DEF Progress, Covers, SwappedStates
<1> QED
  BY <1>2, <1>3, OneScan

LEMMA EnterRootCovers ==
    ASSUME WInv, NEW s \in Scans, EnterRoot(s)
    PROVE  \A t \in Scans : Progress(scan[t])'
<1>1. PICK r \in scan[s].roots, new \in ScanState :
             /\ scan' = [scan EXCEPT ![s] = new] /\ scan[s].pc = "walk" /\ new.pc = "walk"
             /\ new.roots = scan[s].roots \ {r}
             /\ new.todo = IF Exists(r) THEN {r} ELSE {}
             /\ scan[s].todo = {} /\ new.listed = scan[s].listed /\ new.found = scan[s].found
             /\ new.visited = scan[s].visited /\ new.touched = scan[s].touched
             /\ new.cancelled = scan[s].cancelled
  BY EnterRootForm DEF WInv
<1>2. Progress(scan[s])
  BY DEF WInv
<1>3. Progress(new)
  BY <1>1, <1>2 DEF Progress, Covers, Steady, SwappedStates
<1> QED
  BY <1>1, <1>3, OneScan DEF EnterRoot, Walk

LEMMA VisitCovers ==
    ASSUME WInv, NEW s \in Scans, Visit(s)
    PROVE  \A t \in Scans : Progress(scan[t])'
<1>1. PICK n \in scan[s].todo, new \in ScanState :
             /\ scan' = [scan EXCEPT ![s] = new] /\ scan[s].pc = "walk" /\ new.pc = "walk"
             /\ n \in Nodes /\ new.root = scan[s].root /\ new.root \in Nodes
             /\ new.visited = scan[s].visited \cup {n}
             /\ new.todo = IF n \in Dirs THEN Enter(s, n) ELSE scan[s].todo \ {n}
             /\ new.listed = IF n \in YAML THEN scan[s].listed \cup {<<scan[s].root, n>>}
                             ELSE scan[s].listed
             /\ new.roots = scan[s].roots /\ new.found = scan[s].found
             /\ new.touched = scan[s].touched /\ new.cancelled = scan[s].cancelled
  BY VisitForm DEF WInv
<1>2. Progress(scan[s])
  BY DEF WInv
<1>3. scan[s].todo \ {n} \subseteq new.todo
  BY <1>1 DEF Enter
<1>4. ASSUME NEW m \in Nodes, Exists(m), Parent[m] = n, n \in Dirs, ~Barred(n)
      PROVE  m \in new.todo
  BY <1>1, <1>4, ExcludedIsBarred DEF Enter
<1>5. ~new.cancelled => Covers(new)
  <2> SUFFICES ASSUME ~new.cancelled PROVE Covers(new)
    OBVIOUS
  <2>1. Covers(scan[s])
    BY <1>1, <1>2 DEF Progress
  <2>2. Steady(new) = Steady(scan[s])
    BY <1>1 DEF Steady
  <2>3. \A m \in Steady(new) : m \in Paths => m \in new.roots \cup new.todo \cup new.visited
    BY <1>1, <1>3, <2>1, <2>2 DEF Covers
  <2>4. \A m \in Steady(new) :
          Parent[m] \in new.visited \cap Dirs /\ ~Barred(Parent[m]) => m \in new.todo \cup new.visited
    BY <1>1, <1>3, <1>4, <2>1, <2>2 DEF Covers, Steady
  <2>5. \A f \in YAML \cap new.visited :
          f \in Composes \ new.touched =>
            (\E r \in Nodes : <<r, f>> \in new.listed) \/ f \in new.found
    BY <1>1, <2>1 DEF Covers, SwappedStates
  <2> QED
    BY <2>3, <2>4, <2>5 DEF Covers
<1>6. Progress(new)
  BY <1>1, <1>2, <1>5 DEF Progress
<1> QED
  BY <1>1, <1>6, OneScan DEF Visit, Walk

LEMMA ParseSkipsCovers ==
    ASSUME WInv, NEW s \in Scans, ParseSkips(s)
    PROVE  \A t \in Scans : Progress(scan[t])'
<1>1. PICK entry \in scan[s].listed, new \in ScanState :
             LET hit == entry[2] \in kept /\ entry[2] \in Composes IN
             /\ scan' = [scan EXCEPT ![s] = new] /\ scan[s].pc = "parse" /\ new.pc = "parse"
             /\ hit \/ disk.file[entry[2]] \in {"absent", "broken"}
             /\ new.listed = scan[s].listed \ {entry}
             /\ new.found = IF hit THEN scan[s].found \cup {entry[2]} ELSE scan[s].found
             /\ new.roots = scan[s].roots /\ new.todo = scan[s].todo
             /\ new.visited = scan[s].visited /\ new.touched = scan[s].touched
             /\ new.cancelled = scan[s].cancelled
  BY ParseSkipsForm DEF WInv
<1>2. Progress(scan[s])
  BY DEF WInv
<1>3. ASSUME entry[2] \in Composes PROVE entry[2] \in new.found
  BY <1>1, <1>3 DEF Composes
<1>4. ASSUME NEW r, NEW f, <<r, f>> \in scan[s].listed, f \in Composes
      PROVE  <<r, f>> \in new.listed \/ f \in new.found
  BY <1>1, <1>3, <1>4
<1>5. scan[s].found \subseteq new.found
  BY <1>1
<1>6. ~new.cancelled => Covers(new)
  BY <1>1, <1>2, <1>4, <1>5 DEF Progress, Covers, Steady, SwappedStates
<1>7. Progress(new)
  BY <1>1, <1>2, <1>6 DEF Progress
<1> QED
  BY <1>1, <1>7, OneScan DEF ParseSkips, Walk

LEMMA ControlCovers ==
    ASSUME WInv, NEW s \in Scans,
           VisitCancelled(s) \/ WalkDone(s) \/ ScanDone(s) \/ Return(s)
    PROVE  \A t \in Scans : Progress(scan[t])'
<1>1. scan[s] \in ScanState /\ Progress(scan[s])
  BY DEF WInv, TInv, TypeOK
<1>2. CASE VisitCancelled(s)
  <2> DEFINE new == [scan[s] EXCEPT !.todo = {}]
  <2>1. /\ new.pc = "walk" /\ new.cancelled /\ config # Unset
        /\ scan' = [scan EXCEPT ![s] = new]
    BY <1>1, <1>2 DEF VisitCancelled, ScanState, Progress
  <2> HIDE DEF new
  <2>2. Progress(new)
    BY <2>1 DEF Progress
  <2> QED
    BY <1>2, <2>1, <2>2, OneScan DEF VisitCancelled, Walk
<1>3. CASE WalkDone(s)
  <2> DEFINE new == [scan[s] EXCEPT !.pc = "parse"]
  <2>1. /\ new.pc = "parse" /\ new.cancelled = scan[s].cancelled /\ scan[s].pc = "walk"
        /\ new.roots = {} /\ new.todo = {} /\ scan[s].roots = {} /\ scan[s].todo = {}
        /\ new.visited = scan[s].visited /\ new.touched = scan[s].touched
        /\ new.listed = scan[s].listed /\ new.found = scan[s].found
        /\ scan' = [scan EXCEPT ![s] = new]
    BY <1>1, <1>3 DEF WalkDone, ScanState
  <2> HIDE DEF new
  <2>2. Progress(new)
    BY <1>1, <2>1 DEF Progress, Covers, Steady, SwappedStates
  <2> QED
    BY <1>3, <2>1, <2>2, OneScan DEF WalkDone, Walk
<1>4. CASE ScanDone(s)
  <2> DEFINE new == [scan[s] EXCEPT !.pc = "done"]
  <2>1. /\ new.pc = "done" /\ new.cancelled = scan[s].cancelled /\ scan[s].pc = "parse"
        /\ new.roots = scan[s].roots /\ new.todo = scan[s].todo
        /\ new.visited = scan[s].visited /\ new.touched = scan[s].touched
        /\ new.listed = scan[s].listed /\ new.found = scan[s].found
        /\ scan[s].listed = {} \/ scan[s].cancelled
        /\ scan' = [scan EXCEPT ![s] = new]
    BY <1>1, <1>4 DEF ScanDone, ScanState
  <2> HIDE DEF new
  <2>2. Progress(new)
    BY <1>1, <2>1 DEF Progress, Covers, Steady, SwappedStates
  <2> QED
    BY <1>4, <2>1, <2>2, OneScan DEF ScanDone, Walk
<1>5. CASE Return(s)
  <2>1. Progress(Idle)
    BY DEF Progress, Idle
  <2> QED
    BY <1>5, <2>1, OneScan DEF Return, Walk
<1> QED
  BY <1>2, <1>3, <1>4, <1>5

\* A parse takes a file from the list and gives it back only if it is not a
\* compose file (or if the scan is cancelled).
LEMMA SilencesCover ==
    ASSUME WInv, NEW s \in Scans,
           ParseBegins(s) \/ Silence(s) \/ Options(s) \/ SilenceAgain(s) \/ LoadProject(s)
    PROVE  \A t \in Scans : Progress(scan[t])'
<1>1. scan[s] \in ScanState /\ Progress(scan[s])
  BY DEF WInv, TInv, TypeOK
<1>2. UNCHANGED <<config, disk>>
  BY DEF ParseBegins, Silence, Options, SilenceAgain, LoadProject
<1>3. CASE ParseBegins(s)
  <2>1. PICK entry \in scan[s].listed :
          scan' = [scan EXCEPT ![s].listed = @ \ {entry}, ![s].file = entry[2],
                               ![s].pc = "silence"]
    BY <1>3 DEF ParseBegins
  <2> DEFINE new == [scan[s] EXCEPT !.listed = @ \ {entry}, !.file = entry[2], !.pc = "silence"]
  <2>2. /\ new.pc = "silence" /\ new.file = entry[2]
        /\ new.listed = scan[s].listed \ {entry} /\ new.found = scan[s].found
        /\ new.cancelled = scan[s].cancelled
        /\ new.roots = scan[s].roots /\ new.todo = scan[s].todo
        /\ new.visited = scan[s].visited /\ new.touched = scan[s].touched
    BY <1>1 DEF ScanState
  <2>3. scan' = [scan EXCEPT ![s] = new] /\ scan[s].pc = "parse"
    BY <1>3, <2>1 DEF ParseBegins
  <2> HIDE DEF new
  <2>4. ASSUME NEW r, NEW f, <<r, f>> \in scan[s].listed
        PROVE  <<r, f>> \in new.listed \/ new.file = f
    BY <2>2, <2>4
  <2>5. Progress(new)
    BY <1>1, <2>2, <2>3, <2>4 DEF Progress, Covers, Steady, SwappedStates
  <2> QED
    BY <1>2, <2>3, <2>5, OneScan
<1>4. ASSUME NEW pc \in SwappedStates, scan[s].pc \in SwappedStates,
             scan' = [scan EXCEPT ![s].pc = pc]
      PROVE  \A t \in Scans : Progress(scan[t])'
  <2> DEFINE new == [scan[s] EXCEPT !.pc = pc]
  <2>1. /\ new.pc = pc /\ new.file = scan[s].file
        /\ new.listed = scan[s].listed /\ new.found = scan[s].found
        /\ new.cancelled = scan[s].cancelled
        /\ new.roots = scan[s].roots /\ new.todo = scan[s].todo
        /\ new.visited = scan[s].visited /\ new.touched = scan[s].touched
        /\ scan' = [scan EXCEPT ![s] = new]
    BY <1>1, <1>4 DEF ScanState
  <2> HIDE DEF new
  <2>2. Progress(new)
    BY <1>1, <1>4, <2>1 DEF Progress, Covers, Steady, SwappedStates
  <2> QED
    BY <1>2, <2>1, <2>2, OneScan
<1>5. ASSUME NEW new, scan[s].pc \in SwappedStates,
             scan' = [scan EXCEPT ![s] = new], new.pc = "parse",
             scan[s].found \subseteq new.found,
             scan[s].cancelled \/ scan[s].file \notin Composes \/ scan[s].file \in new.found,
             new.listed = scan[s].listed, new.cancelled = scan[s].cancelled,
             new.roots = scan[s].roots, new.todo = scan[s].todo,
             new.visited = scan[s].visited, new.touched = scan[s].touched
      PROVE  \A t \in Scans : Progress(scan[t])'
  <2>1. ~new.cancelled => Covers(new)
    BY <1>1, <1>5 DEF Progress, Covers, Steady, SwappedStates
  <2>2. Progress(new)
    BY <1>1, <1>5, <2>1 DEF Progress, SwappedStates
  <2> QED
    BY <1>2, <1>5, <2>2, OneScan
<1>6. CASE Silence(s) \/ SilenceAgain(s)
  BY <1>4, <1>6 DEF Silence, SilenceAgain, SwappedStates
<1>7. CASE Options(s)
  <2>1. CASE scan' = [scan EXCEPT ![s].pc = "reload"]
    BY <1>4, <1>7, <2>1 DEF Options, SwappedStates
  <2>2. CASE /\ scan[s].file \notin Composes
             /\ scan' = [scan EXCEPT ![s].pc = "parse", ![s].file = Nil]
    <3> DEFINE new == [scan[s] EXCEPT !.pc = "parse", !.file = Nil]
    <3>1. /\ new.pc = "parse" /\ new.found = scan[s].found
          /\ new.listed = scan[s].listed /\ new.cancelled = scan[s].cancelled
          /\ new.roots = scan[s].roots /\ new.todo = scan[s].todo
          /\ new.visited = scan[s].visited /\ new.touched = scan[s].touched
      BY <1>1 DEF ScanState
    <3>2. scan' = [scan EXCEPT ![s] = new] /\ scan[s].pc \in SwappedStates
      BY <1>7, <2>2 DEF Options, SwappedStates
    <3> HIDE DEF new
    <3> QED
      BY <1>5, <2>2, <3>1, <3>2
  <2> QED
    BY <1>7, <2>1, <2>2 DEF Options
<1>8. CASE LoadProject(s)
  <2>1. PICK loaded \in BOOLEAN :
          /\ ~loaded => scan[s].cancelled
          /\ scan' = [scan EXCEPT ![s].pc = "parse", ![s].file = Nil,
                ![s].found = IF loaded /\ scan[s].file \in Composes
                             THEN @ \cup {scan[s].file} ELSE @]
    BY <1>8 DEF LoadProject
  <2> DEFINE found == IF loaded /\ scan[s].file \in Composes
                      THEN scan[s].found \cup {scan[s].file} ELSE scan[s].found
             new == [scan[s] EXCEPT !.pc = "parse", !.file = Nil, !.found = found]
  <2>2. scan' = [scan EXCEPT ![s] = new] /\ scan[s].pc \in SwappedStates
    BY <1>8, <2>1 DEF LoadProject, SwappedStates
  <2>3. /\ scan[s].found \subseteq found
        /\ scan[s].cancelled \/ scan[s].file \notin Composes \/ scan[s].file \in found
    BY <2>1
  <2> HIDE DEF found
  <2>4. /\ new.pc = "parse" /\ new.found = found
        /\ new.listed = scan[s].listed /\ new.cancelled = scan[s].cancelled
        /\ new.roots = scan[s].roots /\ new.todo = scan[s].todo
        /\ new.visited = scan[s].visited /\ new.touched = scan[s].touched
    BY <1>1 DEF ScanState
  <2> HIDE DEF new
  <2> QED
    BY <1>5, <2>2, <2>3, <2>4
<1> QED
  BY <1>3, <1>6, <1>7, <1>8

\* A change on disk is noted by every scan under way, and nothing else changes.
LEMMA ChangeCovers ==
    ASSUME WInv, NEW n \in Nodes, NEW composes, Observe(n, composes), UNCHANGED config,
           \A m \in Nodes \ {n} : (Exists(m)' <=> Exists(m)) /\ (m \in Composes' <=> m \in Composes)
    PROVE  \A t \in Scans : Progress(scan[t])'
<1> SUFFICES ASSUME NEW t \in Scans PROVE Progress(scan[t])'
  OBVIOUS
<1>1. scan[t] \in ScanState /\ Progress(scan[t])
  BY DEF WInv, TInv, TypeOK
<1>2. CASE scan[t].pc = "idle"
  <2>1. scan'[t] = Idle
    BY <1>2 DEF Observe
  <2> QED
    BY <2>1 DEF Progress, Idle
<1>3. CASE scan[t].pc # "idle"
  <2> DEFINE q == [scan[t] EXCEPT !.touched = @ \cup {n}, !.been = @ \cup composes]
  <2>1. scan'[t] = q
    BY <1>3 DEF Observe
  <2>2. /\ q.touched = scan[t].touched \cup {n} /\ q.pc = scan[t].pc
        /\ q.listed = scan[t].listed /\ q.cancelled = scan[t].cancelled
        /\ q.roots = scan[t].roots /\ q.todo = scan[t].todo /\ q.file = scan[t].file
        /\ q.visited = scan[t].visited /\ q.found = scan[t].found
    BY <1>1 DEF ScanState
  <2> HIDE DEF q
  <2>3. PICK new : new = scan'[t]
    OBVIOUS
  <2>4. Paths' = Paths /\ \A d : Barred(d)' <=> Barred(d)
    BY DEF Paths, Barred
  <2>5. Steady(new)' \subseteq Steady(scan[t])
    BY <2>1, <2>2, <2>3 DEF Steady
  <2>6. YAML \subseteq Nodes
    BY ScannerAssumption DEF Nodes
  <2>7. Covers(scan[t]) => Covers(new)'
    BY <2>1, <2>2, <2>3, <2>4, <2>5, <2>6 DEF Covers
  <2>8. Progress(new)'
    BY <1>1, <1>3, <2>1, <2>2, <2>3, <2>7 DEF Progress
  <2> QED
    BY <2>3, <2>8
<1> QED
  BY <1>2, <1>3

LEMMA AroundCovers ==
    ASSUME WInv,
           \/ UNCHANGED vars \/ Configure
           \/ \E f \in Files, kind \in Kinds : FileChanges(f, kind)
           \/ \E d \in Dirs : DirVanishes(d)
           \/ \E s \in Scans : Cancel(s)
    PROVE  \A t \in Scans : Progress(scan[t])'
<1>1. CASE UNCHANGED vars
  BY <1>1 DEF vars, WInv, Progress, Covers, Steady, Composes, Exists, Paths, Barred
<1>2. CASE Configure
  BY <1>2 DEF Configure, WInv, Progress
<1>3. ASSUME NEW f \in Files, NEW kind \in Kinds, FileChanges(f, kind)
      PROVE  \A t \in Scans : Progress(scan[t])'
  <2>1. disk' = [disk EXCEPT !.file[f] = kind] /\ f \in Nodes
    BY <1>3 DEF FileChanges, Nodes
  <2>2. disk'.dirs = disk.dirs /\ \A g \in Files \ {f} : disk'.file[g] = disk.file[g]
    BY <2>1 DEF WInv, TInv, TypeOK
  <2>3. \A m \in Nodes \ {f} : (Exists(m)' <=> Exists(m)) /\ (m \in Composes' <=> m \in Composes)
    BY <2>2 DEF Exists, Composes, Nodes
  <2> QED
    BY <1>3, <2>1, <2>3, ChangeCovers DEF FileChanges
<1>4. ASSUME NEW d \in Dirs, DirVanishes(d)
      PROVE  \A t \in Scans : Progress(scan[t])'
  <2>1. disk'.dirs = disk.dirs \ {d} /\ disk'.file = disk.file /\ d \in Nodes
    BY <1>4 DEF DirVanishes, WInv, TInv, TypeOK, Nodes
  <2>2. \A m \in Nodes \ {d} : (Exists(m)' <=> Exists(m)) /\ (m \in Composes' <=> m \in Composes)
    BY <2>1 DEF Exists, Composes
  <2> QED
    BY <1>4, <2>1, <2>2, ChangeCovers DEF DirVanishes
<1>5. ASSUME NEW s \in Scans, Cancel(s)
      PROVE  \A t \in Scans : Progress(scan[t])'
  <2> DEFINE new == [scan[s] EXCEPT !.cancelled = TRUE]
  <2>1. scan[s] \in ScanState /\ Progress(scan[s])
    BY DEF WInv, TInv, TypeOK
  <2>2. /\ new.cancelled /\ new.pc = scan[s].pc
        /\ new.roots = scan[s].roots /\ new.todo = scan[s].todo
    BY <2>1 DEF ScanState
  <2>3. scan' = [scan EXCEPT ![s] = new]
    BY <1>5 DEF Cancel
  <2> HIDE DEF new
  <2>4. Progress(new)
    BY <2>1, <2>2 DEF Progress
  <2> QED
    BY <1>5, <2>3, <2>4, OneScan DEF Cancel
<1> QED
  BY <1>1, <1>2, <1>3, <1>4, <1>5

LEMMA ScannerWalkInit == Init => WInv
<1>1. Init => \A s \in Scans : Progress(scan[s])
  BY DEF Init, Idle, Progress
<1> QED
  BY <1>1, ScannerTypeInit DEF WInv

LEMMA ScannerWalkStep == WInv /\ [Next]_vars => WInv'
<1>1. WInv /\ [Next]_vars => TInv'
  BY ScannerTypeStep DEF WInv
<1>2. WInv /\ [Next]_vars => \A s \in Scans : Progress(scan[s])'
  BY BeginCovers, EnterRootCovers, VisitCovers, ParseSkipsCovers, ControlCovers,
     SilencesCover, AroundCovers DEF Next, Step
<1> QED
  BY <1>1, <1>2 DEF WInv

\* A scan that is not cancelled reports every compose file that was there from
\* its beginning to its end below a configured path, on a way of directories
\* that were there as well and are not excluded; whatever else happens to the
\* tree, and to other scans, meanwhile.
THEOREM ScannerFindsWhatStays == Spec => []FindsWhatStays
<1>1. WInv => FindsWhatStays
  <2> SUFFICES ASSUME WInv, NEW s \in Scans, scan[s].pc = "done", ~scan[s].cancelled,
                      NEW f \in Lasting(s)
               PROVE  f \in scan[s].found
    BY DEF FindsWhatStays
  <2> DEFINE V == scan[s].visited
  <2>1. Progress(scan[s]) /\ scan[s] \in ScanState
    BY DEF WInv, TInv, TypeOK
  <2>2. Covers(scan[s]) /\ scan[s].roots = {} /\ scan[s].todo = {} /\ scan[s].listed = {}
    BY <2>1 DEF Progress
  <2>3. V \in SUBSET Nodes
    BY <2>1 DEF ScanState
  <2>4. Follows(s, V)
    BY <2>2 DEF Follows, Covers, Steady
  <2>5. f \in YAML \cap V /\ f \in Composes \ scan[s].touched
    <3>1. f \in YAML /\ disk.file[f] = "compose" /\ f \notin scan[s].touched /\ f \in V
      BY <2>3, <2>4 DEF Lasting
    <3> QED
      BY <3>1, ScannerAssumption DEF Composes
  <2> QED
    BY <2>2, <2>5 DEF Covers, SwappedStates
<1> QED
  BY <1>1, ScannerWalkInit, ScannerWalkStep, PTL DEF Spec

-----------------------------------------------------------------------------
(* What scans report.  First the tree.                                       *)

LEMMA AboveTransitive ==
    ASSUME NEW a, NEW b, NEW c, Above(a, b), Above(b, c)
    PROVE  Above(a, c)
  BY DEF Above

LEMMA ParentIsAbove ==
    ASSUME NEW n \in Nodes, Parent[n] \in Nodes
    PROVE  Above(Parent[n], n)
  BY DEF Above

\* What is above a node is the node itself or above its parent.
LEMMA AboveParent ==
    ASSUME NEW c \in Nodes, NEW d, Above(d, c), d # c
    PROVE  Parent[c] \in Nodes /\ Above(d, Parent[c])
<1>1. Parent[c] \in Nodes
  <2> SUFFICES ASSUME Parent[c] \notin Nodes PROVE FALSE
    OBVIOUS
  <2>1. {c} \in SUBSET Nodes /\ c \in {c} /\ \A m \in {c} : Parent[m] \in Nodes => Parent[m] \in {c}
    OBVIOUS
  <2>2. d \in {c}
    BY <2>1 DEF Above
  <2> QED
    BY <2>2
<1>2. ASSUME NEW V \in SUBSET Nodes, Parent[c] \in V,
             \A m \in V : Parent[m] \in Nodes => Parent[m] \in V
      PROVE  d \in V
  <2> DEFINE W == V \cup {c}
  <2>1. W \in SUBSET Nodes /\ c \in W /\ \A m \in W : Parent[m] \in Nodes => Parent[m] \in W
    BY <1>2
  <2> HIDE DEF W
  <2>2. d \in W
    BY <2>1 DEF Above
  <2> QED
    BY <2>2 DEF W
<1> QED
  BY <1>1, <1>2 DEF Above

\* A directory is not inside itself.
LEMMA NoCycle ==
    ASSUME NEW a \in Nodes, NEW b \in Nodes, Above(a, b), Above(b, a)
    PROVE  a = b
<1> SUFFICES ASSUME a # b PROVE FALSE
  OBVIOUS
<1> DEFINE S == {n \in Nodes : Above(n, a) /\ Above(a, n)}
<1>1. a \in S /\ b \in S
  BY DEF Above
<1>2. ASSUME NEW n \in S PROVE Parent[n] \in S
  <2>1. PICK m \in S : m # n
    BY <1>1
  <2>2. Above(m, n)
    BY AboveTransitive
  <2>3. Parent[n] \in Nodes /\ Above(m, Parent[n])
    BY <2>1, <2>2, AboveParent
  <2>4. Above(a, Parent[n])
    BY <2>3, AboveTransitive
  <2>5. Above(Parent[n], a)
    BY <2>3, ParentIsAbove, AboveTransitive
  <2> QED
    BY <2>3, <2>4, <2>5
<1>3. S \in (SUBSET Nodes) \ {{}}
  BY <1>1
<1> HIDE DEF S
<1>4. \A T \in (SUBSET Nodes) \ {{}} : \E n \in T : Parent[n] \notin T
  BY ScannerAssumption
<1>5. PICK n \in S : Parent[n] \notin S
  BY <1>3, <1>4
<1> QED
  BY <1>2, <1>5

-----------------------------------------------------------------------------

\* The walk from the path r may come to n.
Open(r, n) ==
    /\ r \in Paths /\ Above(r, n)
    /\ \A d \in Dirs : Above(r, d) /\ Above(d, n) /\ d # n => ~Barred(d)

LEMMA RootIsOpen ==
    ASSUME NEW r \in Paths, r \in Nodes
    PROVE  Open(r, r)
<1>1. Above(r, r)
  BY DEF Above
<1>2. ASSUME NEW d \in Dirs, Above(r, d), Above(d, r) PROVE d = r
  BY <1>2, NoCycle DEF Nodes
<1> QED
  BY <1>1, <1>2 DEF Open

LEMMA ChildIsOpen ==
    ASSUME NEW r, NEW n \in Dirs, Open(r, n), ~Barred(n),
           NEW m \in Nodes, Parent[m] = n
    PROVE  Open(r, m)
<1>1. Above(n, m)
  BY ParentIsAbove DEF Nodes
<1>2. Above(r, m)
  BY <1>1, AboveTransitive DEF Open
<1>3. ASSUME NEW d \in Dirs, Above(r, d), Above(d, m), d # m PROVE ~Barred(d)
  <2>1. Above(d, n)
    BY <1>3, AboveParent
  <2> QED
    BY <1>3, <2>1 DEF Open
<1> QED
  BY <1>2, <1>3 DEF Open

Reports(q) ==
    /\ q.pc = "idle" => q.found = {}
    /\ q.pc # "idle" =>
        /\ config # Unset
        /\ Composes \subseteq q.been /\ q.roots \subseteq Paths
        /\ \A n \in q.todo : Open(q.root, n)
        /\ \A e \in q.listed : Open(e[1], e[2])
        /\ q.pc \in SwappedStates => \E r : Open(r, q.file)
        /\ \A f \in q.found : f \in q.been /\ \E r : Open(r, f)

RInv == TInv /\ \A s \in Scans : Reports(scan[s])

LEMMA OneScanReports ==
    ASSUME RInv, UNCHANGED <<config, disk>>, NEW s \in Scans, NEW new,
           scan' = [scan EXCEPT ![s] = new], Reports(new)
    PROVE  \A t \in Scans : Reports(scan[t])'
<1>1. \A r, n : Open(r, n) <=> Open(r, n)'
  BY DEF Open, Above, Paths, Barred
<1>2. \A q : Reports(q) <=> Reports(q)'
  BY <1>1 DEF Reports, Composes, Paths
<1> QED
  BY <1>2 DEF RInv, TInv, TypeOK

LEMMA WalkReports ==
    ASSUME RInv, NEW s \in Scans, Begin(s) \/ EnterRoot(s) \/ Visit(s)
    PROVE  \A t \in Scans : Reports(scan[t])'
<1>1. Reports(scan[s])
  BY DEF RInv
<1>2. UNCHANGED <<config, disk>>
  BY DEF Begin, EnterRoot, Visit, Walk
<1>3. CASE Begin(s)
  <2> DEFINE new == [Idle EXCEPT !.pc = "walk", !.roots = config["paths"], !.been = Composes]
  <2>1. /\ new.pc = "walk" /\ new.roots = Paths /\ new.been = Composes
        /\ new.todo = {} /\ new.listed = {} /\ new.found = {} /\ config # Unset
        /\ scan' = [scan EXCEPT ![s] = new]
    BY <1>3 DEF Begin, Idle, Paths
  <2> HIDE DEF new
  <2>2. Reports(new)
    BY <2>1 DEF Reports, SwappedStates
  <2> QED
    BY <1>2, <2>1, <2>2, OneScanReports
<1>4. CASE EnterRoot(s)
  <2>1. PICK r \in scan[s].roots, new \in ScanState :
             /\ scan' = [scan EXCEPT ![s] = new] /\ scan[s].pc = "walk" /\ new.pc = "walk"
             /\ new.roots = scan[s].roots \ {r} /\ new.root = r /\ r \in Nodes
             /\ new.todo = IF Exists(r) THEN {r} ELSE {}
             /\ new.listed = scan[s].listed /\ new.found = scan[s].found
             /\ new.been = scan[s].been
    BY <1>4, EnterRootForm DEF RInv
  <2>2. r \in Paths
    BY <1>1, <2>1 DEF Reports
  <2>3. \A n \in new.todo : Open(new.root, n)
    BY <2>1, <2>2, RootIsOpen
  <2>4. Reports(new)
    BY <1>1, <2>1, <2>3 DEF Reports, SwappedStates
  <2> QED
    BY <1>2, <2>1, <2>4, OneScanReports
<1>5. CASE Visit(s)
  <2>1. PICK n \in scan[s].todo, new \in ScanState :
             /\ scan' = [scan EXCEPT ![s] = new] /\ scan[s].pc = "walk" /\ new.pc = "walk"
             /\ n \in Nodes /\ new.root = scan[s].root
             /\ new.todo = IF n \in Dirs THEN Enter(s, n) ELSE scan[s].todo \ {n}
             /\ new.listed = IF n \in YAML THEN scan[s].listed \cup {<<scan[s].root, n>>}
                             ELSE scan[s].listed
             /\ new.roots = scan[s].roots /\ new.found = scan[s].found
             /\ new.been = scan[s].been
    BY <1>5, VisitForm DEF RInv
  <2>2. Open(scan[s].root, n)
    BY <1>1, <2>1 DEF Reports
  <2>3. ASSUME NEW m \in new.todo \ scan[s].todo
        PROVE  m \in Nodes /\ Parent[m] = n /\ n \in Dirs /\ ~Barred(n)
    BY <2>1, ExcludedIsBarred DEF Enter
  <2>4. \A m \in new.todo : Open(new.root, m)
    BY <1>1, <2>1, <2>2, <2>3, ChildIsOpen DEF Reports
  <2>5. \A e \in new.listed : Open(e[1], e[2])
    BY <1>1, <2>1, <2>2 DEF Reports
  <2>6. Reports(new)
    BY <1>1, <2>1, <2>4, <2>5 DEF Reports, SwappedStates
  <2> QED
    BY <1>2, <2>1, <2>6, OneScanReports
<1> QED
  BY <1>3, <1>4, <1>5

LEMMA ControlReports ==
    ASSUME RInv, NEW s \in Scans,
           VisitCancelled(s) \/ WalkDone(s) \/ ParseSkips(s) \/ ScanDone(s) \/ Return(s)
    PROVE  \A t \in Scans : Reports(scan[t])'
<1>1. Reports(scan[s]) /\ scan[s] \in ScanState
  BY DEF RInv, TInv, TypeOK
<1>2. UNCHANGED <<config, disk>>
  BY DEF VisitCancelled, WalkDone, ParseSkips, ScanDone, Return, Walk
<1>3. CASE VisitCancelled(s)
  <2> DEFINE new == [scan[s] EXCEPT !.todo = {}]
  <2>1. /\ new.pc = "walk" /\ scan[s].pc = "walk" /\ new.todo = {} /\ new.roots = scan[s].roots
        /\ new.listed = scan[s].listed /\ new.found = scan[s].found /\ new.been = scan[s].been
        /\ scan' = [scan EXCEPT ![s] = new]
    BY <1>1, <1>3 DEF VisitCancelled, ScanState
  <2> HIDE DEF new
  <2>2. Reports(new)
    BY <1>1, <2>1 DEF Reports, SwappedStates
  <2> QED
    BY <1>2, <2>1, <2>2, OneScanReports
<1>4. ASSUME NEW pc \in {"parse", "done"}, scan[s].pc \in {"walk", "parse"},
             scan' = [scan EXCEPT ![s].pc = pc]
      PROVE  \A t \in Scans : Reports(scan[t])'
  <2> DEFINE new == [scan[s] EXCEPT !.pc = pc]
  <2>1. /\ new.pc = pc /\ new.todo = scan[s].todo /\ new.roots = scan[s].roots
        /\ new.root = scan[s].root
        /\ new.listed = scan[s].listed /\ new.found = scan[s].found /\ new.been = scan[s].been
        /\ scan' = [scan EXCEPT ![s] = new]
    BY <1>1, <1>4 DEF ScanState
  <2> HIDE DEF new
  <2>2. Reports(new)
    BY <1>1, <1>4, <2>1 DEF Reports, SwappedStates
  <2> QED
    BY <1>2, <2>1, <2>2, OneScanReports
<1>5. CASE WalkDone(s) \/ ScanDone(s)
  BY <1>4, <1>5 DEF WalkDone, ScanDone
<1>6. CASE Return(s)
  <2>1. Reports(Idle)
    BY DEF Reports, Idle
  <2> QED
    BY <1>2, <1>6, <2>1, OneScanReports DEF Return
<1>7. CASE ParseSkips(s)
  <2>1. PICK entry \in scan[s].listed, new \in ScanState :
             LET hit == entry[2] \in kept /\ entry[2] \in Composes IN
             /\ scan' = [scan EXCEPT ![s] = new] /\ scan[s].pc = "parse" /\ new.pc = "parse"
             /\ new.listed = scan[s].listed \ {entry}
             /\ new.found = IF hit THEN scan[s].found \cup {entry[2]} ELSE scan[s].found
             /\ new.roots = scan[s].roots /\ new.todo = scan[s].todo
             /\ new.root = scan[s].root /\ new.been = scan[s].been
    BY <1>7, ParseSkipsForm DEF RInv
  <2>2. Open(entry[1], entry[2])
    BY <1>1, <2>1 DEF Reports
  <2>3. \A f \in new.found : f \in new.been /\ \E r : Open(r, f)
    BY <1>1, <2>1, <2>2 DEF Reports
  <2>4. Reports(new)
    BY <1>1, <2>1, <2>3 DEF Reports, SwappedStates
  <2> QED
    BY <1>2, <2>1, <2>4, OneScanReports
<1> QED
  BY <1>3, <1>5, <1>6, <1>7

LEMMA SilencesReport ==
    ASSUME RInv, NEW s \in Scans,
           ParseBegins(s) \/ Silence(s) \/ Options(s) \/ SilenceAgain(s) \/ LoadProject(s)
    PROVE  \A t \in Scans : Reports(scan[t])'
<1>1. Reports(scan[s]) /\ scan[s] \in ScanState
  BY DEF RInv, TInv, TypeOK
<1>2. UNCHANGED <<config, disk>>
  BY DEF ParseBegins, Silence, Options, SilenceAgain, LoadProject
<1>3. CASE ParseBegins(s)
  <2>1. PICK entry \in scan[s].listed :
          scan' = [scan EXCEPT ![s].listed = @ \ {entry}, ![s].file = entry[2],
                               ![s].pc = "silence"]
    BY <1>3 DEF ParseBegins
  <2> DEFINE new == [scan[s] EXCEPT !.listed = @ \ {entry}, !.file = entry[2], !.pc = "silence"]
  <2>2. /\ new.pc = "silence" /\ new.file = entry[2]
        /\ new.listed = scan[s].listed \ {entry} /\ new.found = scan[s].found
        /\ new.been = scan[s].been /\ new.root = scan[s].root
        /\ new.roots = scan[s].roots /\ new.todo = scan[s].todo
    BY <1>1 DEF ScanState
  <2>3. scan' = [scan EXCEPT ![s] = new] /\ scan[s].pc = "parse"
    BY <1>3, <2>1 DEF ParseBegins
  <2> HIDE DEF new
  <2>4. Open(entry[1], new.file)
    BY <1>1, <2>2, <2>3 DEF Reports
  <2>5. Reports(new)
    BY <1>1, <2>2, <2>3, <2>4 DEF Reports, SwappedStates
  <2> QED
    BY <1>2, <2>3, <2>5, OneScanReports
<1>4. ASSUME NEW pc \in SwappedStates, scan[s].pc \in SwappedStates,
             scan' = [scan EXCEPT ![s].pc = pc]
      PROVE  \A t \in Scans : Reports(scan[t])'
  <2> DEFINE new == [scan[s] EXCEPT !.pc = pc]
  <2>1. /\ new.pc = pc /\ new.file = scan[s].file
        /\ new.listed = scan[s].listed /\ new.found = scan[s].found
        /\ new.been = scan[s].been /\ new.root = scan[s].root
        /\ new.roots = scan[s].roots /\ new.todo = scan[s].todo
        /\ scan' = [scan EXCEPT ![s] = new]
    BY <1>1, <1>4 DEF ScanState
  <2> HIDE DEF new
  <2>2. Reports(new)
    BY <1>1, <1>4, <2>1 DEF Reports, SwappedStates
  <2> QED
    BY <1>2, <2>1, <2>2, OneScanReports
<1>5. ASSUME NEW new, scan[s].pc \in SwappedStates,
             scan' = [scan EXCEPT ![s] = new], new.pc = "parse",
             \A f \in new.found \ scan[s].found : f = scan[s].file /\ f \in Composes,
             new.listed = scan[s].listed, new.been = scan[s].been,
             new.roots = scan[s].roots, new.todo = scan[s].todo, new.root = scan[s].root
      PROVE  \A t \in Scans : Reports(scan[t])'
  <2>1. \A f \in new.found : f \in new.been /\ \E r : Open(r, f)
    BY <1>1, <1>5 DEF Reports, SwappedStates
  <2>2. Reports(new)
    BY <1>1, <1>5, <2>1 DEF Reports, SwappedStates
  <2> QED
    BY <1>2, <1>5, <2>2, OneScanReports
<1>6. CASE Silence(s) \/ SilenceAgain(s)
  BY <1>4, <1>6 DEF Silence, SilenceAgain, SwappedStates
<1>7. CASE Options(s)
  <2>1. CASE scan' = [scan EXCEPT ![s].pc = "reload"]
    BY <1>4, <1>7, <2>1 DEF Options, SwappedStates
  <2>2. CASE scan' = [scan EXCEPT ![s].pc = "parse", ![s].file = Nil]
    <3> DEFINE new == [scan[s] EXCEPT !.pc = "parse", !.file = Nil]
    <3>1. /\ new.pc = "parse" /\ new.found = scan[s].found
          /\ new.listed = scan[s].listed /\ new.been = scan[s].been
          /\ new.roots = scan[s].roots /\ new.todo = scan[s].todo /\ new.root = scan[s].root
      BY <1>1 DEF ScanState
    <3>2. scan' = [scan EXCEPT ![s] = new] /\ scan[s].pc \in SwappedStates
      BY <1>7, <2>2 DEF Options, SwappedStates
    <3> HIDE DEF new
    <3> QED
      BY <1>5, <3>1, <3>2
  <2> QED
    BY <1>7, <2>1, <2>2 DEF Options
<1>8. CASE LoadProject(s)
  <2>1. PICK loaded \in BOOLEAN :
          scan' = [scan EXCEPT ![s].pc = "parse", ![s].file = Nil,
                ![s].found = IF loaded /\ scan[s].file \in Composes
                             THEN @ \cup {scan[s].file} ELSE @]
    BY <1>8 DEF LoadProject
  <2> DEFINE found == IF loaded /\ scan[s].file \in Composes
                      THEN scan[s].found \cup {scan[s].file} ELSE scan[s].found
             new == [scan[s] EXCEPT !.pc = "parse", !.file = Nil, !.found = found]
  <2>2. scan' = [scan EXCEPT ![s] = new] /\ scan[s].pc \in SwappedStates
    BY <1>8, <2>1 DEF LoadProject, SwappedStates
  <2>3. \A f \in found \ scan[s].found : f = scan[s].file /\ f \in Composes
    BY <2>1
  <2> HIDE DEF found
  <2>4. /\ new.pc = "parse" /\ new.found = found
        /\ new.listed = scan[s].listed /\ new.been = scan[s].been
        /\ new.roots = scan[s].roots /\ new.todo = scan[s].todo /\ new.root = scan[s].root
    BY <1>1 DEF ScanState
  <2> HIDE DEF new
  <2> QED
    BY <1>5, <2>2, <2>3, <2>4
<1> QED
  BY <1>3, <1>6, <1>7, <1>8

\* A file that becomes a compose file is known to every scan under way.
LEMMA ChangeReports ==
    ASSUME RInv, NEW n, NEW composes, Observe(n, composes), UNCHANGED config,
           Composes' \subseteq Composes \cup composes
    PROVE  \A t \in Scans : Reports(scan[t])'
<1> SUFFICES ASSUME NEW t \in Scans PROVE Reports(scan[t])'
  OBVIOUS
<1>1. scan[t] \in ScanState /\ Reports(scan[t])
  BY DEF RInv, TInv, TypeOK
<1>2. CASE scan[t].pc = "idle"
  <2>1. scan'[t] = Idle
    BY <1>2 DEF Observe
  <2> QED
    BY <2>1 DEF Reports, Idle
<1>3. CASE scan[t].pc # "idle"
  <2> DEFINE q == [scan[t] EXCEPT !.touched = @ \cup {n}, !.been = @ \cup composes]
  <2>1. scan'[t] = q
    BY <1>3 DEF Observe
  <2>2. /\ q.been = scan[t].been \cup composes /\ q.pc = scan[t].pc
        /\ q.listed = scan[t].listed /\ q.root = scan[t].root
        /\ q.roots = scan[t].roots /\ q.todo = scan[t].todo /\ q.file = scan[t].file
        /\ q.found = scan[t].found
    BY <1>1 DEF ScanState
  <2> HIDE DEF q
  <2>3. PICK new : new = scan'[t]
    OBVIOUS
  <2>4. Paths' = Paths /\ \A r, m : Open(r, m)' <=> Open(r, m)
    BY DEF Open, Above, Paths, Barred
  <2>5. Reports(new)'
    BY <1>1, <1>3, <2>1, <2>2, <2>3, <2>4 DEF Reports
  <2> QED
    BY <2>3, <2>5
<1> QED
  BY <1>2, <1>3

LEMMA AroundReports ==
    ASSUME RInv,
           \/ UNCHANGED vars \/ Configure
           \/ \E f \in Files, kind \in Kinds : FileChanges(f, kind)
           \/ \E d \in Dirs : DirVanishes(d)
           \/ \E s \in Scans : Cancel(s)
    PROVE  \A t \in Scans : Reports(scan[t])'
<1>1. CASE UNCHANGED vars
  <2>1. \A r, m : Open(r, m)' <=> Open(r, m)
    BY <1>1 DEF vars, Open, Above, Paths, Barred
  <2> QED
    BY <1>1, <2>1 DEF vars, RInv, Reports, Composes, Paths
<1>2. CASE Configure
  BY <1>2 DEF Configure, RInv, Reports
<1>3. ASSUME NEW f \in Files, NEW kind \in Kinds, FileChanges(f, kind)
      PROVE  \A t \in Scans : Reports(scan[t])'
  <2>1. disk' = [disk EXCEPT !.file[f] = kind]
    BY <1>3 DEF FileChanges
  <2>2. /\ \A g \in Files \ {f} : disk'.file[g] = disk.file[g]
        /\ disk'.file[f] = kind
    BY <2>1 DEF RInv, TInv, TypeOK
  <2>3. Composes' \subseteq Composes \cup (IF kind = "compose" THEN {f} ELSE {})
    BY <2>2 DEF Composes
  <2> QED
    BY <1>3, <2>3, ChangeReports DEF FileChanges
<1>4. ASSUME NEW d \in Dirs, DirVanishes(d)
      PROVE  \A t \in Scans : Reports(scan[t])'
  <2>1. disk'.file = disk.file
    BY <1>4 DEF DirVanishes, RInv, TInv, TypeOK
  <2> QED
    BY <1>4, <2>1, ChangeReports DEF DirVanishes, Composes
<1>5. ASSUME NEW s \in Scans, Cancel(s)
      PROVE  \A t \in Scans : Reports(scan[t])'
  <2> DEFINE new == [scan[s] EXCEPT !.cancelled = TRUE]
  <2>1. scan[s] \in ScanState /\ Reports(scan[s])
    BY DEF RInv, TInv, TypeOK
  <2>2. /\ new.pc = scan[s].pc /\ new.file = scan[s].file
        /\ new.listed = scan[s].listed /\ new.found = scan[s].found
        /\ new.been = scan[s].been /\ new.root = scan[s].root
        /\ new.roots = scan[s].roots /\ new.todo = scan[s].todo
    BY <2>1 DEF ScanState
  <2>3. scan' = [scan EXCEPT ![s] = new]
    BY <1>5 DEF Cancel
  <2> HIDE DEF new
  <2>4. Reports(new)
    BY <2>1, <2>2 DEF Reports
  <2> QED
    BY <1>5, <2>3, <2>4, OneScanReports DEF Cancel
<1> QED
  BY <1>1, <1>2, <1>3, <1>4, <1>5

LEMMA ScannerReportsInit == Init => RInv
<1>1. Init => \A s \in Scans : Reports(scan[s])
  BY DEF Init, Idle, Reports
<1> QED
  BY <1>1, ScannerTypeInit DEF RInv

LEMMA ScannerReportsStep == RInv /\ [Next]_vars => RInv'
<1>1. RInv /\ [Next]_vars => TInv'
  BY ScannerTypeStep DEF RInv
<1>2. RInv /\ [Next]_vars => \A s \in Scans : Reports(scan[s])'
  BY WalkReports, ControlReports, SilencesReport, AroundReports DEF Next, Step
<1> QED
  BY <1>1, <1>2 DEF RInv

\* A file that a scan reports was a compose file at some moment of the scan,
\* though it may have come from the cache, and no directory on the way to it
\* from a configured path is an excluded one.
THEOREM ScannerFindsOnlyWhatWas == Spec => []FindsOnlyWhatWas
<1>1. RInv => FindsOnlyWhatWas
  <2> SUFFICES ASSUME RInv, NEW s \in Scans, NEW f \in scan[s].found
               PROVE  /\ f \in scan[s].been
                      /\ \E r \in Paths : Above(r, f) /\
                            ~\E d \in Dirs : Barred(d) /\ Above(r, d) /\ Above(d, f)
    BY DEF FindsOnlyWhatWas
  <2>1. f \in scan[s].been /\ \E r : Open(r, f)
    BY DEF RInv, Reports
  <2>2. f \notin Dirs
    BY ScannerAssumption DEF RInv, TInv, TypeOK, ScanState
  <2> QED
    BY <2>1, <2>2 DEF Open
<1> QED
  BY <1>1, ScannerReportsInit, ScannerReportsStep, PTL DEF Spec

-----------------------------------------------------------------------------

\* The configuration the scans use gives every key that an environment variable
\* reaches the value of the source that comes first.
THEOREM ScannerPriorityHolds == Spec => []PriorityHolds
<1>1. TInv => PriorityHolds
  <2> SUFFICES ASSUME TInv, config # Unset, NEW k \in Keys \ Underscored
               PROVE  IsPrior(source, k, config[k])
    BY DEF PriorityHolds
  <2>1. source \in Sources /\ Loads(source) /\ config = Load(source)
    BY DEF TInv, TypeOK
  <2>2. \A s \in Sources : IsSource(s)
    BY ScannerAssumption
  <2> QED
    BY <2>1, <2>2, LoadIsPrior
<1> QED
  BY <1>1, ScannerTypeInit, ScannerTypeStep, PTL DEF Spec
=============================================================================
