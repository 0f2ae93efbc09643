------------------------------ MODULE Scanner ------------------------------
(***************************************************************************)
(* internal/scanner/finder.go: scans that walk the configured directories  *)
(* while files come and go, and parse what they find.  Several scans run   *)
(* at a time; while the compose library is at work each of them swaps the  *)
(* process's os.Stderr for /dev/null.                                      *)
(*                                                                         *)
(* What the cache does to the projects is the subject of Manager; here a   *)
(* file in the cache is one that may be reported without being parsed.     *)
(***************************************************************************)
EXTENDS Config, FiniteSets

CONSTANTS
    Dirs, Files,    \* what there may be on disk
    Parent,         \* the directory a directory or file is in
    Name,           \* the base name of a directory
    Hidden,         \* names that begin with a dot, other than "." and ".."
    Exempt,         \* hidden names that are scanned: .docker and .devcontainer
    YAML,           \* files with the extension of a YAML file, in any case
    BuiltIn,        \* defaultExcludes
    Sources,        \* the configurations the process may be started with
    Scans,          \* goroutines that scan: the ticker's and the handlers'
    Stderr,         \* the *os.File the process was started with
    Closed,         \* any *os.File that was opened on /dev/null and closed
    Nil,            \* the nil *os.File
    MaxEvents       \* bound: changes on disk and requests that are cancelled

Nodes == Dirs \cup Files
Kinds == {"absent", "compose", "empty", "broken"}

ASSUME ScannerAssumption ==
    /\ Dirs \cap Files = {} /\ YAML \subseteq Files /\ Exempt \subseteq Hidden
    /\ Parent \in [Nodes -> Dirs \cup {Nil}] /\ DOMAIN Name = Dirs
    /\ \A S \in (SUBSET Nodes) \ {{}} : \E n \in S : Parent[n] \notin S
    /\ Nil \notin Scans \cup {Stderr, Closed} /\ Stderr # Closed
    /\ {Stderr, Closed} \cap Scans = {}
    /\ {"paths", "exclude"} \subseteq Keys \ Underscored
    /\ \A s \in Sources : IsSource(s)
    /\ \A s \in Sources : Loads(s) => Load(s)["paths"] \subseteq Nodes
    /\ MaxEvents \in Nat

VARIABLES
    source,     \* flag, files and environment
    config,     \* the loaded configuration, Unset before that
    disk,       \* the directories there are and what each file is
    kept,       \* files whose project is in the cache, maybe of an older version
    stderr,     \* os.Stderr
    old, null,  \* oldStderr and devNull of each scan
    open,       \* *os.File objects that are open
    scan,       \* the local state of each scan
    events,
    raced       \* history: two scans have had os.Stderr swapped at a time

files == <<stderr, old, null, open>>
vars == <<source, config, disk, kept, files, scan, events, raced>>

\* An *os.File is the original one, one that is closed, or the one that a scan
\* has open: it has one at a time.
File == Scans \cup {Stderr, Closed, Nil}

\* roots, root and todo are what is left to walk, listed is yamlFiles with the
\* path a file was found under, file is the one being parsed.  History: visited
\* are the nodes passed to the callback, touched those that changed since the
\* scan began, been the files that were compose files at some moment since.
Idle == [pc |-> "idle", roots |-> {}, todo |-> {}, root |-> Nil, listed |-> {},
         file |-> Nil, found |-> {}, cancelled |-> FALSE,
         visited |-> {}, touched |-> {}, been |-> {}]

Exists(n) == IF n \in Dirs THEN n \in disk.dirs ELSE disk.file[n] # "absent"
Composes == {f \in Files : disk.file[f] = "compose"}

Init ==
    /\ source \in Sources
    /\ config = Unset
    /\ disk = [dirs |-> Dirs, file |-> [f \in Files |-> "compose"]]
    /\ kept = {}
    /\ stderr = Stderr /\ open = {Stderr}
    /\ old = [s \in Scans |-> Nil] /\ null = [s \in Scans |-> Nil]
    /\ scan = [s \in Scans |-> Idle]
    /\ events = 0
    /\ raced = FALSE

-----------------------------------------------------------------------------
(* The environment. *)

Occurs == events < MaxEvents /\ events' = events + 1

Observe(n, composes) ==
    scan' = [s \in Scans |->
        IF scan[s].pc = "idle" THEN Idle
        ELSE [scan[s] EXCEPT !.touched = @ \cup {n}, !.been = @ \cup composes]]

\* A file is written, edited or removed; its directory is there.
FileChanges(f, kind) ==
    /\ Occurs
    /\ disk.file[f] # kind /\ Exists(Parent[f])
    /\ disk' = [disk EXCEPT !.file[f] = kind]
    /\ Observe(f, IF kind = "compose" THEN {f} ELSE {})
    /\ UNCHANGED <<source, config, kept, files, raced>>

\* An empty directory is removed.  One that cannot be read is, to a scan, one
\* whose files are not there.
DirVanishes(d) ==
    /\ Occurs
    /\ Exists(d) /\ \A n \in Nodes : Exists(n) => Parent[n] # d
    /\ disk' = [disk EXCEPT !.dirs = @ \ {d}]
    /\ Observe(d, {})
    /\ UNCHANGED <<source, config, kept, files, raced>>

\* The request a scan is made for is gone, or the server is stopping.
Cancel(s) ==
    /\ Occurs
    /\ scan[s].pc # "idle" /\ ~scan[s].cancelled
    /\ scan' = [scan EXCEPT ![s].cancelled = TRUE]
    /\ UNCHANGED <<source, config, disk, kept, files, raced>>

\* main: without a configuration there is no scanner.
Configure ==
    /\ config = Unset /\ Loads(source)
    /\ config' = Load(source)
    /\ UNCHANGED <<source, disk, kept, files, scan, events, raced>>

-----------------------------------------------------------------------------
(* Scan: the walk. *)

\* NewScanner: without a list of its own the scanner has one built in.
Exclude == IF config["exclude"] = {} THEN BuiltIn ELSE config["exclude"]

\* Mutant: hidden directories are scanned unless they are listed.
ExcludedDir_ListedOnly(d) == Name[d] \in Exclude

\* shouldExcludeDir.
ExcludedDir(d) == Name[d] \in Exclude \cup (Hidden \ Exempt)

Walk == <<source, config, disk, kept, files, events, raced>>

Begin(s) ==
    /\ config # Unset /\ scan[s].pc = "idle"
    /\ scan' = [scan EXCEPT ![s] =
            [Idle EXCEPT !.pc = "walk", !.roots = config["paths"], !.been = Composes]]
    /\ UNCHANGED Walk

\* WalkDir begins with the path itself.
EnterRoot(s) ==
    /\ scan[s].pc = "walk" /\ scan[s].todo = {}
    /\ \E r \in scan[s].roots :
        scan' = [scan EXCEPT ![s].roots = @ \ {r}, ![s].root = r,
                             ![s].todo = IF Exists(r) THEN {r} ELSE {}]
    /\ UNCHANGED Walk

\* Mutant: a directory that is not scanned ends the walk, as an error would.
Enter_SkipAll(s, d) ==
    IF ExcludedDir(d) THEN {}
    ELSE (scan[s].todo \ {d}) \cup {n \in Nodes : Parent[n] = d /\ Exists(n)}

\* SkipDir, or everything that is in the directory now.
Enter(s, d) ==
    (scan[s].todo \ {d})
        \cup {n \in Nodes : Parent[n] = d /\ Exists(n) /\ ~ExcludedDir(d)}

\* Mutant: the extension is not looked at.
Visit_ListsAll(s) ==
    /\ scan[s].pc = "walk" /\ ~scan[s].cancelled
    /\ \E n \in scan[s].todo :
        scan' = [scan EXCEPT
            ![s].visited = @ \cup {n},
            ![s].todo = IF n \in Dirs THEN Enter(s, n) ELSE @ \ {n},
            ![s].listed = @ \cup {<<scan[s].root, n>>}]
    /\ UNCHANGED Walk

\* The callback, for what was listed when its directory was read: it may be
\* gone.  The order, which is by name, does not matter to the result.
Visit(s) ==
    /\ scan[s].pc = "walk" /\ ~scan[s].cancelled
    /\ \E n \in scan[s].todo :
        scan' = [scan EXCEPT
            ![s].visited = @ \cup {n},
            ![s].todo = IF n \in Dirs THEN Enter(s, n) ELSE @ \ {n},
            ![s].listed = IF n \in YAML THEN @ \cup {<<scan[s].root, n>>} ELSE @]
    /\ UNCHANGED Walk

\* The callback returns ctx.Err(): this path is done, and the next one will be
\* as soon as something is found there.
VisitCancelled(s) ==
    /\ scan[s].pc = "walk" /\ scan[s].cancelled /\ scan[s].todo # {}
    /\ scan' = [scan EXCEPT ![s].todo = {}]
    /\ UNCHANGED Walk

WalkDone(s) ==
    /\ scan[s].pc = "walk" /\ scan[s].todo = {} /\ scan[s].roots = {}
    /\ scan' = [scan EXCEPT ![s].pc = "parse"]
    /\ UNCHANGED Walk

-----------------------------------------------------------------------------
(* Scan: the files, one after another. *)

\* Everything is parsed, or ctx is done: Scan returns.
ScanDone(s) ==
    /\ scan[s].pc = "parse"
    /\ scan[s].listed = {} \/ scan[s].cancelled
    /\ scan' = [scan EXCEPT ![s].pc = "done"]
    /\ UNCHANGED Walk

Return(s) ==
    /\ scan[s].pc = "done"
    /\ scan' = [scan EXCEPT ![s] = Idle]
    /\ UNCHANGED Walk

\* Mutant: whatever is in the cache is still good.
ParseSkips_NoChecksum(s) ==
    /\ scan[s].pc = "parse" /\ ~scan[s].cancelled
    /\ \E entry \in scan[s].listed :
        LET f == entry[2]
            hit == f \in kept IN
        /\ hit \/ disk.file[f] \in {"absent", "broken"}
        /\ scan' = [scan EXCEPT ![s].listed = @ \ {entry},
                                ![s].found = IF hit THEN @ \cup {f} ELSE @]
    /\ UNCHANGED Walk

\* parseComposeFile returns the cached project, or the error of Stat or ReadFile.
ParseSkips(s) ==
    /\ scan[s].pc = "parse" /\ ~scan[s].cancelled
    /\ \E entry \in scan[s].listed :
        LET f == entry[2]
            hit == f \in kept /\ f \in Composes IN
        /\ hit \/ disk.file[f] \in {"absent", "broken"}
        /\ scan' = [scan EXCEPT ![s].listed = @ \ {entry},
                                ![s].found = IF hit THEN @ \cup {f} ELSE @]
    /\ UNCHANGED Walk

Swapped(s) == scan[s].pc \in {"silence", "options", "reload", "load"}

\* The file has to be parsed: oldStderr is read.
ParseBegins(s) ==
    /\ scan[s].pc = "parse" /\ ~scan[s].cancelled
    /\ \E entry \in scan[s].listed :
        /\ Exists(entry[2])
        /\ scan' = [scan EXCEPT ![s].listed = @ \ {entry}, ![s].file = entry[2],
                                ![s].pc = "silence"]
    /\ old' = [old EXCEPT ![s] = stderr]
    /\ raced' = (raced \/ \E t \in Scans \ {s} : Swapped(t))
    /\ UNCHANGED <<source, config, disk, kept, stderr, null, open, events>>

\* os.OpenFile, which may fail.
OpenNull(s) ==
    \/ null' = [null EXCEPT ![s] = s] /\ open' = open \cup {s}
    \/ null' = [null EXCEPT ![s] = Nil] /\ UNCHANGED open

Silence(s) ==
    /\ scan[s].pc = "silence"
    /\ OpenNull(s)
    /\ stderr' = IF null'[s] = Nil THEN stderr ELSE s
    /\ scan' = [scan EXCEPT ![s].pc = "options"]
    /\ UNCHANGED <<source, config, disk, kept, old, events, raced>>

\* The file x is closed, for everybody who still refers to it.
After(x, y) == IF y = x /\ x # Nil THEN Closed ELSE y

\* Mutant: what is closed is os.Stderr, in the belief that it is /dev/null.
Restore_ClosesStderr(s, saved) ==
    /\ stderr' = old[s]
    /\ open' = open \ {stderr}
    /\ old' = [t \in Scans |-> IF t = s THEN saved ELSE After(stderr, old[t])]

\* os.Stderr gets back what was read, and /dev/null is closed; oldStderr is
\* kept or goes out of scope.
Restore(s, saved) ==
    /\ stderr' = old[s]
    /\ open' = open \ {null[s]}
    /\ old' = [t \in Scans |-> IF t = s THEN saved ELSE After(null[s], old[t])]

\* Mutant: the error is returned before os.Stderr is put back.
Options_ReturnsEarly(s) ==
    /\ scan[s].pc = "options"
    /\ \/ /\ Restore(s, old[s])
          /\ null' = [null EXCEPT ![s] = After(@, @)]
          /\ scan' = [scan EXCEPT ![s].pc = "reload"]
       \/ /\ scan[s].file \notin Composes
          /\ open' = open \ {null[s]} /\ old' = [old EXCEPT ![s] = Nil]
          /\ null' = [null EXCEPT ![s] = Nil] /\ UNCHANGED stderr
          /\ scan' = [scan EXCEPT ![s].pc = "parse", ![s].file = Nil]
    /\ UNCHANGED <<source, config, disk, kept, events, raced>>

\* NewProjectOptions, which does not fail for a compose file, since the name it
\* is given is a valid one; then the end of the first silence.
Options(s) ==
    /\ scan[s].pc = "options"
    /\ \/ /\ Restore(s, old[s])
          /\ null' = [null EXCEPT ![s] = After(@, @)]
          /\ scan' = [scan EXCEPT ![s].pc = "reload"]
       \/ /\ scan[s].file \notin Composes
          /\ Restore(s, Nil)
          /\ null' = [null EXCEPT ![s] = Nil]
          /\ scan' = [scan EXCEPT ![s].pc = "parse", ![s].file = Nil]
    /\ UNCHANGED <<source, config, disk, kept, events, raced>>

\* Mutant: /dev/null is opened again, but devNull is not what is assigned.
SilenceAgain_Shadows(s) ==
    /\ scan[s].pc = "reload"
    /\ stderr' = null[s]
    /\ open' \in {open, open \cup {s}}
    /\ scan' = [scan EXCEPT ![s].pc = "load"]
    /\ UNCHANGED <<source, config, disk, kept, old, null, events, raced>>

\* os.Stderr becomes the file that was just closed, or nil; if /dev/null could
\* be opened before it is opened again, for devNull only.
SilenceAgain(s) ==
    /\ scan[s].pc = "reload"
    /\ stderr' = null[s]
    /\ IF null[s] = Nil THEN UNCHANGED <<null, open>> ELSE OpenNull(s)
    /\ scan' = [scan EXCEPT ![s].pc = "load"]
    /\ UNCHANGED <<source, config, disk, kept, old, events, raced>>

\* LoadProject, which fails for a file that is gone or broken and may fail when
\* the context is cancelled; then the end of the second silence.  A file
\* without services is not a compose file.
LoadProject(s) ==
    /\ scan[s].pc = "load"
    /\ Restore(s, Nil)
    /\ null' = [null EXCEPT ![s] = Nil]
    /\ \E loaded \in BOOLEAN :
        LET f == scan[s].file
            is == loaded /\ f \in Composes IN
        /\ ~loaded => scan[s].cancelled
        /\ kept' = IF is THEN kept \cup {f} ELSE kept
        /\ scan' = [scan EXCEPT ![s].pc = "parse", ![s].file = Nil,
                                ![s].found = IF is THEN @ \cup {f} ELSE @]
    /\ UNCHANGED <<source, config, disk, events, raced>>

-----------------------------------------------------------------------------

Step(s) ==
    \/ Begin(s) \/ EnterRoot(s) \/ Visit(s) \/ VisitCancelled(s) \/ WalkDone(s)
    \/ ParseSkips(s) \/ ParseBegins(s) \/ Silence(s) \/ Options(s) \/ SilenceAgain(s)
    \/ LoadProject(s) \/ ScanDone(s) \/ Return(s)

Next ==
    \/ Configure
    \/ \E f \in Files, kind \in Kinds : FileChanges(f, kind)
    \/ \E d \in Dirs : DirVanishes(d)
    \/ \E s \in Scans : Step(s) \/ Cancel(s)

Spec == Init /\ [][Next]_vars

-----------------------------------------------------------------------------
(* Properties. *)

ScanState ==
    [pc : {"idle", "walk", "parse", "silence", "options", "reload", "load", "done"},
     roots : SUBSET Nodes, todo : SUBSET Nodes, root : Nodes \cup {Nil},
     listed : SUBSET (Nodes \X YAML), file : YAML \cup {Nil},
     found : SUBSET YAML, cancelled : BOOLEAN,
     visited : SUBSET Nodes, touched : SUBSET Nodes, been : SUBSET Files]

TypeOK ==
    /\ source \in Sources
    /\ disk \in [dirs : SUBSET Dirs, file : [Files -> Kinds]]
    /\ config # Unset => Loads(source) /\ config = Load(source)
    /\ kept \subseteq Files
    /\ stderr \in File /\ open \subseteq Scans \cup {Stderr}
    /\ old \in [Scans -> File] /\ null \in [Scans -> File]
    /\ scan \in [Scans -> ScanState]
    /\ events \in 0..MaxEvents /\ raced \in BOOLEAN

Paths == config["paths"]

\* Directories that are not to be scanned: those in the list, and hidden ones.
Barred(d) ==
    \/ config["exclude"] # {} /\ Name[d] \in config["exclude"]
    \/ config["exclude"] = {} /\ Name[d] \in BuiltIn
    \/ Name[d] \in Hidden /\ Name[d] \notin Exempt

\* V holds the paths and what is in its directories, as far as that did not
\* change during the scan and is not excluded.
Follows(s, V) ==
    LET steady == {n \in Nodes : Exists(n) /\ n \notin scan[s].touched}
    IN  /\ Paths \cap steady \subseteq V
        /\ \A n \in steady :
              Parent[n] \in V \cap Dirs /\ ~Barred(Parent[n]) => n \in V

\* The compose files below the paths that were there from the beginning to the
\* end of the scan, and so were the directories on the way to them.
Lasting(s) ==
    {f \in YAML : /\ disk.file[f] = "compose" /\ f \notin scan[s].touched
                  /\ \A V \in SUBSET Nodes : Follows(s, V) => f \in V}

\* "Scan discovers all compose files in configured paths", whatever else is
\* written or removed meanwhile, wherever the configuration came from, however
\* the paths overlap, unless the scan is cancelled.
FindsWhatStays ==
    \A s \in Scans : scan[s].pc = "done" /\ ~scan[s].cancelled => Lasting(s) \subseteq scan[s].found

\* d is n or a directory above it.
Above(d, n) ==
    \A V \in SUBSET Nodes :
        n \in V /\ (\A m \in V : Parent[m] \in Nodes => Parent[m] \in V) => d \in V

\* What a scan reports was a compose file during the scan, and no directory
\* between it and a configured path is excluded, cancelled or not.
FindsOnlyWhatWas ==
    \A s \in Scans : \A f \in scan[s].found :
        /\ f \in scan[s].been
        /\ \E r \in Paths : Above(r, f) /\
              ~\E d \in Dirs : Barred(d) /\ Above(r, d) /\ Above(d, f)

\* Whichever of the two openings fails and wherever the parse ends, no file a
\* scan has opened on /dev/null stays open behind it.
NullIsClosed ==
    (\A s \in Scans : ~Swapped(s)) => open \subseteq {Stderr}

\* The process's own stderr is not closed by anybody.
StderrStaysOpen == Stderr \in open

\* As long as no two scans had it swapped at a time, os.Stderr is back whenever
\* no scan is in a parse.
AloneRestores ==
    ~raced /\ (\A s \in Scans : ~Swapped(s)) => stderr = Stderr

\* The same without the condition.
StderrComesBack ==
    (\A s \in Scans : ~Swapped(s)) => stderr = Stderr

\* "Priority: env vars > config file > defaults", of the keys a variable reaches.
PriorityHolds ==
    config # Unset => \A k \in Keys \ Underscored : IsPrior(source, k, config[k])
=============================================================================
