----------------------------- MODULE MCScanner -----------------------------
(* Model checking of Scanner: a directory of projects, with a directory that *)
(* has a compose file, one that has one but is not scanned, and an empty one *)
(* that may vanish.                                                          *)
EXTENDS Scanner, TLC

MCKeys == {"paths", "exclude", "scan_interval"}
MCDefault == [paths |-> {"projects"}, exclude |-> {"vendor"}, scan_interval |-> 30]
MCDirs == {"projects", "app", "old", "empty"}
MCFiles == {"app/compose.yml", "old/compose.yml"}
MCParent == [n \in MCDirs \cup MCFiles |->
    CASE n = "projects"           -> Nil
      [] n = "app/compose.yml"    -> "app"
      [] n = "old/compose.yml"    -> "old"
      [] OTHER                    -> "projects"]
MCName == [d \in MCDirs |->
    CASE d = "app" -> ".docker" [] d = "old" -> ".old" [] OTHER -> d]

Nothing == [k \in MCKeys |-> Unset]

\* A configuration file that narrows the scan to one directory, and an
\* environment that widens it to two that overlap.
Narrow == [Nothing EXCEPT !["paths"] = {"app"}, !["exclude"] = {}, !["scan_interval"] = 60]
Wide == [Nothing EXCEPT !["paths"] = {"projects", "app"}, !["scan_interval"] = 10]

MCSources ==
    { [flag |-> <<>>, places |-> <<Absent, Absent>>, env |-> Nothing],
      [flag |-> <<>>, places |-> <<Absent, Narrow>>, env |-> Wide],
      [flag |-> <<>>, places |-> <<Narrow, [Narrow EXCEPT !["paths"] = {"old"}]>>, env |-> Nothing],
      [flag |-> <<Malformed>>, places |-> <<Narrow, Absent>>, env |-> Nothing],
      [flag |-> <<>>, env |-> Wide,
       places |-> <<[Narrow EXCEPT !["scan_interval"] = Malformed], Absent>>] }

ScanSymmetry == Permutations(Scans)
=============================================================================
