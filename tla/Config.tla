------------------------------- MODULE Config -------------------------------
(***************************************************************************)
(* internal/config/config.go: the value a key has after Load, from the     *)
(* environment, at most one file, and the defaults.                        *)
(*                                                                         *)
(* A key is a path in the Config structure, such as server.port or         *)
(* scanner.scan_interval.  What values look like does not matter here; a   *)
(* list is one value.  Paths stand for what expandPaths makes of them.     *)
(***************************************************************************)
EXTENDS Naturals, Sequences

CONSTANTS
    Keys,       \* the keys of the Config structure
    Underscored,\* those with an underscore in a name, such as data_dir
    Default,    \* defaultConfig
    Unset,      \* what a source says of a key it does not mention
    Absent,     \* a place where there is no configuration file
    Malformed   \* a file that cannot be read or parsed, a value of the wrong type

ASSUME ConfigAssumption ==
    /\ Underscored \subseteq Keys
    /\ Absent # Malformed

\* A source is what there is at the start of the process: the file named on
\* the command line (<<>> if none is), the files at the places where one is
\* looked for, in that order, and the environment.
Mentions(settings, k) == settings[k] # Unset

IsSource(source) ==
    /\ source.flag = <<>> \/ source.flag = <<Head(source.flag)>>
    /\ Len(source.places) \in Nat
    /\ source.places = [i \in 1..Len(source.places) |-> source.places[i]]

\* Mutant: the last place wins.
ConfigFile_Last(source) ==
    LET found == {i \in DOMAIN source.places : source.places[i] # Absent}
    IN  IF source.flag # <<>> THEN Head(source.flag)
        ELSE IF found = {} THEN [k \in Keys |-> Unset]
        ELSE source.places[CHOOSE i \in found : \A j \in found : i >= j]

\* findConfigFile: the first place where there is a file; the flag comes first.
ConfigFile(source) ==
    LET found == {i \in DOMAIN source.places : source.places[i] # Absent}
    IN  IF source.flag # <<>> THEN Head(source.flag)
        ELSE IF found = {} THEN [k \in Keys |-> Unset]
        ELSE source.places[CHOOSE i \in found : \A j \in found : i <= j]

\* HOLOPHYLY_A_B is the key a.b, so that no variable stands for a key with an
\* underscore: what was meant for one lands on a key that nothing reads.
Reached(env) == [k \in Keys |-> IF k \in Underscored THEN Unset ELSE env[k]]

\* Mutant: the file is loaded over the environment.
Load_FileLast(source) ==
    [k \in Keys |->
        IF Mentions(ConfigFile(source), k) THEN ConfigFile(source)[k]
        ELSE IF Mentions(Reached(source.env), k) THEN source.env[k]
        ELSE Default[k]]

\* Load: the environment over the file over the defaults.
Load(source) ==
    [k \in Keys |->
        IF Mentions(Reached(source.env), k) THEN source.env[k]
        ELSE IF Mentions(ConfigFile(source), k) THEN ConfigFile(source)[k]
        ELSE Default[k]]

\* Load fails when there is a file that cannot be loaded, or when a value that
\* would be used cannot be unmarshalled.
Loads(source) ==
    /\ ConfigFile(source) \notin {Absent, Malformed}
    /\ \A k \in Keys : Load(source)[k] # Malformed

-----------------------------------------------------------------------------

\* "Priority: env vars > config file > defaults", where the file is the one
\* that was asked for or the first that exists.
IsPrior(source, k, value) ==
    LET places == IF source.flag # <<>> THEN source.flag ELSE source.places
        says(i, v) == places[i] # Absent /\ places[i][k] = v
        first(i)   == places[i] # Absent /\ \A j \in 1..(i - 1) : places[j] = Absent
    IN  IF source.env[k] # Unset THEN value = source.env[k]
        ELSE \/ \E i \in DOMAIN places :
                    first(i) /\ Mentions(places[i], k) /\ says(i, value)
             \/ /\ \A i \in DOMAIN places : first(i) => ~Mentions(places[i], k)
                /\ value = Default[k]
=============================================================================
