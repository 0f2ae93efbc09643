----------------------------- MODULE Catalogue -----------------------------
(***************************************************************************)
(* What the manager's map of projects is to those who use it, without      *)
(* pointers, caches or goroutines: independent entries.  A refresh may     *)
(* replace them all, but takes no protection away; a user sets one field   *)
(* of one entry; a compose command changes the containers of one entry;    *)
(* the end of the process loses everything.                                *)
(***************************************************************************)
CONSTANTS
    Files,
    Entry,      \* records with at least prot, hidden, named and conts
    Container,
    Infra,      \* the containers that are infrastructure
    Always      \* the files that are protected by configuration

VARIABLE entry  \* a function on the files that are listed

Init == entry \in [{} -> Entry]

Refresh ==
    /\ \E F \in SUBSET Files : entry' \in [F -> Entry]
    /\ \A f \in DOMAIN entry' :
          (\/ f \in Always
           \/ entry'[f].conts \cap Infra # {}
           \/ f \in DOMAIN entry /\ entry[f].prot) => entry'[f].prot

Set(f) ==
    \E b \in BOOLEAN : \/ entry' = [entry EXCEPT ![f].prot = b]
                       \/ entry' = [entry EXCEPT ![f].hidden = b]
                       \/ entry' = [entry EXCEPT ![f].named = b]

Relist(f) == \E c \in SUBSET Container : entry' = [entry EXCEPT ![f].conts = c]

Lose == entry' \in [{} -> Entry]

Next == Refresh \/ Lose \/ \E f \in DOMAIN entry : Set(f) \/ Relist(f)

Spec == Init /\ [][Next]_entry
=============================================================================
