----------------------------- MODULE MCServer -----------------------------
(* Model checking of Server: two requests, and a daemon that has a running   *)
(* and a stopped container, an image of each and one of none, two volumes of *)
(* which one has no known size, and two entries of build cache of which one  *)
(* is in use.  The stopped container's image shares a layer with each of the *)
(* others: one that must stay, and one that both lose together.              *)
EXTENDS Server

MCItems == {"app", "app image", "old", "old image", "spare image", "base", "stem",
            "volume", "remote", "cache", "build"}
MCKind == [i \in MCItems |->
    CASE i \in {"app", "old"}             -> "container"
      [] i \in {"app image", "old image", "spare image"} -> "image"
      [] i \in {"base", "stem"}           -> "layer"
      [] i \in {"volume", "remote"}       -> "volume"
      [] OTHER                            -> "cache"]
MCBytes == [i \in MCItems |->
    CASE i = "remote" -> -1 [] i = "stem" -> 2 [] i = "cache" -> 3
      [] i = "base" -> 4 [] i = "build" -> 5 [] MCKind[i] = "image" -> 0 [] OTHER -> 1]
MCUsedBy == [i \in MCItems |->
    CASE i \in {"app image", "remote"} -> {"app"} [] i = "old image" -> {"old"}
      [] i = "base" -> {"app image", "old image"} [] i = "stem" -> {"old image", "spare image"}
      [] OTHER -> {}]

Body(i, v, c, ok) == [images |-> i, volumes |-> v, cache |-> c, readable |-> ok]

\* Volumes only, and two that cannot be decoded: the first stands for what the
\* page asks for, the second had named volumes before the error.
MCBodies == { Body(FALSE, TRUE, FALSE, TRUE), Body(FALSE, FALSE, FALSE, FALSE),
              Body(FALSE, TRUE, FALSE, FALSE) }

\* The other two kinds, "map" and "system", do nothing that one of these does
\* not do as well.
MCKinds == {"prefer", "stats", "list", "compose", "storage", "socket", "prune"}
=============================================================================
