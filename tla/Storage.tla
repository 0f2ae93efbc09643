------------------------------ MODULE Storage ------------------------------
(***************************************************************************)
(* internal/docker/system.go: what GetStorageInfo makes of the daemon's    *)
(* disk usage, and which calls Prune makes.                                *)
(***************************************************************************)
EXTENDS Integers, Sequences, FiniteSets, FiniteSetsExt, SequencesExt

CONSTANTS
    Items,      \* what the daemon may keep on its disk
    Kind,       \* "container", "image", "layer", "volume", "cache" or "network"
    Bytes,      \* the space an item takes, -1 if the daemon does not know it
    UsedBy,     \* the containers that use an item, or the images that share a layer
    Busy,       \* running containers, and what is in use for other reasons
    Word        \* 2^64

PruneKinds == {"container", "image", "volume", "cache", "network"}

\* What a prune request says: three flags, and whether the body can be decoded.
\* It cannot be if it is missing, cut off, late or of the wrong shape; flags
\* decoded before the error keep their value.
PruneBody == [images : BOOLEAN, volumes : BOOLEAN, cache : BOOLEAN, readable : BOOLEAN]

ASSUME StorageAssumption ==
    /\ IsFiniteSet(Items) /\ Busy \subseteq Items
    /\ Kind \in [Items -> PruneKinds \cup {"layer"}]
    /\ Bytes \in [Items -> Int]
    /\ UsedBy \in [Items -> SUBSET Items]
    /\ Word \in Nat \ {0}

\* Of the daemon: only the size of a volume can be unknown, a network takes no
\* space and an image none beside its layers, which images may share.  The other
\* items share nothing; a container makes no use of containers or of the cache.
ASSUME DaemonAssumption ==
    \A i \in Items :
        /\ Bytes[i] < 0 => Bytes[i] = -1 /\ Kind[i] = "volume"
        /\ Kind[i] \in {"image", "network"} => Bytes[i] = 0
        /\ Kind[i] \in {"container", "cache"} => UsedBy[i] = {}
        /\ \A u \in UsedBy[i] :
               Kind[u] = IF Kind[i] = "layer" THEN "image" ELSE "container"

Of(kind, disk) == {i \in disk : Kind[i] = kind}
InUse(i, disk) == i \in Busy \/ UsedBy[i] \cap disk # {}

SumOf(weight, S) == MapThenSumSet(LAMBDA i : weight[i], S)

\* What the daemon lists, and the sizes it gives: a layer is no entry of its own,
\* and counts in full with every image that has it.
Listed(disk) == disk \ Of("layer", disk)
Layers(i) == {l \in Of("layer", Items) : i \in UsedBy[l]}
Size == [i \in Items |-> IF Kind[i] = "image" THEN SumOf(Bytes, Layers(i)) ELSE Bytes[i]]

\* Mutant: sizes are added as they come.
Sum64_Signed(S) == SumOf(Size, S)

\* The sum of sizes, as the daemon reports them, in uint64.
Sum64(S) == SumOf(Size, S) % Word

-----------------------------------------------------------------------------

\* What counts as reclaimable: all of the build cache, in use or not, and the
\* images of which no container is left, running or not.
Offered(disk) ==
    Of("cache", disk) \cup {i \in Of("image", disk) : UsedBy[i] \cap disk = {}}

\* Mutant: images that are in use count.
StorageInfo_AllImages(disk) ==
    [volumes     |-> Sum64(Of("volume", disk)),
     total       |-> Sum64(Listed(disk)),
     reclaimable |-> Sum64(Of("cache", disk) \cup Of("image", disk))]

\* Mutant: the size of the build cache is forgotten in the total.
StorageInfo_NoCache(disk) ==
    [volumes     |-> Sum64(Of("volume", disk)),
     total       |-> Sum64(Listed(disk) \ Of("cache", disk)),
     reclaimable |-> Sum64(Offered(disk))]

\* GetStorageInfo.  The sizes of images, containers and the cache are summed
\* like that of the volumes; networks have none.
StorageInfo(disk) ==
    [volumes     |-> Sum64(Of("volume", disk)),
     total       |-> Sum64(Listed(disk)),
     reclaimable |-> Sum64(Offered(disk))]

\* Mutant: a body that cannot be decoded stands for everything.
Asked_Everything(body) == IF body.readable
    THEN {"container", "network"} \cup {k \in {"image"} : body.images}
            \cup {k \in {"volume"} : body.volumes} \cup {k \in {"cache"} : body.cache}
    ELSE PruneKinds

\* Handler.Prune: images and the build cache by default.
Asked(body) ==
    {"container", "network"}
        \cup {k \in {"image"} : body.images \/ ~body.readable}
        \cup {k \in {"volume"} : body.volumes}
        \cup {k \in {"cache"} : body.cache \/ ~body.readable}

\* Client.Prune: its calls, in their order.
PruneCalls(body) ==
    LET call(k) == IF k \in Asked(body) THEN <<k>> ELSE <<>>
    IN  <<"container">> \o call("image") \o call("volume") \o call("cache") \o <<"network">>

\* What the daemon removes: with images, the layers that no other image has.
Prunable(kind, disk) == {i \in Of(kind, disk) : ~InUse(i, disk)}
Freeable(images, disk) ==
    {l \in Of("layer", disk) : UsedBy[l] \cap images # {} /\ UsedBy[l] \cap disk \subseteq images}
Removed(kind, disk) ==
    LET gone == Prunable(kind, disk) IN gone \cup Freeable(gone, disk)

\* The space that it says it has reclaimed, and what items are worth by the sizes
\* that it gives; an unknown size is none.
Known(weight) == [i \in Items |-> IF weight[i] = -1 THEN 0 ELSE weight[i]]
Freed == Known(Bytes)
Worths == Known(Size)
Reclaimed(S) == SumOf(Freed, S)
Worth(S) == SumOf(Worths, S)
=============================================================================
