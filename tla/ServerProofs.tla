---------------------------- MODULE ServerProofs ----------------------------
(* What holds of Server for any number of requests and any disk, proved.     *)
EXTENDS Server, StorageProofs

\* The steps of a request that is not a prune.
Plain == {"call", "usage", "peek", "sample", "save", "compose", "upgrade"}

\* What a request has left to do is of its kind.
Todo(q) == q.todo \in Seq(IF q.kind = "prune" THEN Asked(q.body) ELSE Plain)
\* A layer goes with its images.
Owner(i) == IF Kind[i] = "layer" THEN "image" ELSE Kind[i]
\* What it removed was asked for, and it has added it up.
Did(q) == /\ \A i \in q.freed : Owner(i) \in Asked(q.body)
          /\ q.reclaimed = Reclaimed(q.freed)
\* The sizes it would report are of one disk.
Read(q) == q.kind # "prune" => q.info = StorageInfo(q.seen)

Sound(q) == q \in RequestState /\ Todo(q) /\ Did(q) /\ Read(q)

\* What one request freed is gone, so that no other frees it again.
DInv == /\ disk \subseteq Items
        /\ req \in [Requests -> RequestState]
        /\ \A r \in Requests : Sound(req[r]) /\ req[r].freed \cap disk = {}

LEMMA AskedIsPruned == \A b : Asked(b) \subseteq PruneKinds
  BY DEF Asked, PruneKinds

LEMMA PruneCallsType == ASSUME NEW b PROVE PruneCalls(b) \in Seq(Asked(b))
<1> DEFINE call(k) == IF k \in Asked(b) THEN <<k>> ELSE <<>>
<1>1. "container" \in Asked(b) /\ "network" \in Asked(b)
  BY DEF Asked
<1>2. \A k : call(k) \in Seq(Asked(b))
  OBVIOUS
<1>3. <<"container">> \in Seq(Asked(b)) /\ <<"network">> \in Seq(Asked(b))
  BY <1>1
<1>4. PruneCalls(b) = <<"container">> \o call("image") \o call("volume") \o call("cache")
                        \o <<"network">>
  BY DEF PruneCalls
<1> HIDE DEF call
<1> QED
  BY <1>2, <1>3, <1>4

LEMMA ProgramsType == \A k \in DOMAIN Programs : Programs[k] \in Seq(Plain)
<1>1. \A k \in DOMAIN Programs : Programs[k] \in {<<>>, <<"save">>, <<"call">>, <<"usage">>,
                                                  <<"compose", "call">>, <<"peek", "sample">>,
                                                  <<"upgrade">>}
  BY DEF Programs
<1>2. /\ <<>> \in Seq(Plain) /\ <<"save">> \in Seq(Plain) /\ <<"call">> \in Seq(Plain)
      /\ <<"usage">> \in Seq(Plain) /\ <<"compose", "call">> \in Seq(Plain)
      /\ <<"peek", "sample">> \in Seq(Plain) /\ <<"upgrade">> \in Seq(Plain)
  BY DEF Plain
<1> QED
  BY <1>1, <1>2

Steps == DaemonSteps \cup {"peek", "sample", "save", "compose", "upgrade"}

LEMMA TodoType ==
    /\ Plain \subseteq Steps /\ \A b : Asked(b) \subseteq Steps
    /\ \A q \in RequestState : q.todo \in Seq(Steps)
  BY AskedIsPruned DEF Plain, Steps, DaemonSteps, RequestState

LEMMA NothingIsSound == Sound(Nothing) /\ Nothing.freed = {} /\ Nothing.kind = "map"
<1>1. StorageInfo({}) \in [volumes : 0..(Word - 1), total : 0..(Word - 1),
                           reclaimable : 0..(Word - 1)]
  BY StorageInfoType
<1>2. (CHOOSE b \in Bodies : TRUE) \in Bodies
  BY ServerAssumption
<1> DEFINE info == StorageInfo({})
           body == CHOOSE b \in Bodies : TRUE
           q == [pc |-> "none", kind |-> "map", body |-> body,
                 todo |-> <<>>, status |-> 0, reclaimed |-> 0, info |-> info,
                 late |-> FALSE, seen |-> {}, freed |-> {}]
<1>3. Nothing = q
  BY DEF Nothing
<1>4. q.info = StorageInfo(q.seen)
  OBVIOUS
<1> HIDE DEF info, body
<1>5. q \in RequestState
  BY <1>1, <1>2 DEF RequestState, info, body
<1>6. Todo(q) /\ Did(q) /\ Read(q)
  BY <1>4, ReclaimedOfNone DEF Todo, Did, Read
<1> QED
  BY <1>3, <1>5, <1>6 DEF Sound

LEMMA ServerDiskInit == Init => DInv
<1> SUFFICES ASSUME Init PROVE DInv
  OBVIOUS
<1>1. \A r \in Requests : req[r] = Nothing
  BY DEF Init
<1>2. disk = Items /\ req = [r \in Requests |-> Nothing]
  BY DEF Init
<1> QED
  BY <1>1, <1>2, NothingIsSound DEF DInv, Sound

\* A step of one request.
LEMMA OneRequest ==
    ASSUME DInv, NEW r \in Requests, NEW new, Sound(new), req' = [req EXCEPT ![r] = new],
           disk' \subseteq disk, new.freed \cap disk' = {}
    PROVE  DInv'
<1>1. req' \in [Requests -> RequestState]
  BY DEF DInv, Sound
<1>2. \A t \in Requests : Sound(req'[t]) /\ req'[t].freed \cap disk' = {}
  BY DEF DInv
<1>3. \A t \in Requests : Sound(req[t])'
  BY <1>2 DEF Sound, Todo, Did, Read
<1> QED
  BY <1>1, <1>2, <1>3 DEF DInv

\* A request that goes on without having removed or read anything.
LEMMA Advances ==
    ASSUME NEW q, Sound(q), NEW new \in RequestState,
           new.kind = q.kind, new.body = q.body,
           \/ new.todo = q.todo \/ new.todo = <<>>
           \/ q.todo # <<>> /\ new.todo = Tail(q.todo),
           new.freed = q.freed, new.reclaimed = q.reclaimed, new.info = q.info,
           q.kind = "prune" \/ new.seen = q.seen
    PROVE  Sound(new)
<1> DEFINE own == IF q.kind = "prune" THEN Asked(q.body) ELSE Plain
<1>1. q.todo \in Seq(own)
  BY DEF Sound, Todo
<1> HIDE DEF own
<1>2. new.todo \in Seq(own)
  <2>1. CASE q.todo # <<>> /\ new.todo = Tail(q.todo)
    <3> DEFINE t == q.todo
    <3>1. t \in Seq(own) /\ t # <<>> /\ new.todo = Tail(t)
      BY <1>1, <2>1
    <3> HIDE DEF t
    <3>2. Tail(t) \in Seq(own)
      BY <3>1
    <3> QED
      BY <3>1, <3>2
  <2>2. <<>> \in Seq(own)
    OBVIOUS
  <2> QED
    BY <1>1, <2>1, <2>2
<1>3. Todo(new)
  BY <1>2 DEF own, Todo
<1>4. Did(new) /\ Read(new)
  BY DEF Sound, Did, Read
<1> QED
  BY <1>3, <1>4 DEF Sound

\* The two ends of a step.
LEMMA SucceedsType ==
    ASSUME DInv, NEW r \in Requests, req[r].todo # <<>>
    PROVE  LET new == Succeeds(r) IN
           /\ new \in RequestState /\ new.todo = Tail(req[r].todo)
           /\ new.kind = req[r].kind /\ new.body = req[r].body /\ new.pc = req[r].pc
           /\ new.freed = req[r].freed /\ new.reclaimed = req[r].reclaimed
           /\ new.info = req[r].info /\ new.seen = req[r].seen
           /\ new.late = req[r].late /\ new.status = req[r].status
<1> DEFINE q == req[r]
           rest == Tail(q.todo)
           new == [q EXCEPT !.todo = rest]
<1>1. q \in RequestState
  BY DEF DInv
<1>2. Succeeds(r) = new
  BY DEF Succeeds
<1>3. q.todo \in Seq(Steps)
  BY <1>1, TodoType
<1>4. rest \in Seq(Steps)
  BY <1>3
<1> HIDE DEF rest, q
<1>5. new \in RequestState
  BY <1>1, <1>4 DEF RequestState, Steps
<1>6. /\ new.todo = rest
      /\ new.kind = q.kind /\ new.body = q.body /\ new.pc = q.pc
      /\ new.freed = q.freed /\ new.reclaimed = q.reclaimed
      /\ new.info = q.info /\ new.seen = q.seen
      /\ new.late = q.late /\ new.status = q.status
  BY <1>1 DEF RequestState
<1> HIDE DEF new
<1> QED
  BY <1>2, <1>5, <1>6 DEF q, rest

LEMMA FailsType ==
    ASSUME DInv, NEW r \in Requests, NEW status \in {404, 500}
    PROVE  LET new == Fails(r, status) IN
           /\ new \in RequestState /\ new.todo = <<>>
           /\ new.kind = req[r].kind /\ new.body = req[r].body /\ new.pc = req[r].pc
           /\ new.freed = req[r].freed /\ new.reclaimed = req[r].reclaimed
           /\ new.info = req[r].info /\ new.seen = req[r].seen
           /\ new.late = req[r].late
<1> DEFINE q == req[r]
           said == IF q.kind = "list" THEN q.status ELSE status
           new == [q EXCEPT !.todo = <<>>, !.status = said]
<1>1. q \in RequestState
  BY DEF DInv
<1>2. Fails(r, status) = new
  BY <1>1 DEF Fails, RequestState
<1>3. said \in {0, 101, 200, 400, 404, 500}
  BY <1>1 DEF RequestState
<1> HIDE DEF said, q
<1>4. new \in RequestState
  <2> DEFINE ended == [q EXCEPT !.todo = <<>>]
             again == [ended EXCEPT !.status = said]
  <2>1. <<>> \in Seq(Steps)
    OBVIOUS
  <2>2. ended \in RequestState
    BY <1>1, <2>1 DEF RequestState, Steps
  <2>3. again = new
    BY <1>1 DEF RequestState
  <2> HIDE DEF ended
  <2>4. again \in RequestState
    BY <1>3, <2>2 DEF RequestState
  <2> QED
    BY <2>3, <2>4
<1>5. /\ new.todo = <<>>
      /\ new.kind = q.kind /\ new.body = q.body /\ new.pc = q.pc
      /\ new.freed = q.freed /\ new.reclaimed = q.reclaimed
      /\ new.info = q.info /\ new.seen = q.seen /\ new.late = q.late
  BY <1>1 DEF RequestState
<1> HIDE DEF new
<1> QED
  BY <1>2, <1>4, <1>5 DEF q

\* A step of one request that removes nothing.
LEMMA OneAdvances ==
    ASSUME DInv, NEW r \in Requests, NEW new \in RequestState,
           req' = [req EXCEPT ![r] = new], UNCHANGED disk,
           new.kind = req[r].kind, new.body = req[r].body,
           \/ new.todo = req[r].todo \/ new.todo = <<>>
           \/ req[r].todo # <<>> /\ new.todo = Tail(req[r].todo),
           new.freed = req[r].freed, new.reclaimed = req[r].reclaimed,
           new.info = req[r].info, req[r].kind = "prune" \/ new.seen = req[r].seen
    PROVE  DInv'
<1>1. Sound(req[r]) /\ req[r].freed \cap disk = {}
  BY DEF DInv
<1>2. Sound(new)
  BY <1>1, Advances
<1> QED
  BY <1>1, <1>2, OneRequest

LEMMA ArriveDisk == ASSUME DInv, NEW r \in Requests, Arrive(r) PROVE DInv'
<1>1. PICK k \in Kinds, b \in Bodies :
          req' = [req EXCEPT ![r] = [Nothing EXCEPT !.pc = "handler", !.kind = k, !.body = b,
                     !.todo = IF k = "prune" THEN PruneCalls(b) ELSE Programs[k]]]
  BY DEF Arrive
<1> DEFINE calls == IF k = "prune" THEN PruneCalls(b) ELSE Programs[k]
           new == [Nothing EXCEPT !.pc = "handler", !.kind = k, !.body = b, !.todo = calls]
<1>2. calls \in Seq(IF k = "prune" THEN Asked(b) ELSE Plain)
  BY PruneCallsType, ProgramsType, ServerAssumption
<1>3. calls \in Seq(Steps)
  BY <1>2, TodoType
<1>4. req' = [req EXCEPT ![r] = new]
  BY <1>1
<1> DEFINE none == Nothing
<1>5. none \in RequestState /\ Sound(none) /\ none.freed = {} /\ none.kind = "map"
  BY NothingIsSound DEF Sound
<1> HIDE DEF calls, none
<1>6. none.info = StorageInfo(none.seen) /\ none.reclaimed = Reclaimed(none.freed)
  BY <1>5 DEF Sound, Read, Did
<1> DEFINE next == [none EXCEPT !.pc = "handler", !.kind = k, !.body = b, !.todo = calls]
<1>7. new = next
  BY DEF none
<1>8. next \in RequestState
  BY <1>3, <1>5 DEF RequestState, Steps
<1>9. /\ next.kind = k /\ next.body = b /\ next.todo = calls
      /\ next.freed = none.freed /\ next.reclaimed = none.reclaimed
      /\ next.info = none.info /\ next.seen = none.seen
  BY <1>5 DEF RequestState
<1> HIDE DEF next, new
<1>10. Sound(next) /\ next.freed = {}
  BY <1>2, <1>5, <1>6, <1>8, <1>9 DEF Sound, Todo, Did, Read
<1>11. disk' = disk
  BY DEF Arrive
<1> QED
  BY <1>4, <1>7, <1>10, <1>11, OneRequest

LEMMA LockDisk == ASSUME DInv, NEW r \in Requests, Lock(r) PROVE DInv'
<1>1. UNCHANGED disk /\ req[r] \in RequestState /\ disk \subseteq Items
  BY DEF Lock, DInv
<1>2. CASE req[r].kind = "prune"
  <2> DEFINE q == req[r]
             new == [q EXCEPT !.seen = disk]
  <2>1. req' = [req EXCEPT ![r] = new]
    BY <1>2 DEF Lock
  <2>2. q \in RequestState
    BY <1>1
  <2> HIDE DEF q
  <2>3. new \in RequestState
    <3>1. disk \in SUBSET Items
      BY <1>1
    <3> QED
      BY <2>2, <3>1 DEF RequestState
  <2>4. /\ new.kind = q.kind /\ new.body = q.body /\ new.todo = q.todo
        /\ new.freed = q.freed /\ new.reclaimed = q.reclaimed /\ new.info = q.info
    BY <2>2 DEF RequestState
  <2> HIDE DEF new
  <2> QED
    BY <1>1, <1>2, <2>1, <2>3, <2>4, OneAdvances DEF q
<1>3. CASE req[r].kind # "prune"
  <2>1. UNCHANGED req
    BY <1>3 DEF Lock
  <2> QED
    BY <1>1, <2>1 DEF DInv, Sound, Todo, Did, Read
<1> QED
  BY <1>2, <1>3

LEMMA FailsDisk ==
    ASSUME DInv, NEW r \in Requests, NEW status \in {404, 500}, UNCHANGED disk,
           req' = [req EXCEPT ![r] = Fails(r, status)]
    PROVE  DInv'
<1> DEFINE new == Fails(r, status)
<1>1. /\ new \in RequestState /\ new.todo = <<>>
      /\ new.kind = req[r].kind /\ new.body = req[r].body
      /\ new.freed = req[r].freed /\ new.reclaimed = req[r].reclaimed
      /\ new.info = req[r].info /\ new.seen = req[r].seen
  BY FailsType
<1> HIDE DEF new
<1> QED
  BY <1>1, OneAdvances DEF new

LEMMA SucceedsDisk ==
    ASSUME DInv, NEW r \in Requests, req[r].todo # <<>>, UNCHANGED disk,
           req' = [req EXCEPT ![r] = Succeeds(r)]
    PROVE  DInv'
<1> DEFINE new == Succeeds(r)
<1>1. /\ new \in RequestState /\ new.todo = Tail(req[r].todo)
      /\ new.kind = req[r].kind /\ new.body = req[r].body
      /\ new.freed = req[r].freed /\ new.reclaimed = req[r].reclaimed
      /\ new.info = req[r].info /\ new.seen = req[r].seen
  BY SucceedsType
<1> HIDE DEF new
<1> QED
  BY <1>1, OneAdvances DEF new

LEMMA AnswerDisk == ASSUME DInv, NEW r \in Requests, Answer(r) PROVE DInv'
<1>1. UNCHANGED disk /\ req[r].todo # <<>>
  BY DEF Answer, At
<1>2. CASE req' = [req EXCEPT ![r] = Fails(r, 500)]
  <2>1. PICK status \in {404, 500} : req' = [req EXCEPT ![r] = Fails(r, status)]
    BY <1>2
  <2> QED
    BY <1>1, <1>2, <2>1, FailsDisk
<1>3. CASE req' = [req EXCEPT ![r] = Succeeds(r)]
  BY <1>1, <1>3, SucceedsDisk
<1>4. CASE /\ Head(req[r].todo) = "usage"
           /\ req' = [req EXCEPT ![r] =
                         [Succeeds(r) EXCEPT !.seen = disk, !.info = StorageInfo(disk)]]
  <2> DEFINE q == req[r]
             on == Succeeds(r)
             info == StorageInfo(disk)
             new == [on EXCEPT !.seen = disk, !.info = info]
  <2>1. /\ on \in RequestState /\ on.todo = Tail(q.todo)
        /\ on.kind = q.kind /\ on.body = q.body
        /\ on.freed = q.freed /\ on.reclaimed = q.reclaimed
    BY <1>1, SucceedsType
  <2>2. Sound(q) /\ q.freed \cap disk = {} /\ disk \in SUBSET Items
    BY DEF DInv
  <2>3. info \in [volumes : 0..(Word - 1), total : 0..(Word - 1), reclaimable : 0..(Word - 1)]
    BY <2>2, StorageInfoType
  <2>4. req' = [req EXCEPT ![r] = new]
    BY <1>4
  <2> HIDE DEF on, info, q
  <2>5. new \in RequestState
    <3> DEFINE saw == [on EXCEPT !.seen = disk]
               again == [saw EXCEPT !.info = info]
    <3>1. saw \in RequestState
      BY <2>1, <2>2 DEF RequestState
    <3>2. again = new
      BY <2>1 DEF RequestState
    <3> HIDE DEF saw
    <3>3. again \in RequestState
      BY <2>3, <3>1 DEF RequestState
    <3> QED
      BY <3>2, <3>3
  <2>6. /\ new.todo = on.todo /\ new.kind = on.kind /\ new.body = on.body
        /\ new.freed = on.freed /\ new.reclaimed = on.reclaimed
        /\ new.info = info /\ new.seen = disk
    BY <2>1 DEF RequestState
  <2> HIDE DEF new
  <2>7. Todo(new)
    <3> DEFINE own == IF q.kind = "prune" THEN Asked(q.body) ELSE Plain
               todo == q.todo
    <3>1. todo \in Seq(own) /\ todo # <<>>
      BY <1>1, <2>2 DEF Sound, Todo, q
    <3> HIDE DEF own, todo
    <3>2. Tail(todo) \in Seq(own)
      BY <3>1
    <3> QED
      BY <2>1, <2>6, <3>2 DEF Todo, own, todo
  <2>8. Did(new) /\ Read(new)
    BY <2>1, <2>2, <2>6 DEF Sound, Did, Read, info
  <2>9. Sound(new) /\ new.freed \cap disk' = {} /\ disk' \subseteq disk
    BY <1>1, <2>1, <2>2, <2>5, <2>6, <2>7, <2>8 DEF Sound
  <2> QED
    BY <2>4, <2>9, OneRequest
<1> QED
  BY <1>2, <1>3, <1>4 DEF Answer

\* What a call removes is of its kind, or layers of the images it removes.
LEMMA OnlyImagesHaveLayers ==
    ASSUME NEW left \in SUBSET Items, NEW k \in PruneKinds, NEW gone \in SUBSET Of(k, left),
           k # "image"
    PROVE  Freeable(gone, left) = {}
  BY DaemonAssumption DEF Freeable, Of

LEMMA RemovedKind ==
    ASSUME NEW left \in SUBSET Items, NEW k \in PruneKinds
    PROVE  Removed(k, left) \subseteq left /\ \A i \in Removed(k, left) : Owner(i) = k
<1>1. Prunable(k, left) \in SUBSET Of(k, left)
  BY DEF Prunable
<1>2. ASSUME NEW i \in Prunable(k, left) PROVE i \in left /\ Owner(i) = k
  BY <1>1 DEF Of, Owner, PruneKinds
<1>3. ASSUME NEW i \in Freeable(Prunable(k, left), left) PROVE i \in left /\ Owner(i) = k
  <2>1. i \in left /\ Kind[i] = "layer"
    BY DEF Freeable, Of
  <2>2. k = "image"
    BY <1>1, OnlyImagesHaveLayers
  <2> QED
    BY <2>1, <2>2 DEF Owner
<1> QED
  BY <1>2, <1>3 DEF Removed

LEMMA PruneDisk == ASSUME DInv, NEW r \in Requests, Prune(r) PROVE DInv'
<1>1. req[r].todo # <<>> /\ Head(req[r].todo) \in PruneKinds
  BY DEF Prune, At
<1>2. CASE req' = [req EXCEPT ![r] = Fails(r, 500)] /\ UNCHANGED disk
  <2>1. PICK status \in {404, 500} : req' = [req EXCEPT ![r] = Fails(r, status)]
    BY <1>2
  <2> QED
    BY <1>2, <2>1, FailsDisk
<1>3. CASE LET gone == Removed(Head(req[r].todo), disk) IN
           /\ disk' = disk \ gone
           /\ req' = [req EXCEPT ![r] = [Succeeds(r) EXCEPT
                         !.freed = @ \cup gone, !.reclaimed = @ + Reclaimed(gone)]]
  <2> DEFINE q == req[r]
             on == Succeeds(r)
             gone == Removed(Head(q.todo), disk)
             all == q.freed \cup gone
             sum == q.reclaimed + Reclaimed(gone)
             new == [on EXCEPT !.freed = all, !.reclaimed = sum]
  <2>1. /\ on \in RequestState /\ on.todo = Tail(q.todo)
        /\ on.kind = q.kind /\ on.body = q.body
        /\ on.freed = q.freed /\ on.reclaimed = q.reclaimed
        /\ on.info = q.info /\ on.seen = q.seen
    BY <1>1, SucceedsType
  <2>2. Sound(q) /\ q.freed \cap disk = {} /\ disk \in SUBSET Items /\ q.freed \in SUBSET Items
    BY DEF DInv, RequestState
  <2>3. gone \subseteq disk /\ \A i \in gone : Owner(i) = Head(q.todo)
    BY <1>1, <2>2, RemovedKind
  <2>4. disk' = disk \ gone /\ req' = [req EXCEPT ![r] = new]
    <3>1. disk' = disk \ gone /\ req' = [req EXCEPT ![r] = [on EXCEPT
              !.freed = on.freed \cup gone, !.reclaimed = on.reclaimed + Reclaimed(gone)]]
      <4> HIDE DEF gone
      <4>1. disk' = disk \ gone /\ req' = [req EXCEPT ![r] = [on EXCEPT
                !.freed = @ \cup gone, !.reclaimed = @ + Reclaimed(gone)]]
        BY <1>3 DEF gone
      <4> HIDE DEF on
      <4> QED
        BY <2>1, <4>1 DEF RequestState
    <3> QED
      BY <2>1, <3>1
  <2>5. sum = Reclaimed(all) /\ sum \in Nat /\ all \in SUBSET Items
    <3>1. q.reclaimed = Reclaimed(q.freed)
      BY <2>2 DEF Sound, Did
    <3>2. q.freed \cap gone = {} /\ gone \in SUBSET Items
      BY <2>2, <2>3
    <3>3. Reclaimed(all) = Reclaimed(q.freed) + Reclaimed(gone)
      BY <2>2, <3>2, ReclaimedOfBoth
    <3>4. all \in SUBSET Items
      BY <2>2, <3>2
    <3>5. Reclaimed(all) \in Nat
      BY <3>4, ReclaimedType
    <3> QED
      BY <3>1, <3>3, <3>4, <3>5
  <2> HIDE DEF on, gone, all, sum, q
  <2>6. new \in RequestState
    <3> DEFINE freeing == [on EXCEPT !.freed = all]
               again == [freeing EXCEPT !.reclaimed = sum]
    <3>1. freeing \in RequestState
      BY <2>1, <2>5 DEF RequestState
    <3>2. again = new
      BY <2>1 DEF RequestState
    <3> HIDE DEF freeing
    <3>3. again \in RequestState
      BY <2>5, <3>1 DEF RequestState
    <3> QED
      BY <3>2, <3>3
  <2>7. /\ new.todo = on.todo /\ new.kind = on.kind /\ new.body = on.body
        /\ new.freed = all /\ new.reclaimed = sum
        /\ new.info = on.info /\ new.seen = on.seen
    BY <2>1 DEF RequestState
  <2> HIDE DEF new
  <2>8. Todo(new) /\ Head(q.todo) \in Asked(q.body)
    <3> DEFINE own == IF q.kind = "prune" THEN Asked(q.body) ELSE Plain
               todo == q.todo
    <3>1. todo \in Seq(own) /\ todo # <<>> /\ Head(todo) \in PruneKinds
      BY <1>1, <2>2 DEF Sound, Todo, q
    <3>2. PruneKinds \cap Plain = {}
      BY DEF PruneKinds, Plain
    <3> HIDE DEF own, todo
    <3>3. Tail(todo) \in Seq(own) /\ Head(todo) \in own
      BY <3>1
    <3>4. own = Asked(q.body)
      BY <3>1, <3>2, <3>3 DEF own
    <3> QED
      BY <2>1, <2>7, <3>3, <3>4 DEF Todo, own, todo
  <2>9. Did(new) /\ Read(new)
    <3>1. \A i \in all : Owner(i) \in Asked(q.body)
      BY <2>2, <2>3, <2>8 DEF Sound, Did, all
    <3> QED
      BY <2>1, <2>2, <2>5, <2>7, <3>1 DEF Sound, Did, Read
  <2>10. new.freed \cap disk' = {} /\ disk' \subseteq disk
    BY <2>2, <2>4, <2>7 DEF all
  <2> QED
    BY <2>4, <2>6, <2>8, <2>9, <2>10, OneRequest DEF Sound
<1> QED
  BY <1>2, <1>3 DEF Prune

LEMMA StatsDisk == ASSUME DInv, NEW r \in Requests, Peek(r) \/ Sample(r) PROVE DInv'
<1>1. UNCHANGED disk /\ req[r].todo # <<>> /\ req' = [req EXCEPT ![r] = Succeeds(r)]
  BY DEF Peek, Sample, At
<1> QED
  BY <1>1, SucceedsDisk

LEMMA ComposeDisk == ASSUME DInv, NEW r \in Requests, Compose(r) PROVE DInv'
<1>1. UNCHANGED disk /\ req[r].todo # <<>>
  BY DEF Compose, At
<1>2. CASE req' = [req EXCEPT ![r] = Fails(r, 500)]
  <2>1. PICK status \in {404, 500} : req' = [req EXCEPT ![r] = Fails(r, status)]
    BY <1>2
  <2> QED
    BY <1>1, <1>2, <2>1, FailsDisk
<1>3. CASE req' = [req EXCEPT ![r] = Succeeds(r)]
  BY <1>1, <1>3, SucceedsDisk
<1> QED
  BY <1>2, <1>3 DEF Compose

LEMMA SaveDisk == ASSUME DInv, NEW r \in Requests, Save(r) PROVE DInv'
<1>1. UNCHANGED disk /\ req[r].todo # <<>>
  BY DEF Save, At
<1>2. CASE req' = [req EXCEPT ![r] = Succeeds(r)]
  BY <1>1, <1>2, SucceedsDisk
<1>3. CASE req' = [req EXCEPT ![r] = [Fails(r, 404) EXCEPT !.late = (store = "closed")]]
  <2> DEFINE end == Fails(r, 404)
             late == (store = "closed")
             new == [end EXCEPT !.late = late]
  <2>1. 404 \in {404, 500}
    OBVIOUS
  <2>2. /\ end \in RequestState /\ end.todo = <<>>
        /\ end.kind = req[r].kind /\ end.body = req[r].body
        /\ end.freed = req[r].freed /\ end.reclaimed = req[r].reclaimed
        /\ end.info = req[r].info /\ end.seen = req[r].seen
    BY <2>1, FailsType
  <2>3. req' = [req EXCEPT ![r] = new] /\ late \in BOOLEAN
    BY <1>3
  <2> HIDE DEF end, late
  <2>4. new \in RequestState
    BY <2>2, <2>3 DEF RequestState
  <2>5. /\ new.todo = end.todo /\ new.kind = end.kind /\ new.body = end.body
        /\ new.freed = end.freed /\ new.reclaimed = end.reclaimed
        /\ new.info = end.info /\ new.seen = end.seen
    BY <2>2 DEF RequestState
  <2> HIDE DEF new
  <2> QED
    BY <1>1, <2>2, <2>3, <2>4, <2>5, OneAdvances
<1> QED
  BY <1>2, <1>3 DEF Save

LEMMA UpgradeDisk == ASSUME DInv, NEW r \in Requests, Upgrade(r) PROVE DInv'
<1>1. UNCHANGED disk /\ req[r].todo # <<>>
  BY DEF Upgrade, At
<1> DEFINE on == Succeeds(r)
           answer == IF CanHijack THEN 101 ELSE 500
           new == [on EXCEPT !.status = answer]
<1>2. /\ on \in RequestState /\ on.todo = Tail(req[r].todo)
      /\ on.kind = req[r].kind /\ on.body = req[r].body
      /\ on.freed = req[r].freed /\ on.reclaimed = req[r].reclaimed
      /\ on.info = req[r].info /\ on.seen = req[r].seen
  BY <1>1, SucceedsType
<1>3. req' = [req EXCEPT ![r] = new]
  BY DEF Upgrade
<1>4. answer \in {0, 101, 200, 400, 404, 500}
  OBVIOUS
<1> HIDE DEF on, answer
<1>5. new \in RequestState
  <2>1. on \in RequestState
    BY <1>2
  <2> QED
    BY <1>4, <2>1 DEF RequestState
<1>6. /\ new.todo = on.todo /\ new.kind = on.kind /\ new.body = on.body
      /\ new.freed = on.freed /\ new.reclaimed = on.reclaimed
      /\ new.info = on.info /\ new.seen = on.seen
  BY <1>2 DEF RequestState
<1> HIDE DEF new
<1> QED
  BY <1>1, <1>2, <1>3, <1>5, <1>6, OneAdvances

LEMMA AnswersType ==
    ASSUME DInv, NEW r \in Requests, NEW status \in {0, 101, 200, 400, 404, 500}
    PROVE  LET new == Answers(r, status) IN
           /\ new \in RequestState /\ new.todo = <<>>
           /\ new.kind = req[r].kind /\ new.body = req[r].body /\ new.pc = "answered"
           /\ new.freed = req[r].freed /\ new.reclaimed = req[r].reclaimed
           /\ new.info = req[r].info /\ new.seen = req[r].seen
           /\ new.late = req[r].late
<1> DEFINE q == req[r]
           new == [q EXCEPT !.pc = "answered", !.todo = <<>>, !.status = status]
<1>1. q \in RequestState
  BY DEF DInv
<1>2. Answers(r, status) = new
  BY DEF Answers
<1> HIDE DEF q
<1>3. new \in RequestState
  <2> DEFINE ended == [q EXCEPT !.todo = <<>>]
             said == [ended EXCEPT !.status = status]
             again == [said EXCEPT !.pc = "answered"]
  <2>1. <<>> \in Seq(Steps)
    OBVIOUS
  <2>2. ended \in RequestState
    BY <1>1, <2>1 DEF RequestState, Steps
  <2>3. again = new
    BY <1>1 DEF RequestState
  <2> HIDE DEF ended
  <2>4. said \in RequestState
    BY <2>2 DEF RequestState
  <2> HIDE DEF said
  <2>5. again \in RequestState
    BY <2>4 DEF RequestState
  <2> QED
    BY <2>3, <2>5
<1>4. /\ new.todo = <<>>
      /\ new.kind = q.kind /\ new.body = q.body /\ new.pc = "answered"
      /\ new.freed = q.freed /\ new.reclaimed = q.reclaimed
      /\ new.info = q.info /\ new.seen = q.seen /\ new.late = q.late
  BY <1>1 DEF RequestState
<1> HIDE DEF new
<1> QED
  BY <1>2, <1>3, <1>4 DEF q

LEMMA RefusalsType == \A kind : Refusals(kind) \subseteq {400, 404, 500}
  BY DEF Refusals

LEMMA ReplyDisk == ASSUME DInv, NEW r \in Requests, Reply(r) PROVE DInv'
<1>1. UNCHANGED disk
  BY DEF Reply
<1>2. PICK status \in {0, 101, 200, 400, 404, 500} : req' = [req EXCEPT ![r] = Answers(r, status)]
  <2>1. req[r].status \in {0, 101, 200, 400, 404, 500}
    BY DEF DInv, RequestState
  <2> QED
    BY <2>1, RefusalsType DEF Reply
<1> DEFINE new == Answers(r, status)
<1>3. /\ new \in RequestState /\ new.todo = <<>>
      /\ new.kind = req[r].kind /\ new.body = req[r].body
      /\ new.freed = req[r].freed /\ new.reclaimed = req[r].reclaimed
      /\ new.info = req[r].info /\ new.seen = req[r].seen
  BY AnswersType
<1> HIDE DEF new
<1> QED
  BY <1>1, <1>2, <1>3, OneAdvances DEF new

LEMMA ServerDiskStep == DInv /\ [Next]_vars => DInv'
<1> SUFFICES ASSUME DInv, [Next]_vars PROVE DInv'
  OBVIOUS
<1>1. CASE UNCHANGED <<req, disk>>
  BY <1>1 DEF DInv, Sound, Todo, Did, Read
<1>2. MainStep \/ Signal \/ Listen \/ Tick \/ TickDone \/ TickerStops \/ UNCHANGED vars
         => UNCHANGED <<req, disk>>
  BY DEF MainStep, Load, Ping, OpenStore, Scan, Stop, Shutdown, CloseStore, CloseClient,
         Signal, Listen, Tick, TickDone, TickerStops, vars
<1>3. ASSUME NEW r \in Requests, Arrive(r) \/ Handle(r) PROVE DInv'
  BY <1>3, ArriveDisk, LockDisk, AnswerDisk, PruneDisk, StatsDisk, ComposeDisk, SaveDisk,
     UpgradeDisk, ReplyDisk DEF Handle
<1> QED
  BY <1>1, <1>2, <1>3 DEF Next

\* A prune that succeeds reports what it freed: of two of them none counts what
\* the other removed, and the sum does not depend on the order of its reports.
THEOREM ServerReportedIsFreed == Spec => []ReportedIsFreed
<1>1. DInv => ReportedIsFreed
  BY DEF DInv, Sound, Did, ReportedIsFreed
<1> QED
  BY <1>1, ServerDiskInit, ServerDiskStep, PTL DEF Spec

\* No prune removes what the body did not name, whichever of its calls succeed.
THEOREM ServerNothingUnasked == Spec => []NothingUnasked
<1>1. DInv => NothingUnasked
  <2> SUFFICES ASSUME DInv, NEW r \in Requests, NEW i \in req[r].freed
               PROVE  \/ Kind[i] \in {"container", "network"}
                      \/ Kind[i] \in {"image", "layer"} /\ (req[r].body.images \/ ~req[r].body.readable)
                      \/ Kind[i] = "volume" /\ req[r].body.volumes
                      \/ Kind[i] = "cache"  /\ (req[r].body.cache \/ ~req[r].body.readable)
    BY DEF NothingUnasked
  <2>1. Owner(i) \in Asked(req[r].body)
    BY DEF DInv, Sound, Did
  <2> QED
    BY <2>1 DEF Asked, Owner
<1> QED
  BY <1>1, ServerDiskInit, ServerDiskStep, PTL DEF Spec

\* The total that the storage panel shows is right up to one byte for each item
\* whose size the daemon does not know, for any sizes and any word; a layer is in
\* it once for each of its images.
THEOREM ServerSizesAddUp == Spec => []SizesAddUp
<1>1. DInv => SizesAddUp
  <2> SUFFICES ASSUME DInv, NEW r \in Requests, req[r].kind = "storage"
               PROVE  LET unknown == {i \in req[r].seen : Bytes[i] = -1} IN
                      (req[r].info.total + Cardinality(unknown)) % Word
                          = Worth(Listed(req[r].seen)) % Word
    BY DEF SizesAddUp
  <2> DEFINE S == Listed(req[r].seen)
             unknown == {i \in req[r].seen : Bytes[i] = -1}
  <2>1. S \in SUBSET Items /\ unknown = {i \in S : Bytes[i] = -1}
    <3>1. req[r].seen \in SUBSET Items
      BY DEF DInv, RequestState
    <3> QED
      BY <3>1, DaemonAssumption DEF Listed, Of
  <2>2. req[r].info = StorageInfo(req[r].seen)
    BY DEF DInv, Sound, Read
  <2>3. req[r].info.total = Total(Size, S) % Word
    BY <2>2, SumsAreTotals DEF StorageInfo
  <2> HIDE DEF S, unknown
  <2>4. Worth(S) = Total(Size, S) + Cardinality(unknown)
    BY <2>1, UnknownSizes
  <2>5. IsFiniteSet(S) /\ Total(Size, S) \in Int
    BY <2>1, SizesType
  <2>6. Cardinality(unknown) \in Nat
    BY <2>1, <2>5, FS_Subset, FS_CardinalityType
  <2>7. Word \in Nat \ {0}
    BY StorageAssumption
  <2>8. ((Total(Size, S) % Word) + Cardinality(unknown)) % Word
            = (Total(Size, S) + Cardinality(unknown)) % Word
    BY <2>5, <2>6, <2>7, ReducedFirst
  <2> QED
    BY <2>3, <2>4, <2>8 DEF S, unknown
<1> QED
  BY <1>1, ServerDiskInit, ServerDiskStep, PTL DEF Spec

-----------------------------------------------------------------------------

LEMMA ServerTypeInit == Init => TypeOK
  BY ServerDiskInit DEF Init, TypeOK, DInv

\* What TypeOK says of all but the requests and the disk.
ProcessType ==
    /\ main \in {"load", "ping", "open", "scan", "refresh", "serving", "draining",
                 "closeStore", "closing", "exited"}
    /\ ctx \in BOOLEAN
    /\ code \in {"none", "success", "failure", "signal"}
    /\ store \in {"none", "open", "closed"}
    /\ listener \in {"none", "starting", "up", "failed", "closed"}
    /\ ticker \in {"none", "waiting", "calling", "returned"}
    /\ readers \subseteq {Main, Ticker} \cup Requests
    /\ writer \in {"free", "pending"}

LEMMA MainType == ProcessType /\ MainStep => ProcessType'
<1> SUFFICES ASSUME ProcessType, MainStep PROVE ProcessType'
  OBVIOUS
<1>1. CASE Load \/ Ping \/ OpenStore
  BY <1>1 DEF ProcessType, Load, Ping, OpenStore
<1>2. CASE Scan
  BY <1>2 DEF ProcessType, Scan, Serve
<1>3. CASE Stop
  <2>1. listener' \in {"none", "starting", "up", "failed", "closed"}
    BY <1>3 DEF ProcessType, Stop
  <2>2. code' \in {"none", "success", "failure", "signal"} /\ main' \in {"closeStore", "draining"}
    BY <1>3 DEF ProcessType, Stop
  <2> QED
    BY <1>3, <2>1, <2>2 DEF ProcessType, Stop
<1>4. CASE Shutdown \/ CloseClient
  BY <1>4 DEF ProcessType, Shutdown, CloseClient
<1>5. CASE CloseStore
  BY <1>5 DEF ProcessType, CloseStore
<1> QED
  BY <1>1, <1>2, <1>3, <1>4, <1>5 DEF MainStep

LEMMA AroundType ==
    ProcessType /\ (Signal \/ Listen \/ Tick \/ TickDone \/ TickerStops \/ UNCHANGED vars)
        => ProcessType'
<1> SUFFICES ASSUME ProcessType,
                    Signal \/ Listen \/ Tick \/ TickDone \/ TickerStops \/ UNCHANGED vars
             PROVE  ProcessType'
  OBVIOUS
<1>1. CASE Signal
  BY <1>1 DEF ProcessType, Signal
<1>2. CASE Listen
  BY <1>2 DEF ProcessType, Listen
<1>3. CASE Tick \/ TickDone \/ TickerStops
  BY <1>3 DEF ProcessType, Tick, TickDone, TickerStops
<1>4. CASE UNCHANGED vars
  BY <1>4 DEF ProcessType, vars
<1> QED
  BY <1>1, <1>2, <1>3, <1>4

LEMMA RequestType ==
    ASSUME ProcessType, NEW r \in Requests, Arrive(r) \/ Handle(r)
    PROVE  ProcessType'
<1>1. UNCHANGED Outside
  BY DEF Handle, Arrive, Lock, Answer, Prune, Peek, Sample, Compose, Save, Upgrade, Reply
<1>2. readers' \subseteq readers \cup {r}
  BY DEF Handle, Arrive, Lock, Answer, Prune, Peek, Sample, Compose, Save, Upgrade, Reply, Unlock
<1> QED
  BY <1>1, <1>2 DEF ProcessType, Outside

LEMMA ServerTypeStep == DInv /\ TypeOK /\ [Next]_vars => TypeOK'
<1> SUFFICES ASSUME DInv, TypeOK, [Next]_vars PROVE TypeOK'
  OBVIOUS
<1>1. disk' \subseteq Items /\ req' \in [Requests -> RequestState]
  BY ServerDiskStep DEF DInv
<1>2. ProcessType
  BY DEF TypeOK, ProcessType
<1>3. ProcessType'
  BY <1>2, MainType, AroundType, RequestType DEF Next
<1> QED
  BY <1>1, <1>3 DEF TypeOK, ProcessType

\* The server's type invariant.
THEOREM ServerTypeCorrect == Spec => []TypeOK
<1>1. Init => DInv /\ TypeOK
  BY ServerDiskInit, ServerTypeInit
<1>2. DInv /\ TypeOK /\ [Next]_vars => DInv' /\ TypeOK'
  BY ServerDiskStep, ServerTypeStep
<1> QED
  BY <1>1, <1>2, PTL DEF Spec

-----------------------------------------------------------------------------

\* The store is closed after all that could be refused by it, or has failed.
GInv == /\ code = "success" => /\ main \in {"closeStore", "closing", "exited"}
                               /\ \A r \in Requests : ~Active(r) /\ ~req[r].late
        /\ \A r \in Requests : req[r].late => store = "closed"
        /\ store = "closed" => main \in {"closing", "exited"}

\* A handler's step is late only if the store refuses it.
LEMMA LateOnlyIfClosed ==
    ASSUME DInv, NEW r \in Requests, Handle(r)
    PROVE  /\ Active(r)
           /\ \A t \in Requests : req'[t].late => req[t].late \/ store = "closed"
<1>1. Active(r)
  BY DEF Handle, Lock, Answer, Prune, Peek, Sample, Compose, Save, Upgrade, Reply, At
<1>2. req \in [Requests -> RequestState]
  BY DEF DInv
<1> DEFINE kept(q) == q.late => req[r].late \/ store = "closed"
           good == \A t \in Requests : req'[t].late => req[t].late \/ store = "closed"
<1>3. ASSUME NEW new, req' = [req EXCEPT ![r] = new], kept(new) PROVE good
  BY <1>2, <1>3
<1>4. UNCHANGED req => good
  OBVIOUS
<1>5. \A status \in {404, 500} : Fails(r, status).late = req[r].late
  BY FailsType
<1>6. \A status \in {0, 101, 200, 400, 404, 500} : Answers(r, status).late = req[r].late
  BY AnswersType
<1>7. req[r].todo # <<>> => Succeeds(r) \in RequestState /\ Succeeds(r).late = req[r].late
  BY SucceedsType
<1>8. kept([req[r] EXCEPT !.seen = disk])
  <2>1. req[r] \in RequestState
    BY <1>2
  <2> QED
    BY <2>1 DEF RequestState
<1>9. ASSUME NEW v, req[r].todo # <<>>
      PROVE  /\ kept([Succeeds(r) EXCEPT !.status = v])
             /\ \A w : kept([Succeeds(r) EXCEPT !.seen = v, !.info = w])
             /\ \A w : kept([Succeeds(r) EXCEPT !.freed = v, !.reclaimed = w])
  <2> DEFINE on == Succeeds(r)
  <2>1. on \in RequestState /\ on.late = req[r].late
    BY <1>7, <1>9
  <2> HIDE DEF on
  <2>2. /\ kept([on EXCEPT !.status = v])
        /\ \A w : kept([on EXCEPT !.seen = v, !.info = w])
        /\ \A w : kept([on EXCEPT !.freed = v, !.reclaimed = w])
    BY <2>1 DEF RequestState
  <2> QED
    BY <2>2 DEF on
<1> SUFFICES good
  BY <1>1
<1> HIDE DEF good
<1>10. CASE Lock(r)
  BY <1>3, <1>4, <1>8, <1>10 DEF Lock
<1>11. CASE Answer(r)
  <2>1. req[r].todo # <<>>
    BY <1>11 DEF Answer, At
  <2>2. CASE req' = [req EXCEPT ![r] = Fails(r, 500)]
    <3>1. PICK status \in {404, 500} : req' = [req EXCEPT ![r] = Fails(r, status)]
      BY <2>2
    <3> QED
      BY <1>3, <1>5, <3>1
  <2>3. CASE req' = [req EXCEPT ![r] = Succeeds(r)]
    BY <1>3, <1>7, <2>1, <2>3
  <2>4. CASE req' = [req EXCEPT ![r] =
                        [Succeeds(r) EXCEPT !.seen = disk, !.info = StorageInfo(disk)]]
    BY <1>3, <1>9, <2>1, <2>4
  <2> QED
    BY <1>11, <2>2, <2>3, <2>4 DEF Answer
<1>12. CASE Prune(r)
  <2>1. req[r].todo # <<>>
    BY <1>12 DEF Prune, At
  <2>2. CASE req' = [req EXCEPT ![r] = Fails(r, 500)]
    <3>1. PICK status \in {404, 500} : req' = [req EXCEPT ![r] = Fails(r, status)]
      BY <2>2
    <3> QED
      BY <1>3, <1>5, <3>1
  <2> DEFINE on == Succeeds(r)
             gone == Removed(Head(req[r].todo), disk)
  <2>3. CASE req' = [req EXCEPT ![r] = [on EXCEPT
                        !.freed = @ \cup gone, !.reclaimed = @ + Reclaimed(gone)]]
    <3>1. \A v, w : kept([on EXCEPT !.freed = v, !.reclaimed = w])
      BY <1>9, <2>1
    <3>2. on \in RequestState
      BY <1>7, <2>1
    <3> HIDE DEF on, gone
    <3>3. req' = [req EXCEPT ![r] = [on EXCEPT
                     !.freed = on.freed \cup gone, !.reclaimed = on.reclaimed + Reclaimed(gone)]]
      BY <2>3, <3>2 DEF RequestState
    <3> QED
      BY <1>3, <3>1, <3>3
  <2> QED
    BY <1>12, <2>2, <2>3 DEF Prune
<1>13. CASE Compose(r)
  <2>1. req[r].todo # <<>>
    BY <1>13 DEF Compose, At
  <2>2. CASE req' = [req EXCEPT ![r] = Fails(r, 500)]
    <3>1. PICK status \in {404, 500} : req' = [req EXCEPT ![r] = Fails(r, status)]
      BY <2>2
    <3> QED
      BY <1>3, <1>5, <3>1
  <2>3. CASE req' = [req EXCEPT ![r] = Succeeds(r)]
    BY <1>3, <1>7, <2>1, <2>3
  <2> QED
    BY <1>13, <2>2, <2>3 DEF Compose
<1>14. CASE Peek(r) \/ Sample(r)
  <2>1. req[r].todo # <<>> /\ req' = [req EXCEPT ![r] = Succeeds(r)]
    BY <1>14 DEF Peek, Sample, At
  <2> QED
    BY <1>3, <1>7, <2>1
<1>15. CASE Save(r)
  <2>1. req[r].todo # <<>>
    BY <1>15 DEF Save, At
  <2>2. CASE req' = [req EXCEPT ![r] = Succeeds(r)]
    BY <1>3, <1>7, <2>1, <2>2
  <2>3. CASE req' = [req EXCEPT ![r] = [Fails(r, 404) EXCEPT !.late = (store = "closed")]]
    <3> DEFINE end == Fails(r, 404)
               late == (store = "closed")
    <3>1. PICK status \in {404, 500} : end = Fails(r, status)
      OBVIOUS
    <3>2. end \in RequestState
      BY <3>1, FailsType
    <3> HIDE DEF end, late
    <3>3. [end EXCEPT !.late = late].late = late
      BY <3>2 DEF RequestState
    <3>4. kept([end EXCEPT !.late = late])
      BY <3>3 DEF late
    <3> QED
      BY <1>3, <2>3, <3>4 DEF end, late
  <2> QED
    BY <1>15, <2>2, <2>3 DEF Save
<1>16. CASE Upgrade(r)
  <2>1. req[r].todo # <<>>
    BY <1>16 DEF Upgrade, At
  <2> QED
    BY <1>3, <1>9, <1>16, <2>1 DEF Upgrade
<1>17. CASE Reply(r)
  <2>1. PICK status \in {0, 101, 200, 400, 404, 500} : req' = [req EXCEPT ![r] = Answers(r, status)]
    <3>1. req[r].status \in {0, 101, 200, 400, 404, 500}
      BY <1>2 DEF RequestState
    <3> QED
      BY <1>17, <3>1, RefusalsType DEF Reply
  <2> QED
    BY <1>3, <1>6, <2>1
<1> QED
  BY <1>10, <1>11, <1>12, <1>13, <1>14, <1>15, <1>16, <1>17 DEF Handle

LEMMA ServerStopsInit == Init => GInv
<1>1. Nothing.late = FALSE
  BY DEF Nothing
<1> QED
  BY <1>1 DEF Init, GInv

LEMMA ServerStopsStep == DInv /\ GInv /\ [Next]_vars => GInv'
<1> SUFFICES ASSUME DInv, GInv, [Next]_vars PROVE GInv'
  OBVIOUS
<1>1. CASE UNCHANGED req /\ MainStep
  <2>1. \A r \in Requests : Active(r)' = Active(r) /\ req'[r].late = req[r].late
    BY <1>1 DEF Active
  <2>2. CASE Load \/ Ping \/ OpenStore \/ Scan
    BY <2>1, <2>2 DEF GInv, Load, Ping, OpenStore, Scan, Serve
  <2>3. CASE Stop
    BY <2>1, <2>3 DEF GInv, Stop
  <2>4. CASE Shutdown
    BY <2>1, <2>4 DEF GInv, Shutdown
  <2>5. CASE CloseStore \/ CloseClient
    BY <2>1, <2>5 DEF GInv, CloseStore, CloseClient
  <2> QED
    BY <1>1, <2>2, <2>3, <2>4, <2>5 DEF MainStep
<1>2. CASE Signal \/ Listen \/ Tick \/ TickDone \/ TickerStops \/ UNCHANGED vars
  <2>1. UNCHANGED req /\ UNCHANGED store
    BY <1>2 DEF Signal, Listen, Tick, TickDone, TickerStops, vars
  <2>2. \A r \in Requests : Active(r)' = Active(r)
    BY <2>1 DEF Active
  <2> QED
    BY <1>2, <2>1, <2>2 DEF GInv, Signal, Listen, Tick, TickDone, TickerStops, vars
<1>3. CASE \E r \in Requests : Arrive(r)
  <2>1. PICK r \in Requests : Arrive(r)
    BY <1>3
  <2>2. UNCHANGED Outside /\ main = "serving"
    BY <2>1 DEF Arrive
  <2>3. \A t \in Requests : req'[t].late => req[t].late
    <3>1. PICK new : req' = [req EXCEPT ![r] = new] /\ ~new.late
      <4>1. PICK k \in Kinds, b \in Bodies :
          req' = [req EXCEPT ![r] = [Nothing EXCEPT !.pc = "handler", !.kind = k, !.body = b,
                     !.todo = IF k = "prune" THEN PruneCalls(b) ELSE Programs[k]]]
        BY <2>1 DEF Arrive
      <4> DEFINE todo == IF k = "prune" THEN PruneCalls(b) ELSE Programs[k]
                 n == [Nothing EXCEPT !.pc = "handler", !.kind = k, !.body = b, !.todo = todo]
      <4>2. ~n.late
        BY DEF Nothing
      <4> QED
        BY <4>1, <4>2
    <3>2. req \in [Requests -> RequestState]
      BY DEF DInv
    <3> QED
      BY <3>1, <3>2
  <2> QED
    BY <2>2, <2>3 DEF GInv, Outside
<1>4. CASE \E r \in Requests : Handle(r)
  <2>1. PICK r \in Requests : Handle(r)
    BY <1>4
  <2>2. UNCHANGED Outside
    BY <2>1 DEF Handle, Lock, Answer, Prune, Peek, Sample, Compose, Save, Upgrade, Reply
  <2>3. /\ Active(r)
        /\ \A t \in Requests : req'[t].late => req[t].late \/ store = "closed"
    BY <2>1, LateOnlyIfClosed
  <2> QED
    BY <2>2, <2>3 DEF GInv, Outside
<1>5. MainStep => UNCHANGED req
  BY DEF MainStep, Load, Ping, OpenStore, Scan, Stop, Shutdown, CloseStore, CloseClient
<1> QED
  BY <1>1, <1>2, <1>3, <1>4, <1>5 DEF Next

\* Exit code 0 means that no handler was cut off, and none was refused its
\* write because the store had been closed first.
THEOREM ServerGracefulIsComplete == Spec => []GracefulIsComplete
<1>1. GInv => GracefulIsComplete
  BY DEF GInv, GracefulIsComplete
<1>2. Init => DInv /\ GInv
  BY ServerDiskInit, ServerStopsInit
<1>3. DInv /\ GInv /\ [Next]_vars => DInv' /\ GInv'
  BY ServerDiskStep, ServerStopsStep
<1> QED
  BY <1>1, <1>2, <1>3, PTL DEF Spec
-----------------------------------------------------------------------------
(* What a prune of all that the storage panel offers reclaims. *)

Offer == PruneKinds \ {"volume"}
AsksAll(q) == q.kind = "prune" /\ Asked(q.body) = Offer

\* How far such a prune has come, and which kinds it has called for.
Stages == { <<"container", "image", "cache", "network">>, <<"image", "cache", "network">>,
            <<"cache", "network">>, <<"network">>, <<>> }
Called(todo) ==
    {k \in Offer : /\ todo # <<>> => k # "network"
                   /\ todo # <<>> /\ Head(todo) # "network" => k # "cache"
                   /\ todo # <<>> /\ Head(todo) \in {"container", "image"} => k # "image"
                   /\ todo # <<>> /\ Head(todo) = "container" => k # "container"}

\* What goes of a disk that nobody else touches: what is not busy, and used by
\* nothing that stays.
ShouldGo(i, had) == i \notin Busy /\ UsedBy[i] \cap had \subseteq Prunable("container", had)

\* Images that should go, and what a request that has called for such kinds takes.
Unneeded(had) == {i \in Of("image", had) : ShouldGo(i, had)}
Takes(kinds, had) ==
    {i \in had : Kind[i] \in kinds /\ ShouldGo(i, had)}
        \cup IF "image" \in kinds THEN Freeable(Unneeded(had), had) ELSE {}

\* It has freed, as long as nobody has come between, what should go of the
\* kinds it has called for; it holds the lock from its first call on.
Going(q, left, locked) ==
    /\ q.todo \in Stages
    /\ q.status = 200 => q.todo = <<>>
    /\ q.todo # <<>> => IF Head(q.todo) = "container" THEN q.freed = {} ELSE locked
    /\ locked => left \subseteq q.seen
    /\ q.freed \subseteq q.seen
    /\ q.status \in {0, 200} /\ q.seen \ left \subseteq q.freed =>
          q.freed = Takes(Called(q.todo), q.seen)

\* The next call is of a kind that has not been called for, containers first.
LEMMA StageSteps ==
    ASSUME NEW t \in Stages, t # <<>>
    PROVE  /\ Tail(t) \in Stages /\ Head(t) \in Offer /\ Head(t) \notin Called(t)
           /\ Called(Tail(t)) = Called(t) \cup {Head(t)}
           /\ Tail(t) # <<>> => Head(Tail(t)) # "container"
           /\ Head(t) # "container" => "container" \in Called(t)
<1> DEFINE Good(u) == /\ Tail(u) \in Stages /\ Head(u) \in Offer /\ Head(u) \notin Called(u)
                      /\ Called(Tail(u)) = Called(u) \cup {Head(u)}
                      /\ Tail(u) # <<>> => Head(Tail(u)) # "container"
                      /\ Head(u) # "container" => "container" \in Called(u)
<1>1. Good(<<"container", "image", "cache", "network">>)
  <2>1. Tail(<<"container", "image", "cache", "network">>) = <<"image", "cache", "network">>
    OBVIOUS
  <2> QED
    BY <2>1 DEF Stages, Called, Offer, PruneKinds
<1>2. Good(<<"image", "cache", "network">>)
  <2>1. Tail(<<"image", "cache", "network">>) = <<"cache", "network">>
    OBVIOUS
  <2> QED
    BY <2>1 DEF Stages, Called, Offer, PruneKinds
<1>3. Good(<<"cache", "network">>)
  <2>1. Tail(<<"cache", "network">>) = <<"network">>
    OBVIOUS
  <2> QED
    BY <2>1 DEF Stages, Called, Offer, PruneKinds
<1>4. Good(<<"network">>)
  <2>1. Tail(<<"network">>) = <<>>
    OBVIOUS
  <2> QED
    BY <2>1 DEF Stages, Called, Offer, PruneKinds
<1> HIDE DEF Good
<1>5. Good(t)
  BY <1>1, <1>2, <1>3, <1>4 DEF Stages
<1> QED
  BY <1>5 DEF Good

\* A sequence is the concatenation of its two parts.
LEMMA Joined ==
    ASSUME NEW S, NEW s \in Seq(S), NEW t \in Seq(S), NEW u \in Seq(S),
           Len(u) = Len(s) + Len(t), \A i \in 1..Len(s) : u[i] = s[i],
           \A i \in 1..Len(t) : u[Len(s) + i] = t[i]
    PROVE  s \o t = u
<1> DEFINE v == s \o t
<1>1. v \in Seq(S) /\ Len(v) = Len(u)
  OBVIOUS
<1>2. \A i \in 1..Len(u) : v[i] = IF i <= Len(s) THEN s[i] ELSE t[i - Len(s)]
  OBVIOUS
<1>3. ASSUME NEW i \in 1..Len(u) PROVE v[i] = u[i]
  <2>1. CASE i <= Len(s)
    BY <1>2, <2>1
  <2>2. CASE ~(i <= Len(s))
    <3>1. i - Len(s) \in 1..Len(t) /\ Len(s) + (i - Len(s)) = i
      BY <2>2
    <3> QED
      BY <1>2, <2>2, <3>1
  <2> QED
    BY <2>1, <2>2
<1> HIDE DEF v
<1>4. v = u
  BY <1>1, <1>3
<1> QED
  BY <1>4 DEF v

\* The calls of such a request, and what has been called for at its two ends.
LEMMA AllCalls ==
    /\ \A b : Asked(b) = Offer => PruneCalls(b) = <<"container", "image", "cache", "network">>
    /\ \A t : t # <<>> /\ Head(t) = "container" => Called(t) = {}
    /\ Called(<<>>) = Offer
<1>1. ASSUME NEW b, Asked(b) = Offer
      PROVE  PruneCalls(b) = <<"container", "image", "cache", "network">>
  <2>1. "image" \in Asked(b) /\ "cache" \in Asked(b) /\ "volume" \notin Asked(b)
    BY <1>1 DEF Offer, PruneKinds
  <2>2. PruneCalls(b) = <<"container">> \o <<"image">> \o <<>> \o <<"cache">> \o <<"network">>
    BY <2>1 DEF PruneCalls
  <2>3. <<"container">> \o <<"image">> = <<"container", "image">>
    <3> DEFINE s == <<"container">>
               t == <<"image">>
               u == <<"container", "image">>
    <3>1. s \in Seq(PruneKinds) /\ t \in Seq(PruneKinds) /\ u \in Seq(PruneKinds)
      BY DEF PruneKinds
    <3>2. /\ Len(s) = 1 /\ Len(t) = 1 /\ Len(u) = 2
          /\ s[1] = u[1] /\ t[1] = u[2]
      OBVIOUS
    <3> HIDE DEF s, t, u
    <3>3. /\ Len(u) = Len(s) + Len(t)
          /\ \A i \in 1..Len(s) : u[i] = s[i]
          /\ \A i \in 1..Len(t) : u[Len(s) + i] = t[i]
      BY <3>2
    <3>4. s \o t = u
      BY <3>1, <3>3, Joined
    <3> QED
      BY <3>4 DEF s, t, u
  <2>4. <<"container", "image">> \o <<>> = <<"container", "image">>
    OBVIOUS
  <2>5. <<"container", "image">> \o <<"cache">> = <<"container", "image", "cache">>
    <3> DEFINE s == <<"container", "image">>
               t == <<"cache">>
               u == <<"container", "image", "cache">>
    <3>1. s \in Seq(PruneKinds) /\ t \in Seq(PruneKinds) /\ u \in Seq(PruneKinds)
      BY DEF PruneKinds
    <3>2. /\ Len(s) = 2 /\ Len(t) = 1 /\ Len(u) = 3
          /\ s[1] = u[1] /\ s[2] = u[2] /\ t[1] = u[3]
      OBVIOUS
    <3> HIDE DEF s, t, u
    <3>3. /\ Len(u) = Len(s) + Len(t)
          /\ \A i \in 1..Len(s) : u[i] = s[i]
          /\ \A i \in 1..Len(t) : u[Len(s) + i] = t[i]
      BY <3>2
    <3>4. s \o t = u
      BY <3>1, <3>3, Joined
    <3> QED
      BY <3>4 DEF s, t, u
  <2>6. <<"container", "image", "cache">> \o <<"network">>
            = <<"container", "image", "cache", "network">>
    <3> DEFINE s == <<"container", "image", "cache">>
               t == <<"network">>
               u == <<"container", "image", "cache", "network">>
    <3>1. s \in Seq(PruneKinds) /\ t \in Seq(PruneKinds) /\ u \in Seq(PruneKinds)
      BY DEF PruneKinds
    <3>2. /\ Len(s) = 3 /\ Len(t) = 1 /\ Len(u) = 4
          /\ s[1] = u[1] /\ s[2] = u[2] /\ s[3] = u[3] /\ t[1] = u[4]
      OBVIOUS
    <3> HIDE DEF s, t, u
    <3>3. /\ Len(u) = Len(s) + Len(t)
          /\ \A i \in 1..Len(s) : u[i] = s[i]
          /\ \A i \in 1..Len(t) : u[Len(s) + i] = t[i]
      BY <3>2
    <3>4. s \o t = u
      BY <3>1, <3>3, Joined
    <3> QED
      BY <3>4 DEF s, t, u
  <2> QED
    BY <2>2, <2>3, <2>4, <2>5, <2>6
<1>2. ASSUME NEW t, t # <<>>, Head(t) = "container" PROVE Called(t) = {}
  BY <1>2 DEF Called, Offer, PruneKinds
<1>3. Called(<<>>) = Offer
  BY DEF Called
<1> QED
  BY <1>1, <1>2, <1>3

\* The steps of others may take from the disk.
LEMMA GoingBesides ==
    ASSUME NEW q, NEW left, NEW locked, Going(q, left, locked), NEW now \in SUBSET left
    PROVE  Going(q, now, locked)
  BY DEF Going

\* The lock is taken, and the disk is seen.
LEMMA GoingLocks ==
    ASSUME NEW q, NEW left, Going(q, left, FALSE), NEW new,
           new.todo = q.todo, new.status = q.status, new.freed = q.freed, new.seen = left,
           q.todo # <<>>
    PROVE  Going(new, left, TRUE)
<1>1. Head(q.todo) = "container" /\ q.freed = {}
  BY DEF Going
<1>2. Called(q.todo) = {}
  BY <1>1, AllCalls
<1>3. Takes({}, left) = {}
  BY DEF Takes
<1> QED
  BY <1>1, <1>2, <1>3 DEF Going

\* The answer is sent.
LEMMA GoingAnswers ==
    ASSUME NEW q, NEW left, NEW locked, Going(q, left, locked), NEW new,
           q.todo = <<>>, new.todo = <<>>, q.status = 0 \/ new.status = q.status,
           new.freed = q.freed, new.seen = q.seen
    PROVE  Going(new, left, locked)
  BY DEF Going, Stages

\* What one call takes, if those before it have taken theirs.
TakesOf(k, had) ==
    {i \in had : Kind[i] = k /\ ShouldGo(i, had)}
        \cup IF k = "image" THEN Freeable(Unneeded(had), had) ELSE {}

\* Images lose no layer to the calls that come before theirs.
LEMMA CallTakes ==
    ASSUME NEW had \in SUBSET Items, NEW left \in SUBSET had, NEW k \in Offer,
           NEW called \in SUBSET (Offer \ {k}), k # "container" => "container" \in called,
           left = had \ Takes(called, had)
    PROVE  Removed(k, left) = TakesOf(k, had)
<1> DEFINE stopped == Prunable("container", had)
           shared == Freeable(Unneeded(had), had)
<1>1. \A i \in Items : \A u \in UsedBy[i] :
          u \in Items /\ Kind[u] = IF Kind[i] = "layer" THEN "image" ELSE "container"
  BY StorageAssumption, DaemonAssumption
<1>2. \A i \in Items : Kind[i] = "container" => UsedBy[i] = {}
  BY DaemonAssumption
<1>3. stopped = {c \in had : Kind[c] = "container" /\ c \notin Busy}
  BY <1>2 DEF Prunable, Of, InUse
<1>4. \A i \in shared : i \in had /\ Kind[i] = "layer"
  BY DEF Freeable, Of
<1>5. k \in PruneKinds /\ k # "layer" /\ "layer" \notin called
  BY DEF Offer, PruneKinds
<1>6. \A i \in had : Kind[i] # "layer" =>
          (i \in left <=> ~(Kind[i] \in called /\ ShouldGo(i, had)))
  BY <1>4 DEF Takes
<1> HIDE DEF stopped
<1>7. Prunable(k, left) = {i \in had : Kind[i] = k /\ ShouldGo(i, had)}
  <2>1. Prunable(k, left) = {i \in left : Kind[i] = k /\ i \notin Busy /\ UsedBy[i] \cap left = {}}
    BY DEF Prunable, Of, InUse
  <2>2. \A i \in had : Kind[i] = k => i \in left
    BY <1>5, <1>6
  <2>3. ASSUME NEW i \in had, Kind[i] = k
        PROVE  UsedBy[i] \cap left = {} <=> UsedBy[i] \cap had \subseteq stopped
    <3>1. CASE k = "container"
      BY <1>2, <2>3, <3>1
    <3>2. CASE k # "container"
      <4>1. ASSUME NEW c \in UsedBy[i] \cap had PROVE c \notin left <=> c \in stopped
        <5>1. Kind[c] = "container" /\ UsedBy[c] = {}
          BY <1>1, <1>2, <1>5, <2>3
        <5>2. ShouldGo(c, had) <=> c \notin Busy
          BY <5>1 DEF ShouldGo
        <5>3. "container" \in called
          BY <3>2
        <5>4. Kind[c] # "layer" /\ Kind[c] \in called
          BY <5>1, <5>3
        <5> QED
          BY <1>3, <1>6, <5>1, <5>2, <5>4
      <4> QED
        BY <4>1
    <3> QED
      BY <3>1, <3>2
  <2> QED
    BY <2>1, <2>2, <2>3 DEF ShouldGo, stopped
<1>8. k # "image" => Freeable(Prunable(k, left), left) = {}
  <2>1. Prunable(k, left) \in SUBSET Of(k, left) /\ left \in SUBSET Items
    BY DEF Prunable
  <2> QED
    BY <1>5, <2>1, OnlyImagesHaveLayers
<1>9. CASE k = "image"
  <2>1. Prunable(k, left) = Unneeded(had)
    BY <1>7, <1>9 DEF Unneeded, Of
  <2>2. \A i \in had : Kind[i] \in {"image", "layer"} => i \in left
    <3>1. Takes(called, had) = {i \in had : Kind[i] \in called /\ ShouldGo(i, had)}
      BY <1>9 DEF Takes
    <3> QED
      BY <1>5, <1>9, <3>1
  <2>3. ASSUME NEW l \in had, Kind[l] = "layer" PROVE UsedBy[l] \cap left = UsedBy[l] \cap had
    <3>1. \A u \in UsedBy[l] : Kind[u] = "image"
      BY <1>1, <2>3
    <3> QED
      BY <2>2, <3>1
  <2>4. Freeable(Unneeded(had), left) = shared
    BY <2>2, <2>3 DEF Freeable, Of
  <2> QED
    BY <1>7, <1>9, <2>1, <2>4 DEF Removed, TakesOf
<1>10. CASE k # "image"
  BY <1>7, <1>8, <1>10 DEF Removed, TakesOf
<1> QED
  BY <1>9, <1>10

\* A call removes what should go of its kind.
LEMMA GoingPrunes ==
    ASSUME NEW q, NEW left \in SUBSET Items, Going(q, left, TRUE), q.freed \cap left = {},
           q.seen \in SUBSET Items, q.todo # <<>>,
           NEW gone, gone = Removed(Head(q.todo), left), NEW new, NEW locked,
           new.todo = Tail(q.todo), new.status = q.status, new.seen = q.seen,
           new.freed = q.freed \cup gone, locked <=> new.todo # <<>>
    PROVE  Going(new, left \ gone, locked)
<1> DEFINE k == Head(q.todo)
           had == q.seen
<1>1. /\ Tail(q.todo) \in Stages /\ k \in Offer /\ k \notin Called(q.todo)
      /\ Called(Tail(q.todo)) = Called(q.todo) \cup {k}
      /\ Tail(q.todo) # <<>> => Head(Tail(q.todo)) # "container"
      /\ k # "container" => "container" \in Called(q.todo)
  BY StageSteps DEF Going
<1>2. k \in PruneKinds /\ had \in SUBSET Items
  BY <1>1 DEF Offer
<1>3. left \subseteq had /\ q.freed \subseteq had /\ gone \subseteq left
  <2>1. gone \subseteq left
    BY <1>2, RemovedKind
  <2> QED
    BY <2>1 DEF Going
<1>4. q.status # 200
  BY DEF Going
<1>5. ASSUME q.status = 0, had \ (left \ gone) \subseteq new.freed
      PROVE  new.freed = Takes(Called(new.todo), had)
  <2>1. had \ left \subseteq q.freed
    BY <1>3, <1>5
  <2>2. q.freed = Takes(Called(q.todo), had)
    BY <1>5, <2>1 DEF Going
  <2>3. left = had \ q.freed
    BY <1>3, <2>1
  <2>4. gone = TakesOf(k, had)
    <3> DEFINE called == Called(q.todo)
    <3>1. called \in SUBSET (Offer \ {k})
      BY <1>1 DEF Called
    <3>2. /\ k \in Offer
          /\ k # "container" => "container" \in called
          /\ left \in SUBSET had /\ left = had \ Takes(called, had)
      BY <1>1, <2>2, <2>3
    <3> HIDE DEF called, k, had
    <3>3. Removed(k, left) = TakesOf(k, had)
      BY <1>2, <3>1, <3>2, CallTakes
    <3> QED
      BY <3>3 DEF k
  <2> HIDE DEF k
  <2>5. Takes(Called(q.todo), had) \cup gone = Takes(Called(q.todo) \cup {k}, had)
    BY <1>1, <2>4 DEF Takes, TakesOf
  <2> QED
    BY <1>1, <2>2, <2>5 DEF k
<1> QED
  BY <1>1, <1>3, <1>4, <1>5 DEF Going

\* A step of such a request: it takes the lock, one of its calls fails or
\* removes something, or its answer is sent.
Shape(r, new) ==
    LET q == req[r] IN
    \/ /\ q.todo # <<>> /\ r \notin readers /\ readers' = readers \cup {r} /\ disk' = disk
       /\ new.todo = q.todo /\ new.status = q.status /\ new.freed = q.freed /\ new.seen = disk
    \/ /\ readers' = readers \ {r} /\ disk' = disk
       /\ new.todo = <<>> /\ new.status = 500 /\ new.freed = q.freed /\ new.seen = q.seen
    \/ /\ q.todo # <<>> /\ r \in readers /\ disk' = disk \ Removed(Head(q.todo), disk)
       /\ readers' = IF new.todo = <<>> THEN readers \ {r} ELSE readers
       /\ new.todo = Tail(q.todo) /\ new.status = q.status /\ new.seen = q.seen
       /\ new.freed = q.freed \cup Removed(Head(q.todo), disk)
    \/ /\ UNCHANGED <<readers, disk>>
       /\ q.todo = <<>> /\ new.todo = <<>> /\ new.freed = q.freed /\ new.seen = q.seen
       /\ q.status = 0 \/ new.status = q.status

\* What a step of a request makes of its record, whichever it is.
Same(new, q) == new.kind = q.kind /\ new.body = q.body /\ new.pc # "none"

\* What the two ends of a handler answer.
LEMMA FailedStatus ==
    ASSUME DInv, NEW r \in Requests, req[r].kind # "list" PROVE Fails(r, 500).status = 500
<1> DEFINE q == req[r]
<1>1. q \in RequestState
  BY DEF DInv
<1> HIDE DEF q
<1>2. [q EXCEPT !.todo = <<>>, !.status = 500].status = 500
  BY <1>1 DEF RequestState
<1> QED
  BY <1>2 DEF Fails, q

LEMMA AnsweredStatus ==
    ASSUME DInv, NEW r \in Requests, NEW status PROVE Answers(r, status).status = status
<1> DEFINE q == req[r]
<1>1. q \in RequestState
  BY DEF DInv
<1> HIDE DEF q
<1>2. [q EXCEPT !.pc = "answered", !.todo = <<>>, !.status = status].status = status
  BY <1>1 DEF RequestState
<1> QED
  BY <1>2 DEF Answers, q

\* A prune has only calls of the daemon to make.
LEMMA PruneCallsOnly ==
    ASSUME DInv, NEW r \in Requests, req[r].kind = "prune", req[r].todo # <<>>
    PROVE  Head(req[r].todo) \in PruneKinds
<1> DEFINE t == req[r].todo
           own == Asked(req[r].body)
<1>1. t \in Seq(own) /\ t # <<>>
  BY DEF DInv, Sound, Todo
<1>2. own \subseteq PruneKinds
  BY AskedIsPruned
<1> HIDE DEF t, own
<1>3. Head(t) \in own
  BY <1>1
<1> QED
  BY <1>2, <1>3 DEF t

\* Every step of a handler leaves kind and body; those of such a prune are these.
LEMMA HandleShape ==
    ASSUME DInv, NEW r \in Requests, Handle(r)
    PROVE  \E new : /\ req' = [req EXCEPT ![r] = new] /\ Same(new, req[r])
                    /\ AsksAll(req[r]) => Shape(r, new)
<1> DEFINE Goal == \E new : /\ req' = [req EXCEPT ![r] = new] /\ Same(new, req[r])
                            /\ AsksAll(req[r]) => Shape(r, new)
<1>1. req \in [Requests -> RequestState] /\ Active(r)
  BY DEF DInv, Handle, Lock, Answer, Prune, Peek, Sample, Compose, Save, Upgrade, Reply, At
<1>2. ASSUME NEW new, req' = [req EXCEPT ![r] = new], Same(new, req[r]),
             AsksAll(req[r]) => Shape(r, new)
      PROVE  Goal
  BY <1>2
<1>3. ASSUME NEW new, req' = [req EXCEPT ![r] = new] PROVE req'[r] = new
  BY <1>1, <1>3
<1>4. req[r].todo # <<>> => Succeeds(r) \in RequestState /\ Same(Succeeds(r), req[r])
  BY <1>1, SucceedsType DEF Same, Active
<1>5. \A status \in {404, 500} : Fails(r, status) \in RequestState /\ Same(Fails(r, status), req[r])
  BY <1>1, FailsType DEF Same, Active
<1>6. req[r].kind = "prune" /\ req[r].todo # <<>> => Head(req[r].todo) \in PruneKinds
  BY PruneCallsOnly
<1>7. CASE Lock(r)
  <2> DEFINE q == req[r]
             new == [q EXCEPT !.seen = disk]
  <2>1. q \in RequestState
    BY <1>1
  <2>2. CASE q.kind = "prune"
    <3>1. req' = [req EXCEPT ![r] = new]
      BY <1>7, <2>2 DEF Lock
    <3>2. /\ q.todo # <<>> /\ r \notin readers /\ readers' = readers \cup {r} /\ disk' = disk
          /\ q.pc = "handler"
      BY <1>7 DEF Lock, At, Active
    <3> DEFINE p == q
    <3>3. p \in RequestState /\ p = req[r]
      BY <2>1
    <3> HIDE DEF q
    <3>4. /\ new.todo = q.todo /\ new.status = q.status /\ new.freed = q.freed /\ new.seen = disk
          /\ new.kind = q.kind /\ new.body = q.body /\ new.pc = q.pc
      BY <2>1 DEF RequestState
    <3> HIDE DEF new
    <3>5. Same(new, q) /\ Shape(r, new)
      BY <3>2, <3>4 DEF Same, Shape, q
    <3> QED
      BY <1>2, <3>1, <3>5 DEF q
  <2>3. CASE q.kind # "prune"
    <3>1. req' = [req EXCEPT ![r] = req[r]] /\ Same(req[r], req[r]) /\ ~AsksAll(req[r])
      BY <1>1, <1>7, <2>3 DEF Lock, Same, AsksAll, Active
    <3> QED
      BY <1>2, <3>1
  <2> QED
    BY <2>2, <2>3
<1>8. ASSUME req' = [req EXCEPT ![r] = Fails(r, 500)], readers' = Unlock(r), disk' = disk
      PROVE  Goal
  <2> DEFINE q == req[r]
             new == Fails(r, 500)
  <2>1. /\ new.todo = <<>> /\ new.freed = q.freed /\ new.seen = q.seen /\ Same(new, q)
    <3>1. 500 \in {404, 500}
      OBVIOUS
    <3> QED
      BY <1>1, <3>1, FailsType DEF Same, Active
  <2>2. q.kind # "list" => new.status = 500
    BY FailedStatus
  <2>3. req'[r] = new
    BY <1>3, <1>8
  <2>4. readers' = readers \ {r}
    BY <1>8, <2>1, <2>3 DEF Unlock
  <2> HIDE DEF new
  <2>5. AsksAll(q) => Shape(r, new)
    BY <1>8, <2>1, <2>2, <2>4 DEF Shape, AsksAll
  <2> QED
    BY <1>8, <2>1, <2>5 DEF new
<1>9. ASSUME req[r].kind # "prune", NEW new, req' = [req EXCEPT ![r] = new], Same(new, req[r])
      PROVE  Goal
  BY <1>2, <1>9 DEF AsksAll
<1>10. CASE Answer(r)
  <2>1. CASE req' = [req EXCEPT ![r] = Fails(r, 500)]
    BY <1>8, <1>10, <2>1 DEF Answer
  <2>2. req[r].kind # "prune" /\ req[r].todo # <<>>
    BY <1>6, <1>10 DEF Answer, At, PruneKinds
  <2>3. CASE req' = [req EXCEPT ![r] = Succeeds(r)]
    BY <1>4, <1>9, <2>2, <2>3
  <2>4. CASE req' = [req EXCEPT ![r] =
                        [Succeeds(r) EXCEPT !.seen = disk, !.info = StorageInfo(disk)]]
    <3> DEFINE on == Succeeds(r)
               info == StorageInfo(disk)
               new == [on EXCEPT !.seen = disk, !.info = info]
    <3>1. on \in RequestState /\ Same(on, req[r])
      BY <1>4, <2>2
    <3>2. req' = [req EXCEPT ![r] = new]
      BY <2>4
    <3> HIDE DEF on, info
    <3>3. new.kind = on.kind /\ new.body = on.body /\ new.pc = on.pc
      BY <3>1 DEF RequestState
    <3> HIDE DEF new
    <3>4. Same(new, req[r])
      BY <3>1, <3>3 DEF Same
    <3> QED
      BY <1>9, <2>2, <3>2, <3>4
  <2> QED
    BY <1>10, <2>1, <2>3, <2>4 DEF Answer
<1>11. CASE Prune(r)
  <2>1. CASE req' = [req EXCEPT ![r] = Fails(r, 500)] /\ UNCHANGED disk
    BY <1>8, <1>11, <2>1 DEF Prune
  <2>2. CASE LET gone == Removed(Head(req[r].todo), disk) IN
             /\ disk' = disk \ gone
             /\ req' = [req EXCEPT ![r] = [Succeeds(r) EXCEPT
                           !.freed = @ \cup gone, !.reclaimed = @ + Reclaimed(gone)]]
    <3> DEFINE q == req[r]
               on == Succeeds(r)
               gone == Removed(Head(q.todo), disk)
               sum == on.reclaimed + Reclaimed(gone)
               all == on.freed \cup gone
               new == [on EXCEPT !.freed = all, !.reclaimed = sum]
    <3>1. q.todo # <<>> /\ r \in readers /\ readers' = Unlock(r) /\ disk' = disk \ gone
      BY <1>11, <2>2 DEF Prune, At
    <3>2. /\ on \in RequestState /\ Same(on, q) /\ on.todo = Tail(q.todo)
          /\ on.status = q.status /\ on.freed = q.freed /\ on.seen = q.seen
      BY <1>4, <3>1, SucceedsType
    <3>3. req' = [req EXCEPT ![r] = new]
      <4> HIDE DEF gone
      <4>1. req' = [req EXCEPT ![r] = [on EXCEPT
                       !.freed = @ \cup gone, !.reclaimed = @ + Reclaimed(gone)]]
        BY <2>2 DEF gone
      <4> HIDE DEF on
      <4> QED
        BY <3>2, <4>1 DEF RequestState
    <3> HIDE DEF on, sum, all, gone, q
    <3>4. /\ new.todo = on.todo /\ new.status = on.status /\ new.freed = all
          /\ new.seen = on.seen /\ new.kind = on.kind /\ new.body = on.body /\ new.pc = on.pc
      BY <3>2 DEF RequestState
    <3> HIDE DEF new
    <3>5. readers' = IF new.todo = <<>> THEN readers \ {r} ELSE readers
      <4>1. req'[r] = new
        BY <1>3, <3>3
      <4> QED
        BY <3>1, <4>1 DEF Unlock
    <3>6. new.freed = q.freed \cup gone /\ new.todo = Tail(q.todo)
      BY <3>2, <3>4 DEF all
    <3>7. Same(new, q) /\ Shape(r, new)
      BY <3>1, <3>2, <3>4, <3>5, <3>6 DEF Same, Shape, q, gone
    <3> QED
      BY <1>2, <3>3, <3>7 DEF q
  <2> QED
    BY <1>11, <2>1, <2>2 DEF Prune
<1>12. CASE Compose(r)
  <2>1. req[r].kind # "prune" /\ req[r].todo # <<>>
    BY <1>6, <1>12 DEF Compose, At, PruneKinds
  <2> QED
    BY <1>4, <1>5, <1>9, <1>12, <2>1 DEF Compose
<1>13. CASE Peek(r) \/ Sample(r)
  <2>1. /\ req[r].kind # "prune" /\ req[r].todo # <<>>
        /\ req' = [req EXCEPT ![r] = Succeeds(r)]
    BY <1>6, <1>13 DEF Peek, Sample, At, PruneKinds
  <2> QED
    BY <1>4, <1>9, <2>1
<1>14. CASE Save(r)
  <2>1. req[r].kind # "prune" /\ req[r].todo # <<>>
    BY <1>6, <1>14 DEF Save, At, PruneKinds
  <2>2. CASE req' = [req EXCEPT ![r] = Succeeds(r)]
    BY <1>4, <1>9, <2>1, <2>2
  <2>3. CASE req' = [req EXCEPT ![r] = [Fails(r, 404) EXCEPT !.late = (store = "closed")]]
    <3> DEFINE end == Fails(r, 404)
               late == (store = "closed")
               new == [end EXCEPT !.late = late]
    <3>1. end \in RequestState /\ Same(end, req[r])
      BY <1>5
    <3>2. req' = [req EXCEPT ![r] = new]
      BY <2>3
    <3> HIDE DEF end, late
    <3>3. new.kind = end.kind /\ new.body = end.body /\ new.pc = end.pc
      BY <3>1 DEF RequestState
    <3> HIDE DEF new
    <3>4. Same(new, req[r])
      BY <3>1, <3>3 DEF Same
    <3> QED
      BY <1>9, <2>1, <3>2, <3>4
  <2> QED
    BY <1>14, <2>2, <2>3 DEF Save
<1>15. CASE Upgrade(r)
  <2>1. req[r].kind # "prune" /\ req[r].todo # <<>>
    BY <1>6, <1>15 DEF Upgrade, At, PruneKinds
  <2> DEFINE on == Succeeds(r)
             answer == IF CanHijack THEN 101 ELSE 500
             new == [on EXCEPT !.status = answer]
  <2>2. on \in RequestState /\ Same(on, req[r])
    BY <1>4, <2>1
  <2>3. req' = [req EXCEPT ![r] = new]
    BY <1>15 DEF Upgrade
  <2> HIDE DEF on, answer
  <2>4. new.kind = on.kind /\ new.body = on.body /\ new.pc = on.pc
    BY <2>2 DEF RequestState
  <2> HIDE DEF new
  <2>5. Same(new, req[r])
    BY <2>2, <2>4 DEF Same
  <2> QED
    BY <1>9, <2>1, <2>3, <2>5
<1>16. CASE Reply(r)
  <2>1. \A status \in {0, 101, 200, 400, 404, 500} :
            LET new == Answers(r, status) IN
            /\ Same(new, req[r]) /\ new.todo = <<>> /\ new.status = status
            /\ new.freed = req[r].freed /\ new.seen = req[r].seen
    BY AnswersType, AnsweredStatus DEF Same
  <2>2. CASE /\ req[r].todo = <<>>
             /\ req' = [req EXCEPT ![r] =
                           Answers(r, IF req[r].status = 0 THEN 200 ELSE req[r].status)]
    <3> DEFINE status == IF req[r].status = 0 THEN 200 ELSE req[r].status
               new == Answers(r, status)
    <3>1. req[r].status \in {0, 101, 200, 400, 404, 500}
      BY <1>1 DEF RequestState
    <3>2. status \in {0, 101, 200, 400, 404, 500} /\ (req[r].status = 0 \/ status = req[r].status)
      BY <3>1
    <3>3. req' = [req EXCEPT ![r] = new]
      BY <2>2
    <3> HIDE DEF status
    <3>4. /\ Same(new, req[r]) /\ new.todo = <<>> /\ new.status = status
          /\ new.freed = req[r].freed /\ new.seen = req[r].seen
      BY <2>1, <3>2
    <3> HIDE DEF new
    <3>5. Shape(r, new)
      BY <1>16, <2>2, <3>2, <3>4 DEF Reply, Shape
    <3> QED
      BY <1>2, <3>3, <3>4, <3>5
  <2>3. ASSUME NEW status \in Refusals(req[r].kind),
               req' = [req EXCEPT ![r] = Answers(r, status)]
        PROVE  Goal
    <3> DEFINE new == Answers(r, status)
    <3>1. status \in {0, 101, 200, 400, 404, 500}
      BY <2>3, RefusalsType
    <3>2. Same(new, req[r])
      BY <2>1, <3>1
    <3>3. req[r].kind # "prune"
      BY <2>3 DEF Refusals
    <3>4. req' = [req EXCEPT ![r] = new]
      BY <2>3
    <3> HIDE DEF new
    <3> QED
      BY <1>9, <3>2, <3>3, <3>4
  <2> QED
    BY <1>16, <2>2, <2>3 DEF Reply
<1> QED
  BY <1>7, <1>10, <1>11, <1>12, <1>14, <1>15, <1>16, <1>13 DEF Handle

\* Before the server serves nobody has come, and who has not come holds no lock.
Early == {"load", "ping", "open", "scan", "refresh"}
PInv == /\ main \in Early => \A r \in Requests : req[r].pc = "none"
        /\ \A r \in Requests : req[r].pc = "none" => r \notin readers
        /\ \A r \in Requests : AsksAll(req[r]) => Going(req[r], disk, r \in readers)

\* PInv is inductive.
LEMMA ServerGoesInit == Init => PInv
<1>1. Nothing.pc = "none" /\ Nothing.kind = "map"
  BY DEF Nothing
<1>2. Init => \A r \in Requests : req[r] = Nothing /\ r \notin readers
  BY DEF Init
<1> QED
  BY <1>1, <1>2 DEF PInv, AsksAll

\* The steps of run and of the scanner touch no request's lock.
LEMMA AroundGoes ==
    ASSUME PInv, MainStep \/ Signal \/ Listen \/ Tick \/ TickDone \/ TickerStops \/ UNCHANGED vars
    PROVE  PInv'
<1>1. UNCHANGED <<req, disk>>
  BY DEF MainStep, Load, Ping, OpenStore, Scan, Stop, Shutdown, CloseStore, CloseClient,
         Signal, Listen, Tick, TickDone, TickerStops, vars
<1>2. main' \in Early => main \in Early
  BY DEF MainStep, Load, Ping, OpenStore, Scan, Serve, Stop, Shutdown, CloseStore, CloseClient,
         Signal, Listen, Tick, TickDone, TickerStops, vars, Early
<1>3. \A r \in Requests : r # Main /\ r # Ticker
  BY ServerAssumption
<1>4. ASSUME NEW r \in Requests PROVE r \in readers' <=> r \in readers
  <2>1. CASE Load \/ Scan
    <3>1. main \in Early
      BY <2>1 DEF Load, Scan, Early
    <3>2. r \notin readers
      BY <3>1 DEF PInv
    <3> QED
      BY <1>3, <2>1, <3>2 DEF Load, Scan
  <2>2. CASE Ping \/ OpenStore \/ Stop \/ Shutdown \/ CloseStore \/ CloseClient
    BY <1>3, <2>2 DEF Ping, OpenStore, Stop, Shutdown, CloseStore, CloseClient
  <2>3. CASE Signal \/ Listen \/ Tick \/ TickDone \/ TickerStops \/ UNCHANGED vars
    BY <1>3, <2>3 DEF Signal, Listen, Tick, TickDone, TickerStops, vars
  <2> QED
    BY <2>1, <2>2, <2>3 DEF MainStep
<1>5. ASSUME NEW r \in Requests, AsksAll(req'[r]) PROVE Going(req'[r], disk', r \in readers')
  BY <1>1, <1>4, <1>5 DEF PInv, Going
<1> QED
  BY <1>1, <1>2, <1>4, <1>5 DEF PInv, AsksAll

\* A request that comes has seen and freed nothing.
LEMMA ArriveGoes == ASSUME DInv, PInv, NEW r \in Requests, Arrive(r) PROVE PInv'
<1>1. PICK k \in Kinds, b \in Bodies :
          req' = [req EXCEPT ![r] = [Nothing EXCEPT !.pc = "handler", !.kind = k, !.body = b,
                     !.todo = IF k = "prune" THEN PruneCalls(b) ELSE Programs[k]]]
  BY DEF Arrive
<1> DEFINE none == Nothing
           calls == IF k = "prune" THEN PruneCalls(b) ELSE Programs[k]
           new == [none EXCEPT !.pc = "handler", !.kind = k, !.body = b, !.todo = calls]
<1>2. none \in RequestState /\ none.freed = {} /\ none.seen = {} /\ none.status = 0
  <2>1. Nothing.freed = {} /\ Nothing.seen = {} /\ Nothing.status = 0
    BY DEF Nothing
  <2> QED
    BY <2>1, NothingIsSound DEF Sound
<1>3. req' = [req EXCEPT ![r] = new]
  BY <1>1
<1> HIDE DEF none, calls
<1>4. /\ new.pc = "handler" /\ new.kind = k /\ new.body = b /\ new.todo = calls
      /\ new.freed = {} /\ new.seen = {} /\ new.status = 0
  BY <1>2 DEF RequestState
<1> HIDE DEF new
<1>5. /\ UNCHANGED <<main, readers, disk>> /\ main = "serving" /\ r \notin readers
      /\ req'[r] = new /\ \A t \in Requests \ {r} : req'[t] = req[t]
  BY <1>3 DEF Arrive, Outside, PInv, DInv
<1>6. AsksAll(new) => Going(new, disk, FALSE)
  <2> SUFFICES ASSUME AsksAll(new) PROVE Going(new, disk, FALSE)
    OBVIOUS
  <2>1. new.todo = <<"container", "image", "cache", "network">>
    BY <1>4, AllCalls DEF AsksAll, calls
  <2>2. new.todo \in Stages /\ new.todo # <<>> /\ Head(new.todo) = "container"
    BY <2>1 DEF Stages
  <2>3. \A kinds : Takes(kinds, {}) = {}
    BY DEF Takes, Freeable, Of
  <2> QED
    BY <1>4, <2>2, <2>3 DEF Going
<1>7. ASSUME NEW t \in Requests, AsksAll(req'[t]) PROVE Going(req'[t], disk', t \in readers')
  <2>1. CASE t = r
    <3>1. Going(new, disk, FALSE)
      BY <1>5, <1>6, <1>7, <2>1
    <3> QED
      BY <1>5, <2>1, <3>1 DEF Going
  <2>2. CASE t # r
    BY <1>5, <1>7, <2>2 DEF PInv
  <2> QED
    BY <2>1, <2>2
<1>8. \A t \in Requests : req'[t].pc = "none" => t \notin readers'
  BY <1>4, <1>5 DEF PInv
<1>9. main' \notin Early
  BY <1>5 DEF Early
<1> QED
  BY <1>7, <1>8, <1>9 DEF PInv, AsksAll

\* A step of the handler of such a request.
LEMMA ShapeGoes ==
    ASSUME DInv, NEW r \in Requests, NEW new, Shape(r, new), Going(req[r], disk, r \in readers)
    PROVE  Going(new, disk', r \in readers')
<1> DEFINE q == req[r]
           gone == Removed(Head(q.todo), disk)
<1>1. disk \in SUBSET Items /\ q.seen \in SUBSET Items /\ q.freed \cap disk = {}
  BY DEF DInv, RequestState
<1>2. CASE /\ q.todo # <<>> /\ r \notin readers /\ readers' = readers \cup {r} /\ disk' = disk
           /\ new.todo = q.todo /\ new.status = q.status /\ new.freed = q.freed /\ new.seen = disk
  <2>1. Going(q, disk, FALSE)
    BY <1>2 DEF Going
  <2>2. /\ new.todo = q.todo /\ new.status = q.status /\ new.freed = q.freed
        /\ new.seen = disk /\ q.todo # <<>>
    BY <1>2
  <2>3. Going(new, disk, TRUE)
    <3> HIDE DEF q
    <3> QED
      BY <2>1, <2>2, GoingLocks
  <2> QED
    BY <1>2, <2>3 DEF Going
<1>3. CASE /\ readers' = readers \ {r} /\ disk' = disk
           /\ new.todo = <<>> /\ new.status = 500 /\ new.freed = q.freed /\ new.seen = q.seen
  <2>1. r \notin readers' /\ <<>> \in Stages
    BY <1>3 DEF Stages
  <2> HIDE DEF gone
  <2> QED
    BY <1>3, <2>1 DEF Going
<1>4. CASE /\ q.todo # <<>> /\ r \in readers /\ disk' = disk \ gone
           /\ readers' = IF new.todo = <<>> THEN readers \ {r} ELSE readers
           /\ new.todo = Tail(q.todo) /\ new.status = q.status /\ new.seen = q.seen
           /\ new.freed = q.freed \cup gone
  <2> DEFINE locked == r \in readers'
  <2>1. Going(q, disk, TRUE)
    BY <1>4 DEF Going
  <2>2. locked <=> new.todo # <<>>
    BY <1>4
  <2>3. gone = Removed(Head(q.todo), disk)
    OBVIOUS
  <2> HIDE DEF q, gone, locked
  <2>4. Going(new, disk \ gone, locked)
    BY <1>1, <1>4, <2>1, <2>2, <2>3, GoingPrunes
  <2> QED
    BY <1>4, <2>4 DEF locked
<1>5. CASE /\ UNCHANGED <<readers, disk>>
           /\ q.todo = <<>> /\ new.todo = <<>> /\ new.freed = q.freed /\ new.seen = q.seen
           /\ q.status = 0 \/ new.status = q.status
  BY <1>5, GoingAnswers
<1> QED
  BY <1>2, <1>3, <1>4, <1>5 DEF Shape

\* Others' prunes only take from the disk.
LEMMA HandleGoes == ASSUME DInv, PInv, NEW r \in Requests, Handle(r) PROVE PInv'
<1>1. PICK new : /\ req' = [req EXCEPT ![r] = new] /\ Same(new, req[r])
                 /\ AsksAll(req[r]) => Shape(r, new)
  BY HandleShape
<1>2. /\ main' = main /\ disk' \subseteq disk
      /\ \A t \in Requests \ {r} : t \in readers' <=> t \in readers
  BY DEF Handle, Lock, Answer, Prune, Peek, Sample, Compose, Save, Upgrade, Reply, Outside, Unlock
<1>3. main \notin Early
  BY DEF Handle, Lock, Answer, Prune, Peek, Sample, Compose, Save, Upgrade, Reply, At, Active, PInv
<1>4. req'[r] = new /\ \A t \in Requests \ {r} : req'[t] = req[t]
  BY <1>1 DEF DInv
<1>5. ASSUME NEW t \in Requests, AsksAll(req'[t]) PROVE Going(req'[t], disk', t \in readers')
  <2>1. CASE t = r
    <3>1. AsksAll(req[r])
      BY <1>1, <1>4, <1>5, <2>1 DEF AsksAll, Same
    <3>2. Going(new, disk', r \in readers')
      BY <1>1, <3>1, ShapeGoes DEF PInv
    <3> QED
      BY <1>4, <2>1, <3>2
  <2>2. CASE t # r
    <3>1. req'[t] = req[t] /\ (t \in readers' <=> t \in readers)
      BY <1>2, <1>4, <2>2
    <3>2. Going(req[t], disk, t \in readers)
      BY <1>5, <3>1 DEF PInv
    <3> DEFINE now == disk'
    <3>3. now \in SUBSET disk
      BY <1>2
    <3> HIDE DEF now
    <3>4. Going(req[t], now, t \in readers)
      BY <3>2, <3>3, GoingBesides
    <3> QED
      BY <3>1, <3>4 DEF Going, now
  <2> QED
    BY <2>1, <2>2
<1>6. \A t \in Requests : req'[t].pc = "none" => t \notin readers'
  BY <1>1, <1>2, <1>4 DEF PInv, Same
<1> QED
  BY <1>2, <1>3, <1>5, <1>6 DEF PInv, AsksAll

LEMMA ServerGoesStep == DInv /\ PInv /\ [Next]_vars => PInv'
  BY AroundGoes, ArriveGoes, HandleGoes DEF Next

\* What goes is worth what is offered and what only stopped containers hold, less
\* what is offered in vain; what images share is the difference to what it takes.
LEMMA OfferIsKept ==
    ASSUME NEW had \in SUBSET Items, NEW freed, freed = Takes(Offer, had)
    PROVE  LET stopped == Prunable("container", had)
               goes    == {i \in Of("image", had) \ Busy : UsedBy[i] \cap had \subseteq stopped}
               vain    == Offered(had) \cap Busy
               bonus   == stopped \cup {i \in goes : UsedBy[i] \cap had # {}}
               shared  == Worth(goes) - Reclaimed(Freeable(goes, had))
           IN  /\ shared \in Nat
               /\ Reclaimed(freed) + Worth(vain) + shared = Worth(Offered(had)) + Worth(bonus)
<1> DEFINE stopped == Prunable("container", had)
           goes    == {i \in Of("image", had) \ Busy : UsedBy[i] \cap had \subseteq stopped}
           offered == Offered(had)
           vain    == offered \cap Busy
           bonus   == stopped \cup {i \in goes : UsedBy[i] \cap had # {}}
           layers  == Freeable(goes, had)
           own     == {i \in had : Kind[i] \in {"container", "cache"} /\ i \notin Busy}
           none    == goes \cup {i \in had : Kind[i] = "network" /\ ShouldGo(i, had)}
<1>1. \A i \in Items : Kind[i] \in {"container", "cache"} => UsedBy[i] = {}
  BY DaemonAssumption
<1>2. stopped = {i \in had : Kind[i] = "container" /\ i \notin Busy}
  BY <1>1 DEF Prunable, Of, InUse
<1>3. offered = {i \in had : \/ Kind[i] = "cache"
                             \/ Kind[i] = "image" /\ UsedBy[i] \cap had = {}}
  BY DEF Offered, Of
<1>4. goes = {i \in had : /\ Kind[i] = "image" /\ i \notin Busy
                          /\ UsedBy[i] \cap had \subseteq stopped}
  BY DEF Of
<1>5. goes = Unneeded(had)
  BY DEF Unneeded, ShouldGo, Of
<1>6. layers \in SUBSET had /\ \A i \in layers : Kind[i] = "layer"
  BY DEF Freeable, Of
<1>7. freed = (own \cup none) \cup layers
  <2>1. "image" \in Offer
    BY DEF Offer, PruneKinds
  <2>2. freed = {i \in had : Kind[i] \in Offer /\ ShouldGo(i, had)} \cup layers
    BY <1>5, <2>1 DEF Takes
  <2>3. \A k : k \in Offer <=> k \in {"container", "image", "cache", "network"}
    BY DEF Offer, PruneKinds
  <2>4. \A i \in had : Kind[i] \in {"container", "cache"} => (ShouldGo(i, had) <=> i \notin Busy)
    BY <1>1 DEF ShouldGo
  <2>5. \A i \in had : i \in goes <=> Kind[i] = "image" /\ ShouldGo(i, had)
    BY <1>4 DEF ShouldGo
  <2> HIDE DEF goes, layers
  <2>6. {i \in had : Kind[i] \in Offer /\ ShouldGo(i, had)} = own \cup none
    <3>1. ASSUME NEW i \in had, Kind[i] \in Offer, ShouldGo(i, had) PROVE i \in own \cup none
      BY <2>3, <2>4, <2>5, <3>1
    <3>2. ASSUME NEW i \in own PROVE Kind[i] \in Offer /\ ShouldGo(i, had)
      BY <2>3, <2>4
    <3>3. goes \subseteq had
      BY <1>4
    <3>4. ASSUME NEW i \in none PROVE i \in had /\ Kind[i] \in Offer /\ ShouldGo(i, had)
      BY <2>3, <2>5, <3>3
    <3> QED
      BY <3>1, <3>2, <3>4
  <2> QED
    BY <2>2, <2>6
<1> HIDE DEF stopped, offered, goes, layers
<1>8. /\ own \in SUBSET Items /\ \A i \in own : Kind[i] # "image"
      /\ none \in SUBSET Items /\ \A i \in none : Kind[i] \in {"network", "image"}
      /\ own \cap none = {} /\ (own \cup none) \cap layers = {}
      /\ layers \in SUBSET Items
  BY <1>4, <1>6
<1>9. /\ offered \in SUBSET Items /\ bonus \in SUBSET Items /\ vain \in SUBSET Items
      /\ goes \in SUBSET Items /\ goes \in SUBSET Of("image", had)
      /\ offered \cap bonus = {} /\ own \cap goes = {} /\ vain \cap (own \cup goes) = {}
  BY <1>2, <1>3, <1>4 DEF Of
<1>10. offered \cup bonus = vain \cup (own \cup goes)
  <2>1. ASSUME NEW i \in offered \cup bonus PROVE i \in vain \cup (own \cup goes)
    BY <1>2, <1>3, <1>4
  <2>2. ASSUME NEW i \in vain \cup (own \cup goes) PROVE i \in offered \cup bonus
    BY <1>2, <1>3, <1>4
  <2> QED
    BY <2>1, <2>2
<1> HIDE DEF vain, bonus, own, none
<1>11. Reclaimed(freed) = Reclaimed(own) + Reclaimed(none) + Reclaimed(layers)
  <2>1. own \cup none \in SUBSET Items
    BY <1>8
  <2>2. Reclaimed((own \cup none) \cup layers) = Reclaimed(own \cup none) + Reclaimed(layers)
    BY <1>8, <2>1, ReclaimedOfBoth
  <2>3. Reclaimed(own \cup none) = Reclaimed(own) + Reclaimed(none)
    BY <1>8, ReclaimedOfBoth
  <2> QED
    BY <1>7, <2>2, <2>3
<1>12. Reclaimed(none) = 0
  BY <1>8, ReclaimedOfEmpty
<1>13. Worth(own) = Reclaimed(own)
  BY <1>8, WorthOfOthers
<1>14. Worth(offered) + Worth(bonus) = Worth(vain) + (Worth(own) + Worth(goes))
  <2>1. own \cup goes \in SUBSET Items
    BY <1>8, <1>9
  <2>2. Worth(offered \cup bonus) = Worth(offered) + Worth(bonus)
    BY <1>9, ReclaimedOfBoth
  <2>3. Worth(vain \cup (own \cup goes)) = Worth(vain) + Worth(own \cup goes)
    BY <1>9, <2>1, ReclaimedOfBoth
  <2>4. Worth(own \cup goes) = Worth(own) + Worth(goes)
    BY <1>8, <1>9, ReclaimedOfBoth
  <2> QED
    BY <1>10, <2>2, <2>3, <2>4
<1>15. Reclaimed(layers) <= Worth(goes)
  BY <1>9, FreedOfImages DEF layers
<1>16. /\ Reclaimed(own) \in Nat /\ Reclaimed(layers) \in Nat
       /\ Worth(vain) \in Nat /\ Worth(goes) \in Nat
  BY <1>8, <1>9, ReclaimedType
<1>17. /\ Worth(goes) - Reclaimed(layers) \in Nat
       /\ Reclaimed(freed) + Worth(vain) + (Worth(goes) - Reclaimed(layers))
              = Worth(offered) + Worth(bonus)
  BY <1>11, <1>12, <1>13, <1>14, <1>15, <1>16
<1> QED
  BY <1>17 DEF vain, bonus, goes, layers, stopped, offered

\* What the storage panel calls reclaimable is what a prune of all that it
\* offers reclaims, but for what it says in vain, for layers that images share
\* and for what stopped containers hold, for any disk, any sharing of layers and
\* any requests, if nobody comes between the two.
THEOREM ServerPromiseKept == Spec => []PromiseKept
<1>1. DInv /\ PInv => PromiseKept
  <2> SUFFICES ASSUME DInv, PInv, NEW s \in Requests, NEW p \in Requests,
                      req[s].kind = "storage", req[p].kind = "prune", req[p].status = 200,
                      Asked(req[p].body) = PruneKinds \ {"volume"},
                      req[p].seen = req[s].seen, req[s].seen \ disk \subseteq req[p].freed
               PROVE  LET had     == req[s].seen
                          stopped == Prunable("container", had)
                          goes    == {i \in Of("image", had) \ Busy :
                                         UsedBy[i] \cap had \subseteq stopped}
                          vain    == Offered(had) \cap Busy
                          bonus   == stopped \cup {i \in goes : UsedBy[i] \cap had # {}}
                          shared  == Worth(goes) - Reclaimed(Freeable(goes, had))
                      IN  /\ shared >= 0
                          /\ (req[p].reclaimed + Worth(vain) + shared) % Word =
                                 (req[s].info.reclaimable + Worth(bonus)) % Word
    BY DEF PromiseKept
  <2> DEFINE had     == req[s].seen
             freed   == req[p].freed
             stopped == Prunable("container", had)
             goes    == {i \in Of("image", had) \ Busy : UsedBy[i] \cap had \subseteq stopped}
             vain    == Offered(had) \cap Busy
             bonus   == stopped \cup {i \in goes : UsedBy[i] \cap had # {}}
             shared  == Worth(goes) - Reclaimed(Freeable(goes, had))
  <2>1. had \in SUBSET Items /\ freed \in SUBSET Items
    BY DEF DInv, RequestState
  <2>2. req[s].info.reclaimable = Total(Size, Offered(had)) % Word
    <3>1. req[s].info = StorageInfo(had)
      BY DEF DInv, Sound, Read
    <3> QED
      BY <3>1, SumsAreTotals DEF StorageInfo
  <2>3. req[s].info.reclaimable = Worth(Offered(had)) % Word
    BY <2>1, <2>2, OfferedSizes
  <2>4. freed = Takes(Offer, had)
    <3>1. Going(req[p], disk, p \in readers)
      BY DEF PInv, AsksAll, Offer
    <3>2. req[p].todo = <<>>
      BY <3>1 DEF Going
    <3>3. freed = Takes(Called(<<>>), had)
      BY <3>1, <3>2 DEF Going
    <3> QED
      BY <3>3, AllCalls
  <2>5. req[p].reclaimed = Reclaimed(freed)
    BY DEF DInv, Sound, Did
  <2>6. bonus \in SUBSET Items /\ Offered(had) \in SUBSET Items
    BY <2>1 DEF Offered, Of, Prunable
  <2>7. /\ shared \in Nat
        /\ Reclaimed(freed) + Worth(vain) + shared = Worth(Offered(had)) + Worth(bonus)
    <3> HIDE DEF had, freed
    <3> QED
      BY <2>1, <2>4, OfferIsKept
  <2>8. ((Worth(Offered(had)) % Word) + Worth(bonus)) % Word
            = (Worth(Offered(had)) + Worth(bonus)) % Word
    <3>1. Worth(Offered(had)) \in Int /\ Worth(bonus) \in Int
      BY <2>6, ReclaimedType
    <3>2. Word \in Nat \ {0}
      BY StorageAssumption
    <3> HIDE DEF had, bonus
    <3> QED
      BY <3>1, <3>2, ReducedFirst
  <2> HIDE DEF shared
  <2>9. shared >= 0
    BY <2>7
  <2> QED
    BY <2>3, <2>5, <2>7, <2>8, <2>9 DEF shared
<1>2. Init => DInv /\ PInv
  BY ServerDiskInit, ServerGoesInit
<1>3. DInv /\ PInv /\ [Next]_vars => DInv' /\ PInv'
  BY ServerDiskStep, ServerGoesStep
<1> QED
  BY <1>1, <1>2, <1>3, PTL DEF Spec
=============================================================================
