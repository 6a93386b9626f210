--------------------------- MODULE WorkLeaseProofs ---------------------------
(***************************************************************************)
(* Proofs about WorkLease, for every set of tasks and workers, every batch  *)
(* size, every length of a lease and any number of mishaps.                 *)
(*                                                                         *)
(* What the store of the leases does to its index is taken from             *)
(* FlexStoreProofs, instantiated as WorkLease instantiates the store.       *)
(***************************************************************************)
EXTENDS WorkLease, TLAPS

Facts == INSTANCE FlexStoreProofs WITH
  Key <- Batch, Move <- Task, Pri <- {0}, WithPriority <- FALSE,
  AutoExpiryThreshold <- -1, PushModes <- {"replace"}, MaxBatch <- 1

Stages == {"idle", "popping", "filtering", "pushing", "answered", "working", "acked", "stopped"}

Job == [at : Stages, batch : SUBSET Task, left : SUBSET Task,
        file : BOOLEAN, whole : BOOLEAN, resuming : BOOLEAN]

Contents == [Batch -> Leases!Node \cup {Absent}]

\* Nothing lapses here, so that index and log are those of the contents.
StoreKeeps ==
  /\ key_map \in Contents
  /\ logged = key_map
  /\ items = Leases!PlacesOf(key_map)
  /\ clock \in 0..MaxTime

\* Requests carry tasks, those the filter is not through with among them; a file that is whole names a batch; a worker has been
\* through what it has no longer left.
JobOK(j, done) ==
  /\ j.at \in {"filtering", "pushing", "answered"} => j.batch # {}
  /\ j.at = "filtering" => j.left \subseteq j.batch
  /\ j.file /\ j.whole => j.batch # {}
  /\ j.at = "working" => j.file /\ j.batch \ j.left \subseteq done

JobsKeep == job \in [Worker -> Job] /\ \A w \in Worker : JobOK(job[w], tried)

\* A task tried in vain is spoiled; one that has a score is not asked for.
SkipsSpoil == tried \ scored \subseteq spoiled
ScoredNotOwed == owed \cap scored = {}

QueueKeeps == queued \subseteq Task /\ DOMAIN remembered = Task

\* The filter let it through.
Pushed(t) ==
  \E w \in Worker :
    /\ t \in job[w].batch
    /\ job[w].at = "pushing" \/ (job[w].at = "filtering" /\ t \notin job[w].left)

\* What memcached remembers was handed out: it is about to be leased, or is, or
\* was until somebody tried it, or a request was cut on the way.  getqueue drops
\* what is remembered, and loses nothing by it.
RememberedOut ==
  \A t \in Task : remembered[t] # Absent =>
    Leased(t) \/ Pushed(t) \/ t \in tried \/ t \in spoiled

\* What the proofs go by induction on.
IInv ==
  /\ StoreKeeps /\ QueueKeeps /\ JobsKeep
  /\ SkipsSpoil /\ ScoredNotOwed /\ RememberedOut /\ NothingLost

-----------------------------------------------------------------------------
(* The store *)

\* The instance meets what FlexStore assumes.
LEMMA Known ==
  /\ Facts!PriAssumption /\ Facts!TimeAssumption /\ Facts!BatchAssumption
  /\ Facts!AbsentAssumption /\ Facts!ModesAssumption /\ Facts!InstanceAssumption
BY StoreAssumption DEF Facts!PriAssumption, Facts!TimeAssumption, Facts!BatchAssumption,
     Facts!AbsentAssumption, Facts!ModesAssumption, Facts!InstanceAssumption,
     Facts!Node, Facts!Stamp, Leases!Node, Leases!Stamp, Facts!Modes

\* Both instances of the store are one.
LEMMA Same ==
  /\ Facts!Node = Leases!Node /\ Facts!Map = Contents /\ Facts!Stamp = 0..MaxTime
  /\ \A m : Facts!PlacesOf(m) = Leases!PlacesOf(m)
  /\ \A k, n : Facts!PlaceOf(k, n) = Leases!PlaceOf(k, n)
  /\ \A m, keys : Facts!Without(m, keys) = Leases!Without(m, keys)
  /\ \A places : Facts!KeysOf(places) = Leases!KeysOf(places)
  /\ \A m, keys, expiry : Facts!Postponed(m, keys, expiry) = Leases!Postponed(m, keys, expiry)
BY DEF Facts!Node, Leases!Node, Facts!Map, Contents, Facts!Stamp, Leases!Stamp,
     Facts!PlacesOf, Leases!PlacesOf, Facts!PlaceOf, Leases!PlaceOf, Facts!Without,
     Leases!Without, Facts!KeysOf, Leases!KeysOf, Facts!Postponed, Leases!Postponed

\* push: the batch is out, and whatever was out before.
LEMMA StoreStep ==
  ASSUME StoreKeeps, NEW k \in Batch, NEW n \in Leases!Node, Leases!Store(k, n), clock' = clock
  PROVE  /\ StoreKeeps'
         /\ \A batch \in Batch : key_map'[batch] # Absent <=> key_map[batch] # Absent \/ batch = k
<1>1. key_map' = [key_map EXCEPT ![k] = n] /\ logged' = [logged EXCEPT ![k] = n]
      /\ items' = (items \ Leases!Filed(k)) \cup {Leases!PlaceOf(k, n)}
  BY DEF Leases!Store
<1>2. key_map \in Contents /\ logged = key_map /\ items = Leases!PlacesOf(key_map)
      /\ clock \in 0..MaxTime
  BY DEF StoreKeeps
<1>3. n # Absent
  BY StoreAssumption
<1>4. key_map' \in Contents
  BY <1>1, <1>2 DEF Contents
<1>5. items' = Leases!PlacesOf(key_map')
  <2>1. Facts!PlacesOf([key_map EXCEPT ![k] = n]) =
          (Facts!PlacesOf(key_map) \ (IF key_map[k] = Absent THEN {} ELSE {Facts!PlaceOf(k, key_map[k])}))
            \cup {Facts!PlaceOf(k, n)}
    BY <1>2, Known, Same, Facts!PlacesStore
  <2> QED BY <1>1, <1>2, <2>1, Same DEF Leases!Filed
<1>6. StoreKeeps'
  BY <1>1, <1>2, <1>4, <1>5 DEF StoreKeeps, Leases!PlacesOf
<1> QED BY <1>1, <1>2, <1>3, <1>6 DEF Contents

\* remove: the batch is no longer out, and no other.
LEMMA RemoveStep ==
  ASSUME StoreKeeps, NEW r, NEW k \in Batch, Leases!Remove(r, k)
  PROVE  /\ StoreKeeps'
         /\ \A batch \in Batch : key_map'[batch] # Absent <=> key_map[batch] # Absent /\ batch # k
         /\ reply' = Leases!Reply("remove", {k})
<1>1. /\ key_map' = Leases!Without(key_map, {k})
      /\ logged' = IF key_map[k] = Absent THEN logged ELSE Leases!Without(logged, {k})
      /\ items' = items \ Leases!Filed(k)
      /\ clock' = clock /\ reply' = Leases!Reply("remove", {k})
  BY DEF Leases!Remove
<1>2. key_map \in Contents /\ logged = key_map /\ items = Leases!PlacesOf(key_map)
      /\ clock \in 0..MaxTime
  BY DEF StoreKeeps
<1>3. key_map' \in Contents /\ \A batch \in Batch : key_map'[batch] = IF batch = k THEN Absent ELSE key_map[batch]
  BY <1>1, <1>2 DEF Contents, Leases!Without
<1>4. logged' = key_map'
  <2>1. CASE key_map[k] = Absent
    <3>1. \A batch \in Batch : key_map'[batch] = key_map[batch]
      BY <1>3, <2>1
    <3> QED BY <1>1, <1>2, <1>3, <2>1, <3>1 DEF Contents
  <2>2. CASE key_map[k] # Absent
    BY <1>1, <1>2, <2>2
  <2> QED BY <2>1, <2>2
<1>5. items' = Leases!PlacesOf(key_map')
  <2>1. Facts!PlacesOf(Facts!Without(key_map, {k})) =
          Facts!PlacesOf(key_map) \ (IF key_map[k] = Absent THEN {} ELSE {Facts!PlaceOf(k, key_map[k])})
    BY <1>2, Known, Same, Facts!PlacesWithoutKey
  <2> QED BY <1>1, <1>2, <2>1, Same DEF Leases!Filed
<1>6. StoreKeeps'
  BY <1>1, <1>2, <1>3, <1>4, <1>5 DEF StoreKeeps, Leases!PlacesOf
<1> QED BY <1>1, <1>3, <1>6

\* refresh: what was out is out, and what is handed out again is a batch.
LEMMA RefreshStep ==
  ASSUME StoreKeeps, NEW r, Leases!Refresh(r, clock - LeaseTime, clock, 1)
  PROVE  /\ StoreKeeps'
         /\ \A batch \in Batch : key_map'[batch] # Absent <=> key_map[batch] # Absent
         /\ reply'.keys \subseteq Batch
<1>1. PICK some \in Leases!FirstOf({it \in items : it.expiry <= clock - LeaseTime}, 1, "asc") :
        LET due == Leases!KeysOf(some)
        IN /\ key_map' = Leases!Postponed(key_map, due, clock)
           /\ items' = (items \ some) \cup {Leases!PlaceOf(k, key_map'[k]) : k \in due}
           /\ logged' = [k \in Batch |-> IF k \in due THEN key_map'[k] ELSE logged[k]]
           /\ reply' = Leases!Reply("refresh", due)
  BY DEF Leases!Refresh
<1>0. clock' = clock
  BY DEF Leases!Refresh
<1>2. key_map \in Contents /\ logged = key_map /\ items = Leases!PlacesOf(key_map)
      /\ clock \in 0..MaxTime
  BY DEF StoreKeeps
<1> DEFINE due == Leases!KeysOf(some)
<1>3. some \subseteq items
  BY DEF Leases!FirstOf
<1>4. due \subseteq Batch /\ \A k \in due : key_map[k] # Absent
  <2>1. Facts!KeysOf(some) \subseteq Batch /\ \A k \in Facts!KeysOf(some) : key_map[k] # Absent
    BY <1>2, <1>3, Known, Same, Facts!KeysOfPlaces
  <2> QED BY <2>1, Same
<1>5. Leases!Postponed(key_map, due, clock) \in Contents
  <2>1. \A k \in Facts!KeysOf(some) : key_map[k] # Absent
    BY <1>4, Same
  <2>2. Facts!Postponed(key_map, Facts!KeysOf(some), clock) \in Facts!Map
    BY <1>2, <2>1, Known, Same, Facts!PostponedType
  <2> QED BY <2>2, Same
<1>6. \A k \in Batch : key_map'[k] = IF k \in due THEN [key_map[k] EXCEPT !.expiry = clock] ELSE key_map[k]
  BY <1>1 DEF Leases!Postponed
<1>7. logged' = key_map'
  <2>1. \A k \in Batch : logged'[k] = key_map'[k]
    BY <1>1, <1>2, <1>6
  <2>2. logged' = [k \in Batch |-> logged'[k]]
    BY <1>1
  <2>3. key_map' = [k \in Batch |-> key_map'[k]]
    BY <1>1, <1>5 DEF Contents
  <2> QED BY <2>1, <2>2, <2>3
<1>8. items' = Leases!PlacesOf(key_map')
  <2>1. LET m2 == Facts!Postponed(key_map, Facts!KeysOf(some), clock)
        IN Facts!PlacesOf(m2) = (Facts!PlacesOf(key_map) \ some)
                                  \cup {Facts!PlaceOf(k, m2[k]) : k \in Facts!KeysOf(some)}
    BY <1>2, <1>3, Known, Same, Facts!PlacesPostponed
  <2>2. Facts!Postponed(key_map, Facts!KeysOf(some), clock) = key_map'
    BY <1>1, Same
  <2>3. Facts!PlacesOf(key_map') = (Facts!PlacesOf(key_map) \ some)
                                      \cup {Facts!PlaceOf(k, key_map'[k]) : k \in Facts!KeysOf(some)}
    BY <2>1, <2>2
  <2> QED BY <1>1, <1>2, <2>3, Same
<1>9. StoreKeeps'
  BY <1>0, <1>1, <1>2, <1>5, <1>7, <1>8 DEF StoreKeeps, Leases!PlacesOf
<1>10. \A batch \in Batch : key_map'[batch] # Absent <=> key_map[batch] # Absent
  <2> SUFFICES ASSUME NEW batch \in due PROVE key_map'[batch] # Absent
    BY <1>4, <1>6
  <2>1. key_map[batch] \in Leases!Node /\ clock \in Leases!Stamp
    BY <1>2, <1>4 DEF Contents, Leases!Stamp
  <2>2. [key_map[batch] EXCEPT !.expiry = clock] \in Leases!Node
    BY <2>1 DEF Leases!Node
  <2> QED BY <1>4, <1>6, <2>2, StoreAssumption
<1>11. reply'.keys \subseteq Batch
  BY <1>1, <1>4 DEF Leases!Reply
<1> QED BY <1>9, <1>10, <1>11

\* A store nobody calls.
LEMMA StoreStays ==
  ASSUME StoreKeeps, UNCHANGED <<key_map, logged, items, clock>>
  PROVE  StoreKeeps'
BY DEF StoreKeeps, Leases!PlacesOf

-----------------------------------------------------------------------------
(* The jobs *)

\* Jobs by type, and how a step of a worker edits one.
LEMMA RequestTypes ==
  /\ Idle \in Job /\ Idle.at = "idle" /\ Idle.batch = {} /\ ~Idle.file
  /\ \A at \in Stages, batch \in SUBSET Task :
       /\ Asking(at, batch) \in Job
       /\ Asking(at, batch).at = at /\ Asking(at, batch).batch = batch /\ ~Asking(at, batch).file
BY DEF Job, Idle, Asking, Stages

\* A worker that begins has a job with all of its batch to do.
LEMMA WorkTypes ==
  ASSUME NEW batch \in SUBSET Task, NEW whole \in BOOLEAN, NEW resuming \in BOOLEAN
  PROVE  /\ Working(batch, whole, resuming) \in Job
         /\ Working(batch, whole, resuming).at = "working"
         /\ Working(batch, whole, resuming).batch = batch
         /\ Working(batch, whole, resuming).left = batch
         /\ Working(batch, whole, resuming).file
         /\ Working(batch, whole, resuming).whole = whole
BY DEF Job, Working, Stages

\* An edit of one field of a job leaves the others.
LEMMA JobEdits ==
  ASSUME NEW j \in Job, NEW at \in Stages, NEW left \in SUBSET Task
  PROVE  /\ [j EXCEPT !.at = at] \in Job
         /\ [j EXCEPT !.at = at].at = at
         /\ [j EXCEPT !.at = at].batch = j.batch
         /\ [j EXCEPT !.at = at].file = j.file
         /\ [j EXCEPT !.at = at].whole = j.whole
         /\ [j EXCEPT !.left = left] \in Job
         /\ [j EXCEPT !.left = left].at = j.at
         /\ [j EXCEPT !.left = left].left = left
         /\ [j EXCEPT !.left = left].batch = j.batch
         /\ [j EXCEPT !.left = left].file = j.file
         /\ [j EXCEPT !.left = left].whole = j.whole
         /\ [j EXCEPT !.at = at, !.left = left] \in Job
         /\ [j EXCEPT !.at = at, !.left = left].at = at
         /\ [j EXCEPT !.at = at, !.left = left].batch = j.batch
         /\ [j EXCEPT !.at = at, !.left = left].file = j.file
         /\ [j EXCEPT !.at = at, !.left = left].whole = j.whole
BY DEF Job

\* A request in the filter.
LEMMA FilteringIs ==
  ASSUME NEW batch \in SUBSET Task, NEW left \in SUBSET Task
  PROVE  /\ Filtering(batch, left) \in Job
         /\ Filtering(batch, left).at = "filtering"
         /\ Filtering(batch, left).batch = batch
         /\ Filtering(batch, left).left = left
         /\ ~Filtering(batch, left).file
BY DEF Job, Filtering, Asking, Idle, Stages

\* Where the filter goes from one task.
LEMMA FilteredIs ==
  ASSUME NEW w \in Worker, NEW batch \in SUBSET Task, NEW left \in SUBSET batch, Filtered(w, batch, left)
  PROVE  \E j \in Job :
           /\ Goes(w, j) /\ j.batch = batch /\ JobOK(j, tried)
           /\ batch # {} => j.at = "pushing" \/ (j.at = "filtering" /\ j.left = left)
<1>1. CASE left # {}
  <2> DEFINE j == Filtering(batch, left)
  <2>1. Goes(w, j) /\ batch # {}
    BY <1>1 DEF Filtered
  <2>2. j \in Job /\ j.at = "filtering" /\ j.batch = batch /\ j.left = left /\ ~j.file
    BY FilteringIs
  <2> HIDE DEF j
  <2>3. JobOK(j, tried)
    BY <2>1, <2>2 DEF JobOK
  <2> QED BY <2>1, <2>2, <2>3
<1>2. CASE left = {} /\ batch # {}
  <2> DEFINE j == Asking("pushing", batch)
  <2>1. Goes(w, j)
    BY <1>2 DEF Filtered
  <2>2. j \in Job /\ j.at = "pushing" /\ j.batch = batch /\ ~j.file
    <3>1. "pushing" \in Stages
      BY DEF Stages
    <3> QED BY <3>1, RequestTypes
  <2> HIDE DEF j
  <2>3. JobOK(j, tried)
    BY <1>2, <2>2 DEF JobOK
  <2> QED BY <2>1, <2>2, <2>3
<1>3. CASE left = {} /\ batch = {}
  <2>1. Goes(w, Idle)
    BY <1>3 DEF Filtered
  <2>2. Idle \in Job /\ Idle.batch = {} /\ JobOK(Idle, tried)
    BY RequestTypes DEF JobOK
  <2> QED BY <1>3, <2>1, <2>2
<1> QED BY <1>1, <1>2, <1>3

\* One worker goes on to a sound job.
LEMMA JobsStep ==
  ASSUME JobsKeep, NEW w \in Worker, NEW j \in Job, Goes(w, j), tried \subseteq tried',
         JobOK(j, tried')
  PROVE  /\ JobsKeep'
         /\ job'[w] = j
         /\ \A v \in Worker : v # w => job'[v] = job[v]
<1>1. job' = [job EXCEPT ![w] = j] /\ job \in [Worker -> Job] /\ \A v \in Worker : JobOK(job[v], tried)
  BY DEF Goes, JobsKeep
<1>2. job'[w] = j /\ job' \in [Worker -> Job] /\ \A v \in Worker : v # w => job'[v] = job[v]
  BY <1>1
<1>3. ASSUME NEW v \in Worker PROVE JobOK(job'[v], tried')
  <2>1. CASE v = w
    BY <1>2, <2>1
  <2>2. CASE v # w
    BY <1>1, <1>2, <2>2 DEF JobOK
  <2> QED BY <2>1, <2>2
<1> QED BY <1>2, <1>3 DEF JobsKeep

\* The worker's job once the filter is through with one task.
LEMMA FilteredStep ==
  ASSUME JobsKeep, NEW w \in Worker, NEW batch \in SUBSET Task, NEW left \in SUBSET batch,
         Filtered(w, batch, left), tried' = tried
  PROVE  /\ JobsKeep' /\ \A v \in Worker : v # w => job'[v] = job[v]
         /\ job'[w].batch = batch
         /\ batch # {} => job'[w].at = "pushing" \/ (job'[w].at = "filtering" /\ job'[w].left = left)
<1>1. PICK j \in Job :
        /\ Goes(w, j) /\ j.batch = batch /\ JobOK(j, tried)
        /\ batch # {} => j.at = "pushing" \/ (j.at = "filtering" /\ j.left = left)
  BY FilteredIs
<1>2. Goes(w, j)
  BY <1>1
<1>3. JobOK(j, tried') /\ tried \subseteq tried'
  BY <1>1
<1>4. JobsKeep' /\ job'[w] = j /\ \A v \in Worker : v # w => job'[v] = job[v]
  BY <1>2, <1>3, JobsStep
<1> QED BY <1>1, <1>4

\* A step that leaves the leases, the queue and the ghosts alone, and takes a worker
\* that is in no request to a job that is none, keeps the invariant.
LEMMA WorkerStep ==
  ASSUME IInv, NEW w \in Worker, NEW j \in Job, Goes(w, j), JobOK(j, tried),
         job[w].at \notin {"filtering", "pushing"},
         UNCHANGED <<key_map, logged, items, clock, queued, remembered, scored, tried, owed, spoiled>>
  PROVE  IInv'
<1> USE DEF IInv
<1>1. StoreKeeps' /\ QueueKeeps'
  BY StoreStays DEF QueueKeeps
<1>2. JobsKeep' /\ \A v \in Worker : v # w => job'[v] = job[v]
  BY JobsStep
<1>3. SkipsSpoil' /\ ScoredNotOwed'
  BY DEF SkipsSpoil, ScoredNotOwed
<1>4. RememberedOut'
  <2>1. \A t \in Task : Pushed(t) => Pushed(t)'
    BY <1>2 DEF Pushed
  <2> QED BY <2>1 DEF RememberedOut, Leased
<1>5. NothingLost'
  <2>1. \A t : InRequest(t) => InRequest(t)'
    BY <1>2 DEF InRequest
  <2> QED BY <2>1 DEF NothingLost, Leased
<1> QED BY <1>1, <1>2, <1>3, <1>4, <1>5

-----------------------------------------------------------------------------
(* The invariant *)

\* It holds at first.
LEMMA InitInv == Init => IInv
<1> SUFFICES ASSUME Init PROVE IInv
  OBVIOUS
<1> USE DEF Init
<1>1. StoreKeeps /\ QueueKeeps
  BY StoreAssumption DEF StoreKeeps, QueueKeeps, Contents, Leases!PlacesOf
<1>2. JobsKeep
  BY DEF JobsKeep, JobOK, Job, Idle, Stages
<1>3. SkipsSpoil /\ ScoredNotOwed /\ RememberedOut /\ NothingLost
  BY DEF SkipsSpoil, ScoredNotOwed, RememberedOut, NothingLost
<1> QED BY <1>1, <1>2, <1>3 DEF IInv

\* Users ask.
LEMMA AskInv == ASSUME IInv, NEW t \in Task, Ask(t) PROVE IInv'
<1> USE DEF IInv
<1>1. StoreKeeps' /\ QueueKeeps'
  BY StoreStays DEF Ask, QueueKeeps, StoreKept, store
<1>2. JobsKeep' /\ SkipsSpoil' /\ ScoredNotOwed'
  BY DEF Ask, JobsKeep, SkipsSpoil, ScoredNotOwed
<1>3. RememberedOut'
  BY DEF Ask, StoreKept, store, RememberedOut, Leased, Pushed
<1>4. NothingLost'
  BY DEF Ask, StoreKept, store, NothingLost, Leased, InRequest
<1> QED BY <1>1, <1>2, <1>3, <1>4

\* getqueue hands a lease out again.
LEMMA GetLeaseInv ==
  ASSUME IInv, NEW w \in Worker, NEW r \in Reactor, GetLease(w, r)
  PROVE  IInv'
<1> USE DEF IInv
<1> DEFINE j == IF reply'.keys = {} THEN Asking("popping", {})
                ELSE Asking("answered", CHOOSE batch \in reply'.keys : TRUE)
<1>1. /\ job[w].at = "idle" /\ Leases!Refresh(r, clock - LeaseTime, clock, 1) /\ Goes(w, j)
      /\ UNCHANGED <<queued, remembered, scored, tried, owed, spoiled>>
  BY DEF GetLease, Stage, OthersKept, ghosts
<1>2. /\ StoreKeeps' /\ reply'.keys \subseteq Batch
      /\ \A batch \in Batch : key_map'[batch] # Absent <=> key_map[batch] # Absent
  BY <1>1, RefreshStep
<1>3. j \in Job /\ JobOK(j, tried')
  <2>1. CASE reply'.keys = {}
    <3>1. j = Asking("popping", {}) /\ "popping" \in Stages
      BY <2>1 DEF Stages
    <3> HIDE DEF j
    <3>2. j \in Job /\ j.at = "popping" /\ ~j.file
      BY <3>1, RequestTypes
    <3> QED BY <3>2 DEF JobOK
  <2>2. CASE reply'.keys # {}
    <3>1. PICK batch \in Batch : j = Asking("answered", batch)
      BY <1>2, <2>2
    <3>2. batch \in SUBSET Task /\ batch # {}
      BY DEF Batch
    <3>3. "answered" \in Stages
      BY DEF Stages
    <3> HIDE DEF j
    <3>4. j \in Job /\ j.at = "answered" /\ j.batch = batch /\ ~j.file
      BY <3>1, <3>2, <3>3, RequestTypes
    <3> QED BY <3>2, <3>4 DEF JobOK
  <2> QED BY <2>1, <2>2
<1> HIDE DEF j
<1>4. JobsKeep' /\ \A v \in Worker : v # w => job'[v] = job[v]
  BY <1>1, <1>3, JobsStep
<1>5. QueueKeeps' /\ SkipsSpoil' /\ ScoredNotOwed'
  BY <1>1 DEF QueueKeeps, SkipsSpoil, ScoredNotOwed
<1>6. \A t : (Leased(t) => Leased(t)') /\ (Pushed(t) => Pushed(t)') /\ (InRequest(t) => InRequest(t)')
  BY <1>1, <1>2, <1>4 DEF Leased, Pushed, InRequest
<1>7. RememberedOut'
  BY <1>1, <1>6 DEF RememberedOut
<1>8. NothingLost'
  BY <1>1, <1>6 DEF NothingLost
<1> QED BY <1>2, <1>4, <1>5, <1>7, <1>8

\* getqueue takes tasks out of the queue.
LEMMA GetPopInv == ASSUME IInv, NEW w \in Worker, GetPop(w) PROVE IInv'
<1> USE DEF IInv
<1>1. PICK batch \in SUBSET queued :
        /\ queued' = queued \ batch
        /\ Goes(w, IF batch = {} THEN Idle ELSE Filtering(batch, batch))
  BY DEF GetPop
<1>2. job[w].at = "popping" /\ UNCHANGED <<key_map, logged, items, clock, remembered, scored, tried, owed, spoiled>>
  BY DEF GetPop, Stage, StoreKept, store, ghosts
<1> DEFINE j == IF batch = {} THEN Idle ELSE Filtering(batch, batch)
<1>3. j \in Job /\ j.batch = batch /\ JobOK(j, tried') /\ (batch # {} => j.at = "filtering")
  <2>1. CASE batch = {}
    <3>1. j = Idle
      BY <2>1
    <3> HIDE DEF j
    <3> QED BY <2>1, <3>1, RequestTypes DEF JobOK
  <2>2. CASE batch # {}
    <3>1. j = Filtering(batch, batch)
      BY <2>2
    <3>2. batch \in SUBSET Task
      BY DEF QueueKeeps
    <3> HIDE DEF j
    <3>3. j \in Job /\ j.at = "filtering" /\ j.batch = batch /\ j.left = batch /\ ~j.file
      BY <3>1, <3>2, FilteringIs
    <3> QED BY <2>2, <3>3 DEF JobOK
  <2> QED BY <2>1, <2>2
<1>4. Goes(w, j)
  BY <1>1
<1> HIDE DEF j
<1>5. JobsKeep' /\ job'[w] = j /\ \A v \in Worker : v # w => job'[v] = job[v]
  BY <1>2, <1>3, <1>4, JobsStep
<1>6. StoreKeeps'
  BY <1>2, StoreStays
<1>7. QueueKeeps' /\ SkipsSpoil' /\ ScoredNotOwed'
  BY <1>1, <1>2 DEF QueueKeeps, SkipsSpoil, ScoredNotOwed
<1>8. RememberedOut'
  <2>1. \A t : Pushed(t) => Pushed(t)'
    BY <1>2, <1>5 DEF Pushed
  <2> QED BY <1>2, <2>1 DEF RememberedOut, Leased
<1>9. NothingLost'
  <2>1. \A t : InRequest(t) => InRequest(t)'
    BY <1>2, <1>5 DEF InRequest
  <2>2. \A t \in batch : InRequest(t)'
    BY <1>3, <1>5 DEF InRequest
  <2> QED BY <1>1, <1>2, <2>1, <2>2 DEF NothingLost, Leased
<1> QED BY <1>5, <1>6, <1>7, <1>8, <1>9

\* getqueue drops what memcached remembers: it is out, was tried, or was spoiled.
LEMMA GetFilterInv == ASSUME IInv, NEW w \in Worker, NEW t \in Task, GetFilter(w, t) PROVE IInv'
<1> USE DEF IInv
<1> DEFINE batch == IF Fresh(t) THEN job[w].batch ELSE job[w].batch \ {t}
           left == job[w].left \ {t}
<1>1. /\ job[w].at = "filtering" /\ t \in job[w].left /\ Filtered(w, batch, left)
      /\ IF Fresh(t) THEN remembered' = [remembered EXCEPT ![t] = clock] ELSE UNCHANGED remembered
      /\ UNCHANGED <<key_map, logged, items, clock, queued, scored, tried, owed, spoiled>>
  BY DEF GetFilter, Stage, StoreKept, store, ghosts
<1>2. /\ job[w].batch \in SUBSET Task /\ job[w].left \in SUBSET job[w].batch
      /\ \A u \in Task : u # t => remembered'[u] = remembered[u]
      /\ ~Fresh(t) => remembered'[t] = remembered[t] /\ remembered[t] # Absent
  <2>1. job[w] \in Job /\ JobOK(job[w], tried)
    BY DEF JobsKeep
  <2>2. DOMAIN remembered = Task
    BY DEF QueueKeeps
  <2> HIDE DEF IInv, batch, left
  <2> QED BY <1>1, <2>1, <2>2 DEF Job, JobOK, Fresh
<1>3. /\ batch \in SUBSET Task /\ left \in SUBSET batch /\ t \notin left
      /\ \A u : u # t => (u \in batch <=> u \in job[w].batch) /\ (u \in left <=> u \in job[w].left)
      /\ t \in batch <=> Fresh(t)
      /\ t \in job[w].batch
  BY <1>1, <1>2
<1> HIDE DEF batch, left
<1>4. Filtered(w, batch, left) /\ JobsKeep /\ tried' = tried
  BY <1>1
<1>5. /\ JobsKeep' /\ \A v \in Worker : v # w => job'[v] = job[v]
      /\ job'[w].batch = batch
      /\ batch # {} => job'[w].at = "pushing" \/ (job'[w].at = "filtering" /\ job'[w].left = left)
  BY <1>3, <1>4, FilteredStep
<1>6. StoreKeeps'
  BY <1>1, StoreStays
<1>7. QueueKeeps' /\ SkipsSpoil' /\ ScoredNotOwed'
  BY <1>1 DEF QueueKeeps, SkipsSpoil, ScoredNotOwed
<1>8. \A u : Leased(u) => Leased(u)'
  BY <1>1 DEF Leased
<1>9. ASSUME NEW u, Pushed(u) PROVE Pushed(u)'
  <2>1. PICK v \in Worker :
          /\ u \in job[v].batch
          /\ job[v].at = "pushing" \/ (job[v].at = "filtering" /\ u \notin job[v].left)
    BY <1>9 DEF Pushed
  <2>2. CASE v # w
    BY <1>5, <2>1, <2>2 DEF Pushed
  <2>3. CASE v = w
    <3>1. u # t /\ u \in batch /\ u \notin left
      BY <1>1, <1>3, <2>1, <2>3
    <3> QED BY <1>5, <3>1 DEF Pushed
  <2> QED BY <2>2, <2>3
<1>10. Fresh(t) => Pushed(t)'
  <2> SUFFICES ASSUME Fresh(t) PROVE Pushed(t)'
    OBVIOUS
  <2>1. t \in batch /\ t \notin left
    BY <1>3
  <2> QED BY <1>5, <2>1 DEF Pushed
<1>11. \A u : Pushed(u)' => InRequest(u)'
  BY DEF Pushed, InRequest
<1>12. RememberedOut'
  <2> SUFFICES ASSUME NEW u \in Task, remembered'[u] # Absent
               PROVE  Leased(u)' \/ Pushed(u)' \/ u \in tried' \/ u \in spoiled'
    BY DEF RememberedOut
  <2>1. CASE u = t /\ Fresh(t)
    BY <1>10, <2>1
  <2>2. CASE ~(u = t /\ Fresh(t))
    <3>1. remembered[u] # Absent
      BY <1>2, <2>2
    <3>2. Leased(u) \/ Pushed(u) \/ u \in tried \/ u \in spoiled
      BY <3>1 DEF RememberedOut
    <3> QED BY <1>1, <1>8, <1>9, <3>2
  <2> QED BY <2>1, <2>2
<1>13. NothingLost'
  <2> SUFFICES ASSUME NEW u \in owed
               PROVE  u \in queued' \/ InRequest(u)' \/ Leased(u)' \/ u \in spoiled'
    BY <1>1 DEF NothingLost
  <2>1. CASE u = t /\ Fresh(t)
    BY <1>10, <1>11, <2>1
  <2>2. CASE u = t /\ ~Fresh(t)
    <3>1. Leased(t) \/ Pushed(t) \/ t \in tried \/ t \in spoiled
      BY <1>2, <2>2 DEF RememberedOut
    <3>2. t \in tried => t \in spoiled
      BY <2>2 DEF SkipsSpoil, ScoredNotOwed
    <3> QED BY <1>1, <1>8, <1>9, <1>11, <2>2, <3>1, <3>2
  <2>3. CASE u # t
    <3>1. ASSUME InRequest(u) PROVE InRequest(u)'
      <4>1. PICK v \in Worker : u \in job[v].batch /\ job[v].at \in {"filtering", "pushing"}
        BY <3>1 DEF InRequest
      <4>2. CASE v # w
        BY <1>5, <4>1, <4>2 DEF InRequest
      <4>3. CASE v = w
        <5>1. u \in batch
          BY <1>3, <2>3, <4>1, <4>3
        <5> QED BY <1>5, <5>1 DEF InRequest
      <4> QED BY <4>2, <4>3
    <3> QED BY <1>1, <1>8, <3>1 DEF NothingLost
  <2> QED BY <2>1, <2>2, <2>3
<1> QED BY <1>5, <1>6, <1>7, <1>12, <1>13

\* getqueue leases the batch; only what was tried in vain stays spoiled.
LEMMA GetPushInv ==
  ASSUME IInv, NEW w \in Worker, NEW r \in Reactor, GetPush(w, r)
  PROVE  IInv'
<1> USE DEF IInv
<1> DEFINE batch == job[w].batch
           lease == Lease(clock, batch)
<1>1. /\ job[w].at = "pushing" /\ Goes(w, Asking("answered", batch))
      /\ spoiled' = spoiled \ (batch \ (tried \ scored))
      /\ UNCHANGED <<queued, remembered, scored, tried, owed>>
      /\ \/ Leases!PushNew(r, "replace", batch, lease)
         \/ Leases!PushUpdate(r, "replace", batch, lease)
  BY DEF GetPush, Stage
<1>2. batch \in SUBSET Task /\ batch \in Batch
  BY <1>1 DEF JobsKeep, JobOK, Job, Batch
<1>3. lease \in Leases!Node
  BY <1>2 DEF Lease, StoreKeeps, Leases!Node, Leases!Stamp
<1> HIDE DEF batch, lease
<1>4. Leases!Store(batch, lease) /\ clock' = clock
  BY <1>1 DEF Leases!PushNew, Leases!PushUpdate, Leases!Updated
<1>5. /\ StoreKeeps'
      /\ \A b \in Batch : key_map'[b] # Absent <=> key_map[b] # Absent \/ b = batch
  BY <1>2, <1>3, <1>4, StoreStep
<1>6. Asking("answered", batch) \in Job /\ JobOK(Asking("answered", batch), tried')
  <2>1. "answered" \in Stages
    BY DEF Stages
  <2>2. /\ Asking("answered", batch) \in Job /\ Asking("answered", batch).at = "answered"
        /\ Asking("answered", batch).batch = batch /\ ~Asking("answered", batch).file
    BY <1>2, <2>1, RequestTypes
  <2> QED BY <1>2, <2>2 DEF JobOK, Batch
<1>7. JobsKeep' /\ \A v \in Worker : v # w => job'[v] = job[v]
  BY <1>1, <1>6, JobsStep
<1>8. QueueKeeps' /\ SkipsSpoil' /\ ScoredNotOwed'
  BY <1>1 DEF QueueKeeps, SkipsSpoil, ScoredNotOwed
<1>9. \A t : t \in batch => Leased(t)'
  BY <1>2, <1>5 DEF Leased
<1>10. \A t : Leased(t) => Leased(t)'
  BY <1>5 DEF Leased
<1>11. ASSUME NEW t, t \notin batch
       PROVE  /\ Pushed(t) => Pushed(t)'
              /\ InRequest(t) => InRequest(t)'
              /\ t \in spoiled => t \in spoiled'
  BY <1>1, <1>7, <1>11 DEF Pushed, InRequest, batch
<1>12. RememberedOut'
  <2> SUFFICES ASSUME NEW t \in Task, remembered'[t] # Absent
               PROVE  Leased(t)' \/ Pushed(t)' \/ t \in tried' \/ t \in spoiled'
    BY DEF RememberedOut
  <2>1. CASE t \in batch
    BY <1>9, <2>1
  <2>2. CASE t \notin batch
    <3>1. Leased(t) \/ Pushed(t) \/ t \in tried \/ t \in spoiled
      BY <1>1 DEF RememberedOut
    <3>2. Leased(t) => Leased(t)'
      BY <1>10
    <3>3. (Pushed(t) => Pushed(t)') /\ (t \in spoiled => t \in spoiled')
      BY <1>11, <2>2
    <3> QED BY <1>1, <3>1, <3>2, <3>3
  <2> QED BY <2>1, <2>2
<1>13. NothingLost'
  <2> SUFFICES ASSUME NEW t \in owed
               PROVE  t \in queued' \/ InRequest(t)' \/ Leased(t)' \/ t \in spoiled'
    BY <1>1 DEF NothingLost
  <2>1. CASE t \in batch
    BY <1>9, <2>1
  <2>2. CASE t \notin batch
    <3>1. t \in queued \/ InRequest(t) \/ Leased(t) \/ t \in spoiled
      BY DEF NothingLost
    <3>2. Leased(t) => Leased(t)'
      BY <1>10
    <3>3. (InRequest(t) => InRequest(t)') /\ (t \in spoiled => t \in spoiled')
      BY <1>11, <2>2
    <3> QED BY <1>1, <3>1, <3>2, <3>3
  <2> QED BY <2>1, <2>2
<1> QED BY <1>5, <1>7, <1>8, <1>12, <1>13

\* A request that is cut spoils what it carries.
LEMMA GetCutInv == ASSUME IInv, NEW w \in Worker, GetCut(w) PROVE IInv'
<1> USE DEF IInv
<1>1. /\ Goes(w, Idle)
      /\ spoiled' = IF job[w].at = "answered" THEN spoiled ELSE spoiled \cup job[w].batch
      /\ UNCHANGED <<key_map, logged, items, clock, queued, remembered, scored, tried, owed>>
  BY DEF GetCut, Stage, StoreKept, store
<1>2. Idle \in Job /\ JobOK(Idle, tried')
  BY RequestTypes DEF JobOK
<1>3. JobsKeep' /\ \A v \in Worker : v # w => job'[v] = job[v]
  BY <1>1, <1>2, JobsStep
<1>4. StoreKeeps'
  BY <1>1, StoreStays
<1>5. QueueKeeps' /\ SkipsSpoil' /\ ScoredNotOwed'
  BY <1>1 DEF QueueKeeps, SkipsSpoil, ScoredNotOwed
<1>6. \A t : /\ Leased(t) => Leased(t)'
             /\ t \in spoiled => t \in spoiled'
             /\ Pushed(t) => Pushed(t)' \/ t \in spoiled'
             /\ InRequest(t) => InRequest(t)' \/ t \in spoiled'
  BY <1>1, <1>3 DEF Leased, Pushed, InRequest
<1>7. RememberedOut'
  BY <1>1, <1>6 DEF RememberedOut
<1>8. NothingLost'
  BY <1>1, <1>6 DEF NothingLost
<1> QED BY <1>3, <1>4, <1>5, <1>7, <1>8

\* A worker goes through one of its tasks.  With a score it has one; without, it is
\* spoiled.
LEMMA TaskInv ==
  ASSUME IInv, NEW w \in Worker, NEW t \in Task, Try(w, t) \/ Skip(w, t)
  PROVE  IInv'
<1> USE DEF IInv
<1> DEFINE j == [job[w] EXCEPT !.left = job[w].left \ {t}]
<1>1. /\ job[w].at = "working" /\ Goes(w, j)
      /\ tried' = tried \cup {t} /\ owed' = owed \ {t}
      /\ \/ scored' = scored \cup {t} /\ spoiled' = spoiled
         \/ scored' = scored /\ spoiled' = spoiled \cup {t}
      /\ UNCHANGED <<key_map, logged, items, clock, queued, remembered>>
  BY DEF Try, Skip, Stage, StoreKept, store
<1>2. j \in Job /\ JobOK(j, tried')
  <2>1. job[w] \in Job /\ job[w].left \ {t} \in SUBSET Task
    BY DEF JobsKeep, Job
  <2>2. "working" \in Stages
    BY DEF Stages
  <2>3. /\ j \in Job /\ j.at = job[w].at /\ j.left = job[w].left \ {t} /\ j.batch = job[w].batch
        /\ j.file = job[w].file /\ j.whole = job[w].whole
    BY <2>1, <2>2, JobEdits, ZenonT(30)
  <2>4. JobOK(job[w], tried)
    BY DEF JobsKeep
  <2> HIDE DEF j
  <2> QED BY <1>1, <2>3, <2>4 DEF JobOK
<1> HIDE DEF j
<1>3. JobsKeep' /\ \A v \in Worker : v # w => job'[v] = job[v]
  BY <1>1, <1>2, JobsStep
<1>4. StoreKeeps'
  BY <1>1, StoreStays
<1>5. QueueKeeps' /\ SkipsSpoil' /\ ScoredNotOwed'
  BY <1>1 DEF QueueKeeps, SkipsSpoil, ScoredNotOwed
<1>6. \A u : /\ Leased(u) => Leased(u)'
             /\ Pushed(u) => Pushed(u)'
             /\ InRequest(u) => InRequest(u)'
  BY <1>1, <1>3 DEF Leased, Pushed, InRequest
<1>7. RememberedOut'
  BY <1>1, <1>6 DEF RememberedOut
<1>8. NothingLost'
  BY <1>1, <1>6 DEF NothingLost
<1> QED BY <1>3, <1>4, <1>5, <1>7, <1>8

\* What a worker acknowledges it has been through, all of it.
LEMMA AckedTried ==
  ASSUME IInv, NEW w \in Worker, NEW r, Ack(w, r)
  PROVE  /\ job[w].batch \in Batch /\ job[w].batch \subseteq tried
         /\ StoreKeeps'
         /\ \A b \in Batch : key_map'[b] # Absent <=> key_map[b] # Absent /\ b # job[w].batch
         /\ reply' = Leases!Reply("remove", {job[w].batch})
<1>1. /\ job[w].at = "working" /\ job[w].left = {} /\ job[w].whole
      /\ Leases!Remove(r, job[w].batch)
  BY DEF Ack, Stage
<1>2. job[w] \in Job /\ JobOK(job[w], tried) /\ StoreKeeps
  BY DEF IInv, JobsKeep
<1>3. job[w].batch \in Batch /\ job[w].batch \subseteq tried
  BY <1>1, <1>2 DEF JobOK, Job, Batch
<1> QED BY <1>1, <1>2, <1>3, RemoveStep

\* An acknowledgement ends a lease of which every task was tried.
LEMMA AckInv ==
  ASSUME IInv, NEW w \in Worker, NEW r \in Reactor, Ack(w, r)
  PROVE  IInv'
<1> USE DEF IInv
<1> DEFINE j == [job[w] EXCEPT !.at = "acked"]
<1>1. /\ job[w].at = "working" /\ Goes(w, j)
      /\ UNCHANGED <<queued, remembered, scored, tried, owed, spoiled>>
  BY DEF Ack, Stage, OthersKept, ghosts
<1>2. /\ job[w].batch \subseteq tried /\ StoreKeeps'
      /\ \A b \in Batch : key_map'[b] # Absent <=> key_map[b] # Absent /\ b # job[w].batch
  BY AckedTried
<1>3. j \in Job /\ JobOK(j, tried')
  <2>1. job[w] \in Job /\ JobOK(job[w], tried)
    BY DEF JobsKeep
  <2>2. "acked" \in Stages
    BY DEF Stages
  <2>3. {} \in SUBSET Task
    OBVIOUS
  <2>4. j \in Job /\ j.at = "acked" /\ j.batch = job[w].batch /\ j.file = job[w].file
        /\ j.whole = job[w].whole
    BY <2>1, <2>2, <2>3, JobEdits
  <2> HIDE DEF j
  <2> QED BY <1>1, <2>1, <2>4 DEF JobOK
<1> HIDE DEF j
<1>4. JobsKeep' /\ \A v \in Worker : v # w => job'[v] = job[v]
  BY <1>1, <1>3, JobsStep
<1>5. QueueKeeps' /\ SkipsSpoil' /\ ScoredNotOwed'
  BY <1>1 DEF QueueKeeps, SkipsSpoil, ScoredNotOwed
<1>6. \A t : /\ Leased(t) => Leased(t)' \/ t \in tried
             /\ Pushed(t) => Pushed(t)'
             /\ InRequest(t) => InRequest(t)'
  BY <1>1, <1>2, <1>4 DEF Leased, Pushed, InRequest
<1>7. RememberedOut'
  BY <1>1, <1>6 DEF RememberedOut
<1>8. \A t \in owed : t \in tried => t \in spoiled
  BY DEF SkipsSpoil, ScoredNotOwed
<1>9. NothingLost'
  BY <1>1, <1>6, <1>8 DEF NothingLost
<1> QED BY <1>2, <1>4, <1>5, <1>7, <1>9

\* The steps of a worker that change nothing but its job.
LEMMA WriteFileInv == ASSUME IInv, NEW w \in Worker, WriteFile(w) PROVE IInv'
<1> DEFINE j == Working(job[w].batch, TRUE, FALSE)
<1>1. /\ job[w].at = "answered" /\ Goes(w, j)
      /\ UNCHANGED <<key_map, logged, items, clock, queued, remembered, scored, tried, owed, spoiled>>
  BY DEF WriteFile, Stage, StoreKept, store, OthersKept, ghosts
<1>2. job[w] \in Job /\ JobOK(job[w], tried)
  BY DEF IInv, JobsKeep
<1>3. job[w].batch \in SUBSET Task /\ job[w].batch # {}
  BY <1>1, <1>2 DEF Job, JobOK
<1>4. j \in Job /\ j.batch = job[w].batch /\ j.left = job[w].batch /\ j.at = "working" /\ j.file
  BY <1>3, WorkTypes
<1> HIDE DEF j
<1>5. JobOK(j, tried)
  BY <1>3, <1>4 DEF JobOK
<1> QED BY <1>1, <1>4, <1>5, WorkerStep

\* An acknowledgement that nobody knows, or that fails.
LEMMA AckVainInv == ASSUME IInv, NEW w \in Worker, AckVain(w) PROVE IInv'
<1> DEFINE j == [job[w] EXCEPT !.at = "acked"]
<1>1. /\ job[w].at = "working" /\ Goes(w, j)
      /\ UNCHANGED <<key_map, logged, items, clock, queued, remembered, scored, tried, owed, spoiled>>
  BY DEF AckVain, Stage, StoreKept, store
<1>2. job[w] \in Job /\ JobOK(job[w], tried)
  BY DEF IInv, JobsKeep
<1>3. j \in Job /\ j.at = "acked" /\ j.batch = job[w].batch /\ j.file = job[w].file
      /\ j.whole = job[w].whole
  <2>1. "acked" \in Stages /\ {} \in SUBSET Task
    BY DEF Stages
  <2> QED BY <1>2, <2>1, JobEdits
<1> HIDE DEF j
<1>4. JobOK(j, tried)
  BY <1>2, <1>3 DEF JobOK
<1> QED BY <1>1, <1>3, <1>4, WorkerStep

\* A worker deletes its file.
LEMMA DeleteFileInv == ASSUME IInv, NEW w \in Worker, DeleteFile(w) PROVE IInv'
<1> DEFINE j == IF job[w].resuming THEN [Idle EXCEPT !.at = "stopped"] ELSE Idle
<1>1. /\ job[w].at = "acked" /\ Goes(w, j)
      /\ UNCHANGED <<key_map, logged, items, clock, queued, remembered, scored, tried, owed, spoiled>>
  BY DEF DeleteFile, Stage, StoreKept, store, OthersKept, ghosts
<1>2. j \in Job /\ ~j.file /\ j.at \in {"stopped", "idle"}
  <2>1. "stopped" \in Stages /\ {} \in SUBSET Task
    BY DEF Stages
  <2>2. [Idle EXCEPT !.at = "stopped"] \in Job /\ ~[Idle EXCEPT !.at = "stopped"].file
        /\ [Idle EXCEPT !.at = "stopped"].at = "stopped"
    BY <2>1, RequestTypes, JobEdits, ZenonT(30)
  <2> QED BY <2>2, RequestTypes
<1> HIDE DEF j
<1>3. JobOK(j, tried)
  BY <1>2 DEF JobOK
<1> QED BY <1>1, <1>2, <1>3, WorkerStep

\* What is left of a file that was cut off names a batch, or is known not to.
LEMMA StopInv == ASSUME IInv, NEW w \in Worker, Stop(w) PROVE IInv'
<1>1. /\ job[w].at \in {"answered", "working", "acked"}
      /\ UNCHANGED <<key_map, logged, items, clock, queued, remembered, scored, tried, owed, spoiled>>
  BY DEF Stop, StoreKept, store
<1>2. job[w] \in Job /\ JobOK(job[w], tried)
  BY DEF IInv, JobsKeep
<1>3. "stopped" \in Stages /\ {} \in SUBSET Task
  BY DEF Stages
<1>4. CASE Goes(w, [job[w] EXCEPT !.at = "stopped", !.left = {}])
  <2> DEFINE j == [job[w] EXCEPT !.at = "stopped", !.left = {}]
  <2>1. j \in Job /\ j.at = "stopped" /\ j.batch = job[w].batch /\ j.file = job[w].file
        /\ j.whole = job[w].whole
    BY <1>2, <1>3 DEF Job
  <2>2. Goes(w, j)
    BY <1>4
  <2> HIDE DEF j
  <2>3. JobOK(j, tried)
    BY <1>2, <2>1 DEF JobOK
  <2> QED BY <1>1, <2>1, <2>2, <2>3, WorkerStep
<1>5. ASSUME NEW part \in SUBSET job[w].batch, NEW whole \in BOOLEAN, part = {} => ~whole,
             Goes(w, [Idle EXCEPT !.at = "stopped", !.batch = part, !.file = TRUE, !.whole = whole])
      PROVE  IInv'
  <2> DEFINE j == [Idle EXCEPT !.at = "stopped", !.batch = part, !.file = TRUE, !.whole = whole]
  <2>1. part \in SUBSET Task
    BY <1>2 DEF Job
  <2>2. j \in Job /\ j.at = "stopped" /\ j.batch = part /\ j.whole = whole
    BY <1>3, <2>1 DEF Job, Idle
  <2>3. Goes(w, j)
    BY <1>5
  <2> HIDE DEF j
  <2>4. JobOK(j, tried)
    BY <1>5, <2>2 DEF JobOK
  <2> QED BY <1>1, <2>2, <2>3, <2>4, WorkerStep
<1> QED BY <1>4, <1>5 DEF Stop

\* A worker starts again, with the file it left.
LEMMA StartInv == ASSUME IInv, NEW w \in Worker, Start(w) PROVE IInv'
<1>1. /\ job[w].at = "stopped"
      /\ Goes(w, IF job[w].file THEN Working(job[w].batch, job[w].whole, TRUE) ELSE Idle)
      /\ UNCHANGED <<key_map, logged, items, clock, queued, remembered, scored, tried, owed, spoiled>>
  BY DEF Start, Stage, StoreKept, store, OthersKept, ghosts
<1>2. job[w] \in Job /\ JobOK(job[w], tried)
  BY DEF IInv, JobsKeep
<1>3. CASE job[w].file
  <2> DEFINE j == Working(job[w].batch, job[w].whole, TRUE)
  <2>1. job[w].batch \in SUBSET Task /\ job[w].whole \in BOOLEAN /\ TRUE \in BOOLEAN
    BY <1>2 DEF Job
  <2>2. /\ j \in Job /\ j.at = "working" /\ j.batch = job[w].batch /\ j.left = job[w].batch
        /\ j.file /\ j.whole = job[w].whole
    BY <2>1, WorkTypes, ZenonT(30)
  <2>3. Goes(w, j)
    BY <1>1, <1>3
  <2> HIDE DEF j
  <2>4. JobOK(j, tried)
    BY <1>2, <1>3, <2>2 DEF JobOK
  <2> QED BY <1>1, <2>2, <2>3, <2>4, WorkerStep
<1>4. CASE ~job[w].file
  <2>1. Goes(w, Idle) /\ Idle \in Job /\ JobOK(Idle, tried)
    BY <1>1, <1>4, RequestTypes DEF JobOK
  <2> QED BY <1>1, <2>1, WorkerStep
<1> QED BY <1>3, <1>4

\* The server goes round, is started again, time passes, or nothing happens.
LEMMA ServerInv ==
  ASSUME IInv,
         \/ \E r \in Reactor : Serve(r)
         \/ RestartServer \/ Tick \/ UNCHANGED vars
  PROVE  IInv' /\ key_map' = key_map
<1> USE DEF IInv
<1>1. UNCHANGED <<queued, remembered, job, scored, tried, owed, spoiled>>
  BY DEF Serve, RestartServer, Tick, OthersKept, ghosts, vars
<1>2. StoreKeeps' /\ key_map' = key_map
  <2>0. key_map \in Contents /\ logged = key_map /\ items = Leases!PlacesOf(key_map)
        /\ clock \in 0..MaxTime /\ MaxTime \in Nat
    BY StoreAssumption DEF StoreKeeps
  <2>1. CASE \E r \in Reactor : Serve(r)
    BY <2>1, StoreStays DEF Serve, Leases!Wake
  <2>2. CASE RestartServer
    <3>1. key_map' = key_map /\ logged' = key_map' /\ items' = Leases!PlacesOf(key_map') /\ clock' = clock
      BY <2>0, <2>2 DEF RestartServer, Leases!Restart
    <3> QED BY <2>0, <3>1 DEF StoreKeeps, Leases!PlacesOf
  <2>3. CASE Tick
    <3>1. UNCHANGED <<key_map, logged, items>> /\ clock < MaxTime /\ clock' = clock + 1
      BY <2>3 DEF Tick, Leases!Tick
    <3>2. clock' \in 0..MaxTime
      BY <2>0, <3>1
    <3> QED BY <2>0, <3>1, <3>2 DEF StoreKeeps, Leases!PlacesOf
  <2>4. CASE UNCHANGED vars
    BY <2>4, StoreStays DEF vars, store
  <2> QED BY <2>1, <2>2, <2>3, <2>4
<1>3. QueueKeeps' /\ JobsKeep' /\ SkipsSpoil' /\ ScoredNotOwed'
  BY <1>1 DEF QueueKeeps, JobsKeep, SkipsSpoil, ScoredNotOwed
<1>4. RememberedOut'
  BY <1>1, <1>2 DEF RememberedOut, Leased, Pushed
<1>5. NothingLost'
  BY <1>1, <1>2 DEF NothingLost, Leased, InRequest
<1> QED BY <1>2, <1>3, <1>4, <1>5

\* Every step keeps it.
LEMMA NextInv == IInv /\ [Next]_vars => IInv'
BY AskInv, GetLeaseInv, GetPopInv, GetFilterInv, GetPushInv, GetCutInv, WriteFileInv, TaskInv,
   AckInv, AckVainInv, DeleteFileInv, StopInv, StartInv, ServerInv
   DEF Next, Get, Request, Work, Disturb

\* The invariant holds in every reachable state.
LEMMA Inductive == Spec => []IInv
BY InitInv, NextInv, PTL DEF Spec

-----------------------------------------------------------------------------
(* The theorems *)

\* NothingLost: what was asked for and not tried waits, is on its way out, is on a
\* lease, or was spoiled by a mishap, whatever getqueue drops of it.
THEOREM NeverLost == Spec => []NothingLost
BY Inductive, PTL DEF IInv

\* LeasesSound: index, log and contents of the queue of leases agree.
THEOREM LeasesAlwaysSound == Spec => []LeasesSound
<1>1. IInv => LeasesSound
  BY DEF IInv, StoreKeeps, LeasesSound, Leases!IndexConsistent, Leases!ReplayAgrees
<1> QED BY <1>1, Inductive, PTL

\* LeaveTried: only an acknowledgement ends a lease, and every task of it was tried.
THEOREM LeavesTried == Spec => LeaveTried
<1> DEFINE Step ==
      \A batch \in Batch :
        key_map[batch] # Absent /\ key_map'[batch] = Absent =>
          reply' = Leases!Reply("remove", {batch}) /\ batch \subseteq tried
<1>1. IInv /\ [Next]_vars => [Step]_vars
  <2> SUFFICES ASSUME IInv, [Next]_vars PROVE Step
    OBVIOUS
  <2>1. ASSUME NEW w \in Worker, NEW r \in Reactor, Ack(w, r) PROVE Step
    BY <2>1, AckedTried
  <2>2. ASSUME NEW w \in Worker, NEW r \in Reactor, GetLease(w, r) PROVE Step
    BY <2>2, RefreshStep DEF GetLease, IInv
  <2>3. ASSUME NEW w \in Worker, NEW r \in Reactor, GetPush(w, r) PROVE Step
    <3>1. job[w].batch \in Batch /\ Lease(clock, job[w].batch) \in Leases!Node
      BY <2>3 DEF GetPush, Stage, IInv, JobsKeep, JobOK, Job, Batch, Lease, StoreKeeps, Leases!Node,
           Leases!Stamp
    <3>2. Leases!Store(job[w].batch, Lease(clock, job[w].batch)) /\ clock' = clock
      BY <2>3 DEF GetPush, Leases!PushNew, Leases!PushUpdate, Leases!Updated
    <3> QED BY <3>1, <3>2, StoreStep DEF IInv
  <2>4. CASE (\E r \in Reactor : Serve(r)) \/ RestartServer \/ Tick \/ UNCHANGED vars
    BY <2>4, ServerInv
  <2>5. CASE key_map' = key_map
    BY <2>5
  <2>6. ASSUME NEW w \in Worker,
               \/ GetPop(w) \/ (\E t \in Task : GetFilter(w, t)) \/ WriteFile(w) \/ DeleteFile(w) \/ AckVain(w)
               \/ (\E t \in Task : Try(w, t) \/ Skip(w, t))
               \/ Disturb(w)
        PROVE  key_map' = key_map
    BY <2>6 DEF GetPop, GetFilter, WriteFile, DeleteFile, AckVain, Try, Skip, Disturb, GetCut,
         Stop, Start, StoreKept, store
  <2>7. ASSUME NEW t \in Task, Ask(t) PROVE key_map' = key_map
    BY <2>7 DEF Ask, StoreKept, store
  <2> HIDE DEF Step
  <2> QED BY <2>1, <2>2, <2>3, <2>4, <2>5, <2>6, <2>7 DEF Next, Get, Request, Work
<1> QED BY <1>1, Inductive, PTL DEF Spec, LeaveTried

=============================================================================
