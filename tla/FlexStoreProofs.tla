--------------------------- MODULE FlexStoreProofs ---------------------------
(***************************************************************************)
(* Proofs about FlexStore, for every set of keys, moves, priorities and    *)
(* reactors, every threshold and every bound on the clock.                 *)
(***************************************************************************)
EXTENDS FlexStore, TLAPS

\* What the proofs go by induction on.  The sweeps and ReplayAgrees meet in
\* NowBehind: what lapsed for a reactor has lapsed for the clock.
IInv == TypeOK /\ IndexConsistent /\ NowBehind /\ ReplayAgrees

Map == [Key -> Node \cup {Absent}]

-----------------------------------------------------------------------------
(* The index after each kind of change *)

\* Filing a node under its new place instead of its old one keeps the index.
LEMMA PlacesStore ==
  ASSUME NEW m \in Map, NEW k \in Key, NEW n \in Node
  PROVE  PlacesOf([m EXCEPT ![k] = n]) =
           (PlacesOf(m) \ (IF m[k] = Absent THEN {} ELSE {PlaceOf(k, m[k])}))
             \cup {PlaceOf(k, n)}
<1> DEFINE m2 == [m EXCEPT ![k] = n]
<1>1. m2 \in Map /\ m2[k] = n /\ n # Absent /\ \A j \in Key : j # k => m2[j] = m[j]
  BY AbsentAssumption DEF Map
<1>2. \A j \in Key : PlaceOf(j, m2[j]).key = j /\ PlaceOf(j, m[j]).key = j
  BY DEF PlaceOf
<1> HIDE DEF m2
<1>3. ASSUME NEW x \in PlacesOf(m2)
      PROVE  x \in (PlacesOf(m) \ (IF m[k] = Absent THEN {} ELSE {PlaceOf(k, m[k])}))
                     \cup {PlaceOf(k, n)}
  <2>1. PICK j \in Key : m2[j] # Absent /\ x = PlaceOf(j, m2[j])
    BY DEF PlacesOf
  <2>2. CASE j = k
    BY <2>1, <2>2, <1>1
  <2>3. CASE j # k
    BY <2>1, <2>3, <1>1, <1>2 DEF PlacesOf
  <2> QED BY <2>2, <2>3
<1>4. ASSUME NEW x \in (PlacesOf(m) \ (IF m[k] = Absent THEN {} ELSE {PlaceOf(k, m[k])}))
                         \cup {PlaceOf(k, n)}
      PROVE  x \in PlacesOf(m2)
  <2>1. CASE x = PlaceOf(k, n)
    BY <2>1, <1>1 DEF PlacesOf
  <2>2. CASE x # PlaceOf(k, n)
    <3>1. PICK j \in Key : m[j] # Absent /\ x = PlaceOf(j, m[j])
      BY <2>2 DEF PlacesOf
    <3>2. j # k
      BY <2>2, <3>1
    <3> QED BY <3>1, <3>2, <1>1 DEF PlacesOf
  <2> QED BY <2>1, <2>2
<1> QED BY <1>3, <1>4 DEF m2

\* Dropping nodes and the places they are filed under keeps the index.
LEMMA PlacesWithout ==
  ASSUME NEW m \in Map, NEW gone \in SUBSET PlacesOf(m)
  PROVE  PlacesOf(Without(m, KeysOf(gone))) = PlacesOf(m) \ gone
<1> DEFINE m2 == Without(m, KeysOf(gone))
<1>1. \A j \in Key : m2[j] = IF j \in KeysOf(gone) THEN Absent ELSE m[j]
  BY DEF Without
<1>2. \A j \in Key : m[j] # Absent => (j \in KeysOf(gone) <=> PlaceOf(j, m[j]) \in gone)
  BY DEF KeysOf, PlacesOf, PlaceOf
<1>3. \A j \in Key : m2[j] # Absent <=> m[j] # Absent /\ PlaceOf(j, m[j]) \notin gone
  BY <1>1, <1>2
<1>4. \A j \in Key : m2[j] # Absent => m2[j] = m[j]
  BY <1>1
<1> HIDE DEF m2
<1>5. ASSUME NEW x \in PlacesOf(m2) PROVE x \in PlacesOf(m) \ gone
  BY <1>3, <1>4 DEF PlacesOf
<1>6. ASSUME NEW x \in PlacesOf(m) \ gone PROVE x \in PlacesOf(m2)
  <2>1. PICK j \in Key : m[j] # Absent /\ x = PlaceOf(j, m[j])
    BY DEF PlacesOf
  <2> QED BY <2>1, <1>3, <1>4 DEF PlacesOf
<1> QED BY <1>5, <1>6 DEF m2

\* Dropping one key drops the place it is filed under.
LEMMA PlacesWithoutKey ==
  ASSUME NEW m \in Map, NEW k \in Key
  PROVE  PlacesOf(Without(m, {k})) =
           PlacesOf(m) \ (IF m[k] = Absent THEN {} ELSE {PlaceOf(k, m[k])})
<1> DEFINE gone == IF m[k] = Absent THEN {} ELSE {PlaceOf(k, m[k])}
<1>1. gone \in SUBSET PlacesOf(m)
  BY DEF PlacesOf
<1>2. KeysOf(gone) = IF m[k] = Absent THEN {} ELSE {k}
  <2>1. CASE m[k] = Absent
    BY <2>1 DEF KeysOf
  <2>2. CASE m[k] # Absent
    <3>1. gone = {PlaceOf(k, m[k])} /\ PlaceOf(k, m[k]).key = k
      BY <2>2 DEF PlaceOf
    <3> HIDE DEF gone
    <3> QED BY <2>2, <3>1 DEF KeysOf
  <2> QED BY <2>1, <2>2
<1>3. Without(m, {k}) = Without(m, KeysOf(gone))
  <2>1. \A j \in Key : (IF j \in {k} THEN Absent ELSE m[j]) =
                        (IF j \in KeysOf(gone) THEN Absent ELSE m[j])
    BY <1>2
  <2> HIDE DEF gone
  <2> QED BY <2>1 DEF Without
<1> HIDE DEF gone
<1>4. PlacesOf(Without(m, {k})) = PlacesOf(m) \ gone
  BY <1>1, <1>3, PlacesWithout
<1> QED BY <1>4 DEF gone

\* Postponing the nodes of a set of places, and filing them anew, keeps it.
LEMMA PlacesPostponed ==
  ASSUME NEW m \in Map, NEW batch \in SUBSET PlacesOf(m), NEW expiry \in Stamp
  PROVE  LET m2 == Postponed(m, KeysOf(batch), expiry)
         IN PlacesOf(m2) = (PlacesOf(m) \ batch) \cup {PlaceOf(k, m2[k]) : k \in KeysOf(batch)}
<1> DEFINE m2 == Postponed(m, KeysOf(batch), expiry)
<1>1. \A j \in Key : m2[j] = IF j \in KeysOf(batch) THEN [m[j] EXCEPT !.expiry = expiry] ELSE m[j]
  BY DEF Postponed
<1>2. \A j \in Key : m[j] # Absent => (j \in KeysOf(batch) <=> PlaceOf(j, m[j]) \in batch)
  BY DEF KeysOf, PlacesOf, PlaceOf
<1>3. \A j \in KeysOf(batch) : j \in Key /\ m[j] # Absent
  BY DEF KeysOf, PlacesOf, PlaceOf
<1>4. \A j \in Key : m2[j] = Absent <=> m[j] = Absent
  <2>1. \A j \in KeysOf(batch) : m2[j] \in Node
    BY <1>1, <1>3 DEF Map, Node
  <2> QED BY <2>1, <1>1, <1>3, AbsentAssumption
<1> HIDE DEF m2
<1>5. PlacesOf(m2) = (PlacesOf(m) \ batch) \cup {PlaceOf(k, m2[k]) : k \in KeysOf(batch)}
  <2>1. ASSUME NEW x \in PlacesOf(m2)
        PROVE  x \in (PlacesOf(m) \ batch) \cup {PlaceOf(k, m2[k]) : k \in KeysOf(batch)}
    <3>1. PICK j \in Key : m2[j] # Absent /\ x = PlaceOf(j, m2[j])
      BY <2>1 DEF PlacesOf
    <3>2. CASE j \in KeysOf(batch)
      BY <3>1, <3>2
    <3>3. CASE j \notin KeysOf(batch)
      BY <3>1, <3>3, <1>1, <1>2 DEF PlacesOf
    <3> QED BY <3>2, <3>3
  <2>2. ASSUME NEW x \in PlacesOf(m) \ batch
        PROVE  x \in PlacesOf(m2)
    <3>1. PICK j \in Key : m[j] # Absent /\ x = PlaceOf(j, m[j])
      BY <2>2 DEF PlacesOf
    <3>2. j \notin KeysOf(batch)
      BY <3>1, <2>2, <1>2
    <3>3. m2[j] = m[j]
      BY <3>1, <3>2, <1>1
    <3> QED BY <3>1, <3>3 DEF PlacesOf
  <2>3. ASSUME NEW k \in KeysOf(batch)
        PROVE  PlaceOf(k, m2[k]) \in PlacesOf(m2)
    BY <2>3, <1>3, <1>4 DEF PlacesOf
  <2> QED BY <2>1, <2>2, <2>3
<1> QED BY <1>5 DEF m2

\* A batch is taken from the places it is chosen among.
LEMMA FirstOfSubset ==
  ASSUME NEW places, NEW n, NEW order, NEW batch \in FirstOf(places, n, order)
  PROVE  batch \subseteq places
BY DEF FirstOf

\* Places and nodes by type.
LEMMA PlaceTypes ==
  ASSUME NEW k \in Key, NEW n \in Node
  PROVE  PlaceOf(k, n) \in Place
BY DEF PlaceOf, Place, Node

\* An updated node is a node; a merge forgets nothing and lowers no priority.
LEMMA UpdatedType ==
  ASSUME NEW mode, NEW old \in Node, NEW n \in Node
  PROVE  /\ Updated(mode, old, n) \in Node
         /\ mode = "merge" =>
              /\ old.value \subseteq Updated(mode, old, n).value
              /\ old.priority <= Updated(mode, old, n).priority
<1>1. old.priority \in Pri /\ n.priority \in Pri /\ old.value \subseteq Move /\ n.value \subseteq Move
  BY DEF Node
<1>2. old.priority \in Int /\ n.priority \in Int
  <2>1. \A p \in Pri : p \in Nat
    BY PriAssumption
  <2> QED BY <1>1, <2>1
<1>3. /\ Merged(old, n) \in Node
      /\ Merged(old, n).value = old.value \cup n.value
      /\ Merged(old, n).priority =
           IF n.priority > old.priority THEN n.priority ELSE old.priority
  BY <1>1 DEF Merged, Node
<1> QED BY <1>2, <1>3 DEF Updated

\* A map without some of its keys is a map.
LEMMA WithoutType ==
  ASSUME NEW m \in Map, NEW keys
  PROVE  Without(m, keys) \in Map
BY DEF Without, Map

\* So is one in which some keys are postponed.
LEMMA PostponedType ==
  ASSUME NEW m \in Map, NEW expiry \in Stamp, NEW keys, \A k \in keys : m[k] # Absent
  PROVE  Postponed(m, keys, expiry) \in Map
<1>1. ASSUME NEW k \in Key, k \in keys PROVE [m[k] EXCEPT !.expiry = expiry] \in Node
  <2>1. m[k] \in Node
    BY <1>1 DEF Map
  <2> QED BY <2>1 DEF Node
<1> QED BY <1>1 DEF Postponed, Map

\* The keys of some places of the index are keys that have a node.
LEMMA KeysOfPlaces ==
  ASSUME NEW m \in Map, NEW places \in SUBSET PlacesOf(m)
  PROVE  /\ KeysOf(places) \subseteq Key
         /\ \A k \in KeysOf(places) : m[k] # Absent /\ PlaceOf(k, m[k]) \in places
BY DEF KeysOf, PlacesOf, PlaceOf

\* What a sweep takes has lapsed by the clock of its reactor, and so by any
\* later clock.
LEMMA SweptLapsed ==
  ASSUME NEW m \in Map, items = PlacesOf(m), NEW now \in Stamp, NEW later \in Stamp,
         now <= later, NEW k \in KeysOf(Swept(now))
  PROVE  k \in Key /\ m[k] # Absent /\ Lapsed(m[k], later)
<1>1. PICK it \in items : it.key = k /\ Lapsed(it, now)
  BY DEF KeysOf, Swept
<1>2. PICK j \in Key : m[j] # Absent /\ it = PlaceOf(j, m[j])
  BY <1>1 DEF PlacesOf
<1>3. j = k /\ m[k] \in Node /\ it.priority = m[k].priority /\ it.expiry = m[k].expiry
  BY <1>1, <1>2 DEF PlaceOf, Map
<1>4. m[k].expiry \in Int /\ now \in Int /\ later \in Int
  BY <1>3, TimeAssumption DEF Node, Stamp
<1> QED BY <1>1, <1>2, <1>3, <1>4 DEF Lapsed

-----------------------------------------------------------------------------
(* The invariant *)

\* The invariant holds at first.
LEMMA InitInv == Init => IInv
<1> SUFFICES ASSUME Init PROVE IInv
  OBVIOUS
<1>1. TypeOK
  BY TimeAssumption DEF Init, TypeOK, Stamp, Reply
<1>2. IndexConsistent
  BY DEF Init, IndexConsistent, PlacesOf
<1>3. NowBehind
  BY DEF Init, NowBehind
<1>4. ReplayAgrees
  BY DEF Init, ReplayAgrees
<1> QED BY <1>1, <1>2, <1>3, <1>4 DEF IInv

\* push_internal_, of any node.
LEMMA StoreInv ==
  ASSUME IInv, NEW k \in Key, NEW n \in Node, Store(k, n),
         UNCHANGED <<clock, now_sec>>
  PROVE  /\ key_map' \in Map /\ logged' \in Map /\ items' \subseteq Place
         /\ IndexConsistent' /\ NowBehind' /\ ReplayAgrees'
<1> USE DEF IInv
<1>1. key_map \in Map /\ logged \in Map
  BY DEF TypeOK, Map
<1>2. key_map' \in Map /\ logged' \in Map
  BY <1>1 DEF Store, Map
<1>3. items' \subseteq Place
  BY PlaceTypes DEF TypeOK, Store
<1>4. IndexConsistent'
  BY <1>1, PlacesStore DEF IndexConsistent, Store, Filed, PlacesOf
<1>5. NowBehind'
  BY DEF NowBehind
<1>6. ReplayAgrees'
  <2> SUFFICES ASSUME NEW j \in Key
               PROVE  \/ logged'[j] = key_map'[j]
                      \/ key_map'[j] = Absent /\ logged'[j] # Absent /\ Lapsed(logged'[j], clock')
    BY DEF ReplayAgrees
  <2>1. CASE j = k
    BY <2>1, <1>1 DEF Store, Map
  <2>2. CASE j # k
    BY <2>2, <1>1 DEF Store, Map, ReplayAgrees
  <2> QED BY <2>1, <2>2
<1> QED BY <1>2, <1>3, <1>4, <1>5, <1>6

\* Every step keeps the invariant.
LEMMA NextInv == IInv /\ [Next]_vars => IInv'
<1> SUFFICES ASSUME IInv, [Next]_vars PROVE IInv'
  OBVIOUS
<1> USE DEF IInv
<1>a. key_map \in Map /\ logged \in Map
  BY DEF TypeOK, Map
<1>b. clock \in Int /\ clock \in Stamp /\ \A r \in Reactor : now_sec[r] \in Stamp /\ now_sec[r] \in Int
  BY TimeAssumption DEF TypeOK, Stamp
<1>1. CASE Tick
  <2>1. TypeOK'
    BY <1>1, TimeAssumption DEF Tick, TypeOK, Stamp
  <2>2. IndexConsistent'
    BY <1>1 DEF Tick, IndexConsistent, PlacesOf
  <2>3. NowBehind'
    BY <1>1, <1>b DEF Tick, NowBehind
  <2>4. ReplayAgrees'
    <3>1. \A k \in Key : logged[k] # Absent => logged[k].expiry \in Int
      BY <1>a, TimeAssumption DEF Map, Node, Stamp
    <3> QED BY <1>1, <1>b, <3>1 DEF Tick, ReplayAgrees, Lapsed
  <2> QED BY <2>1, <2>2, <2>3, <2>4
<1>2. ASSUME NEW r \in Reactor, Wake(r)
      PROVE  IInv'
  <2>1. TypeOK'
    BY <1>2 DEF Wake, TypeOK
  <2>2. IndexConsistent'
    BY <1>2 DEF Wake, IndexConsistent, PlacesOf
  <2>3. NowBehind'
    BY <1>2, <1>b DEF Wake, NowBehind, TypeOK
  <2>4. ReplayAgrees'
    BY <1>2 DEF Wake, ReplayAgrees
  <2> QED BY <2>1, <2>2, <2>3, <2>4
<1>3. ASSUME NEW r \in Reactor, Tail(r)
      PROVE  IInv'
  <2> DEFINE gone == IF loop[r] = "idle" THEN Swept(now_sec[r]) ELSE {}
  <2>1. gone \in SUBSET PlacesOf(key_map)
    BY DEF IndexConsistent, Swept
  <2>2. key_map' = Without(key_map, KeysOf(gone)) /\ items' = items \ gone
    BY <1>3 DEF Tail
  <2>3. key_map' \in Map /\ logged' \in Map
    BY <1>3, <1>a, <2>2, WithoutType DEF Tail
  <2>4. TypeOK'
    BY <1>3, <2>2, <2>3, TimeAssumption DEF Tail, TypeOK, Map, Reply, Stamp
  <2>5. IndexConsistent'
    <3> HIDE DEF gone
    <3>1. PlacesOf(Without(key_map, KeysOf(gone))) = PlacesOf(key_map) \ gone
      BY <2>1, <1>a, PlacesWithout
    <3> QED BY <2>2, <3>1 DEF IndexConsistent, PlacesOf
  <2>6. NowBehind'
    BY <1>3, <1>b, TimeAssumption DEF Tail, NowBehind, TypeOK, Stamp
  <2>7. ASSUME NEW k \in KeysOf(gone) PROVE k \in Key /\ key_map[k] # Absent /\ Lapsed(key_map[k], clock)
    <3>1. k \in KeysOf(Swept(now_sec[r]))
      BY <2>7 DEF KeysOf
    <3> QED BY <3>1, <1>a, <1>b, SweptLapsed DEF NowBehind, IndexConsistent
  <2>8. ReplayAgrees'
    <3> SUFFICES ASSUME NEW k \in Key
                 PROVE  \/ logged'[k] = key_map'[k]
                        \/ key_map'[k] = Absent /\ logged'[k] # Absent /\ Lapsed(logged'[k], clock)
      BY <1>3 DEF ReplayAgrees, Tail
    <3>1. CASE logged' = key_map'
      BY <3>1
    <3>2. CASE logged' = logged
      <4>1. CASE k \in KeysOf(gone)
        <5>1. key_map'[k] = Absent
          BY <4>1, <2>2 DEF Without
        <5> QED BY <5>1, <4>1, <3>2, <2>7 DEF ReplayAgrees
      <4>2. CASE k \notin KeysOf(gone)
        <5>1. key_map'[k] = key_map[k]
          BY <4>2, <2>2 DEF Without
        <5> QED BY <5>1, <3>2 DEF ReplayAgrees
      <4> QED BY <4>1, <4>2
    <3> QED BY <3>1, <3>2, <1>3 DEF Tail
  <2> QED BY <2>4, <2>5, <2>6, <2>8
<1>4. ASSUME NEW r \in Reactor, Snapshot(r)
      PROVE  IInv'
  <2>1. TypeOK'
    BY <1>4 DEF Snapshot, TypeOK, Reply
  <2>2. IndexConsistent'
    BY <1>4 DEF Snapshot, IndexConsistent, PlacesOf
  <2>3. NowBehind'
    BY <1>4 DEF Snapshot, NowBehind
  <2>4. ReplayAgrees'
    BY <1>4 DEF Snapshot, ReplayAgrees
  <2> QED BY <2>1, <2>2, <2>3, <2>4
<1>5. ASSUME NEW r \in Reactor, NEW mode \in PushModes, NEW k \in Key, NEW n \in Node,
             PushNew(r, mode, k, n)
      PROVE  IInv'
  <2>1. Store(k, n) /\ UNCHANGED <<clock, now_sec>>
    BY <1>5 DEF PushNew
  <2>2. TypeOK'
    BY <1>5, <2>1, StoreInv, ModesAssumption DEF PushNew, Processed, TypeOK, Map, Reply
  <2> QED BY <2>1, <2>2, StoreInv
<1>6. ASSUME NEW r \in Reactor, NEW mode \in PushModes, NEW k \in Key, NEW n \in Node,
             PushUpdate(r, mode, k, n)
      PROVE  IInv'
  <2>1. Updated(mode, key_map[k], n) \in Node
    BY <1>6, <1>a, UpdatedType DEF PushUpdate, Found, Map
  <2>2. Store(k, Updated(mode, key_map[k], n)) /\ UNCHANGED <<clock, now_sec>>
    BY <1>6 DEF PushUpdate
  <2>3. TypeOK'
    BY <1>6, <2>1, <2>2, StoreInv, ModesAssumption DEF PushUpdate, Processed, TypeOK, Map, Reply
  <2> QED BY <2>1, <2>2, <2>3, StoreInv
<1>7. ASSUME NEW r \in Reactor, NEW mode \in PushModes, NEW k \in Key, PushRefused(r, mode, k)
      PROVE  IInv'
  <2>1. TypeOK'
    BY <1>7 DEF PushRefused, Processed, TypeOK, Reply
  <2>2. IndexConsistent'
    BY <1>7 DEF PushRefused, IndexConsistent, PlacesOf
  <2>3. NowBehind' /\ ReplayAgrees'
    BY <1>7 DEF PushRefused, NowBehind, ReplayAgrees
  <2> QED BY <2>1, <2>2, <2>3
<1>8. ASSUME NEW r \in Reactor, NEW n \in 1..MaxBatch, NEW order \in Order, Pop(r, n, order)
      PROVE  IInv'
  <2> DEFINE swept == Swept(now_sec[r])
  <2>1. PICK batch \in FirstOf(items \ swept, n, order) :
          /\ items' = items \ (swept \cup batch)
          /\ key_map' = Without(key_map, KeysOf(swept \cup batch))
          /\ logged' = Without(logged, KeysOf(batch))
          /\ reply' = Reply("pop", KeysOf(batch))
          /\ IF batch = {} THEN UNCHANGED loop ELSE Processed(r)
    BY <1>8 DEF Pop
  <2>2. /\ UNCHANGED <<clock, now_sec>>
        /\ Serving(r)
    BY <1>8 DEF Pop
  <2> HIDE DEF swept
  <2>3. swept \in SUBSET PlacesOf(key_map) /\ batch \in SUBSET PlacesOf(key_map)
    BY FirstOfSubset DEF swept, IndexConsistent, Swept
  <2>4. key_map' \in Map /\ logged' \in Map
    BY <2>1, <1>a, WithoutType
  <2>5. KeysOf(batch) \subseteq Key
    BY <2>3, <1>a, KeysOfPlaces
  <2>6. TypeOK'
    BY <2>1, <2>2, <2>4, <2>5 DEF TypeOK, Map, Processed, Reply
  <2>7. IndexConsistent'
    <3>1. PlacesOf(Without(key_map, KeysOf(swept \cup batch))) = PlacesOf(key_map) \ (swept \cup batch)
      BY <2>3, <1>a, PlacesWithout
    <3> QED BY <2>1, <3>1 DEF IndexConsistent, PlacesOf
  <2>8. NowBehind'
    BY <2>2 DEF NowBehind
  <2>9. \A k \in KeysOf(swept) : key_map[k] # Absent /\ Lapsed(key_map[k], clock)
    BY <1>a, <1>b, SweptLapsed DEF swept, NowBehind, IndexConsistent
  <2>10. KeysOf(swept \cup batch) = KeysOf(swept) \cup KeysOf(batch)
    BY DEF KeysOf
  <2>11. ReplayAgrees'
    <3> SUFFICES ASSUME NEW k \in Key
                 PROVE  \/ logged'[k] = key_map'[k]
                        \/ key_map'[k] = Absent /\ logged'[k] # Absent /\ Lapsed(logged'[k], clock)
      BY <2>2 DEF ReplayAgrees
    <3>1. CASE k \in KeysOf(batch)
      BY <3>1, <2>1, <2>10 DEF Without
    <3>2. CASE k \notin KeysOf(batch) /\ k \in KeysOf(swept)
      <4>1. key_map'[k] = Absent /\ logged'[k] = logged[k]
        BY <3>2, <2>1, <2>10 DEF Without
      <4> QED BY <4>1, <3>2, <2>9 DEF ReplayAgrees
    <3>3. CASE k \notin KeysOf(batch) /\ k \notin KeysOf(swept)
      <4>1. key_map'[k] = key_map[k] /\ logged'[k] = logged[k]
        BY <3>3, <2>1, <2>10 DEF Without
      <4> QED BY <4>1 DEF ReplayAgrees
    <3> QED BY <3>1, <3>2, <3>3
  <2> QED BY <2>6, <2>7, <2>8, <2>11
<1>9. ASSUME NEW r \in Reactor, NEW threshold \in Stamp, NEW expiry \in Stamp,
             NEW n \in 1..MaxBatch, Refresh(r, threshold, expiry, n)
      PROVE  IInv'
  <2>1. PICK batch \in FirstOf({it \in items : it.expiry <= threshold}, n, "asc") :
          /\ key_map' = Postponed(key_map, KeysOf(batch), expiry)
          /\ items' = (items \ batch) \cup {PlaceOf(k, key_map'[k]) : k \in KeysOf(batch)}
          /\ logged' = [k \in Key |-> IF k \in KeysOf(batch) THEN key_map'[k] ELSE logged[k]]
          /\ reply' = Reply("refresh", KeysOf(batch))
    BY <1>9 DEF Refresh
  <2>2. /\ UNCHANGED <<clock, now_sec>>
        /\ Processed(r)
    BY <1>9 DEF Refresh
  <2>3. batch \in SUBSET PlacesOf(key_map)
    BY FirstOfSubset DEF IndexConsistent
  <2>4. KeysOf(batch) \subseteq Key /\ \A k \in KeysOf(batch) : key_map[k] # Absent
    BY <2>3, <1>a, KeysOfPlaces
  <2>5. key_map' \in Map
    BY <2>1, <2>4, <1>a, PostponedType
  <2>6. logged' \in Map
    BY <2>1, <2>5, <1>a DEF Map
  <2>7. \A k \in KeysOf(batch) : key_map'[k] \in Node
    <3> SUFFICES ASSUME NEW k \in KeysOf(batch) PROVE key_map'[k] \in Node
      OBVIOUS
    <3>1. key_map[k] \in Node /\ key_map'[k] = [key_map[k] EXCEPT !.expiry = expiry]
      BY <2>1, <2>4, <1>a DEF Map, Postponed
    <3> QED BY <3>1 DEF Node
  <2>8. items' \subseteq Place
    BY <2>1, <2>4, <2>7, PlaceTypes DEF TypeOK
  <2>9. TypeOK'
    BY <2>1, <2>2, <2>4, <2>5, <2>6, <2>8 DEF TypeOK, Map, Processed, Reply
  <2>10. IndexConsistent'
    <3>1. PlacesOf(key_map') = (PlacesOf(key_map) \ batch) \cup {PlaceOf(k, key_map'[k]) : k \in KeysOf(batch)}
      BY <2>1, <2>3, <1>a, PlacesPostponed
    <3> QED BY <2>1, <3>1 DEF IndexConsistent, PlacesOf
  <2>11. NowBehind'
    BY <2>2 DEF NowBehind
  <2>12. ReplayAgrees'
    <3> SUFFICES ASSUME NEW k \in Key
                 PROVE  \/ logged'[k] = key_map'[k]
                        \/ key_map'[k] = Absent /\ logged'[k] # Absent /\ Lapsed(logged'[k], clock)
      BY <2>2 DEF ReplayAgrees
    <3>1. CASE k \in KeysOf(batch)
      BY <3>1, <2>1
    <3>2. CASE k \notin KeysOf(batch)
      BY <3>2, <2>1 DEF Postponed, ReplayAgrees
    <3> QED BY <3>1, <3>2
  <2> QED BY <2>9, <2>10, <2>11, <2>12
<1>10. ASSUME NEW r \in Reactor, NEW k \in Key, Remove(r, k)
       PROVE  IInv'
  <2>1. key_map' \in Map /\ logged' \in Map
    BY <1>10, <1>a, WithoutType DEF Remove
  <2>2. TypeOK'
    BY <1>10, <2>1 DEF Remove, TypeOK, Map, Processed, Reply
  <2>3. IndexConsistent'
    <3>1. PlacesOf(Without(key_map, {k})) = PlacesOf(key_map) \ Filed(k)
      BY <1>a, PlacesWithoutKey DEF Filed
    <3> QED BY <1>10, <3>1 DEF Remove, IndexConsistent, PlacesOf
  <2>4. NowBehind'
    BY <1>10 DEF Remove, NowBehind
  <2>5. ReplayAgrees'
    <3> SUFFICES ASSUME NEW j \in Key
                 PROVE  \/ logged'[j] = key_map'[j]
                        \/ key_map'[j] = Absent /\ logged'[j] # Absent /\ Lapsed(logged'[j], clock)
      BY <1>10 DEF ReplayAgrees, Remove
    <3> QED BY <1>10 DEF Remove, Without, ReplayAgrees
  <2> QED BY <2>2, <2>3, <2>4, <2>5
<1>11. CASE Restart
  <2>1. key_map' \in Map /\ logged' = key_map'
    BY <1>11, <1>a DEF Restart
  <2>2. items' \subseteq Place
    BY <1>11, <2>1, PlaceTypes DEF Restart, PlacesOf, Map
  <2>3. TypeOK'
    BY <1>11, <2>1, <2>2, TimeAssumption DEF Restart, TypeOK, Map, Reply, Stamp
  <2>4. IndexConsistent'
    BY <1>11 DEF Restart, IndexConsistent, PlacesOf
  <2>5. NowBehind'
    BY <1>11, <1>b, TimeAssumption DEF Restart, NowBehind, Stamp
  <2>6. ReplayAgrees'
    BY <1>11, <2>1 DEF Restart, ReplayAgrees
  <2> QED BY <2>3, <2>4, <2>5, <2>6
<1>12. CASE UNCHANGED vars
  <2>1. TypeOK'
    BY <1>12 DEF vars, TypeOK
  <2>2. IndexConsistent' /\ NowBehind' /\ ReplayAgrees'
    BY <1>12 DEF vars, IndexConsistent, PlacesOf, NowBehind, ReplayAgrees
  <2> QED BY <2>1, <2>2
<1>13. CASE RefreshRefused
  <2>1. TypeOK'
    BY <1>13 DEF RefreshRefused, TypeOK, Reply
  <2>2. IndexConsistent' /\ NowBehind' /\ ReplayAgrees'
    BY <1>13 DEF RefreshRefused, IndexConsistent, PlacesOf, NowBehind, ReplayAgrees
  <2> QED BY <2>1, <2>2
<1> QED
  BY <1>1, <1>2, <1>3, <1>4, <1>5, <1>6, <1>7, <1>8, <1>9, <1>10, <1>11, <1>12, <1>13
     DEF Next, Push, RefreshRequest

\* The invariant holds in every reachable state.
THEOREM Invariant == Spec => []IInv
BY InitInv, NextInv, PTL DEF Spec

\* Every variable keeps its type, whatever the operations.
THEOREM TypeCorrect == Spec => []TypeOK
<1>1. IInv => TypeOK
  BY DEF IInv
<1> QED BY <1>1, Invariant, PTL

\* The index of flexible_queue.hpp files every node once, under its present
\* place: pop, refresh and the sweeps never meet a freed or misplaced node.
THEOREM IndexAlwaysConsistent == Spec => []IndexConsistent
<1>1. IInv => IndexConsistent
  BY DEF IInv
<1> QED BY <1>1, Invariant, PTL

\* The log stands for the contents, but for entries that have lapsed.
THEOREM ReplayAlwaysAgrees == Spec => []ReplayAgrees
<1>1. IInv => ReplayAgrees
  BY DEF IInv
<1> QED BY <1>1, Invariant, PTL

-----------------------------------------------------------------------------
(* What a step may do to an entry *)

\* A step that changes the node of one key only, and leaves one there, loses
\* none.
LEMMA StoreLoses ==
  ASSUME IInv, NEW k \in Key, NEW n \in Node, Store(k, n)
  PROVE  \A j \in Key : key_map'[j] = (IF j = k THEN n ELSE key_map[j])
BY DEF IInv, TypeOK, Store

\* Every step from it loses only what the accounts allow.
LEMMA LossNext == IInv /\ [Next]_vars => [LossStep]_vars
<1> SUFFICES ASSUME IInv, [Next]_vars, NEW k \in Key,
                    key_map[k] # Absent, key_map'[k] = Absent
             PROVE  \/ reply'.op \in {"pop", "remove"} /\ k \in reply'.keys
                    \/ Lapsed(key_map[k], clock)
  BY DEF LossStep
<1> USE DEF IInv
<1>a. key_map \in Map /\ logged \in Map
  BY DEF TypeOK, Map
<1>b. clock \in Stamp /\ \A r \in Reactor : now_sec[r] \in Stamp /\ now_sec[r] <= clock
  BY DEF TypeOK, NowBehind
<1>1. ASSUME NEW r \in Reactor, k \in KeysOf(Swept(now_sec[r]))
      PROVE  Lapsed(key_map[k], clock)
  BY <1>1, <1>a, <1>b, SweptLapsed DEF IndexConsistent
<1>2. CASE UNCHANGED key_map
  BY <1>2
<1>3. ASSUME NEW r \in Reactor, Tail(r)
      PROVE  Lapsed(key_map[k], clock)
  BY <1>3, <1>1 DEF Tail, Without, KeysOf
<1>4. ASSUME NEW r \in Reactor, NEW mode \in PushModes, NEW n \in Node, NEW j \in Key,
             PushNew(r, mode, j, n) \/ PushUpdate(r, mode, j, n)
      PROVE  FALSE
  <2>1. PICK m \in Node : Store(j, m)
    <3>1. CASE PushNew(r, mode, j, n)
      BY <3>1 DEF PushNew
    <3>2. CASE PushUpdate(r, mode, j, n)
      <4>1. Updated(mode, key_map[j], n) \in Node
        BY <3>2, <1>a, UpdatedType DEF PushUpdate, Found, Map
      <4> QED BY <3>2, <4>1 DEF PushUpdate
    <3> QED BY <1>4, <3>1, <3>2
  <2>2. key_map'[k] = (IF k = j THEN m ELSE key_map[k])
    BY <2>1, StoreLoses
  <2> QED BY <2>2, AbsentAssumption
<1>5. ASSUME NEW r \in Reactor, NEW n \in 1..MaxBatch, NEW order \in Order, Pop(r, n, order)
      PROVE  \/ reply'.op \in {"pop", "remove"} /\ k \in reply'.keys
             \/ Lapsed(key_map[k], clock)
  <2>1. PICK batch \in FirstOf(items \ Swept(now_sec[r]), n, order) :
          /\ key_map' = Without(key_map, KeysOf(Swept(now_sec[r]) \cup batch))
          /\ reply' = Reply("pop", KeysOf(batch))
    BY <1>5 DEF Pop
  <2>2. k \in KeysOf(Swept(now_sec[r])) \/ k \in KeysOf(batch)
    BY <2>1 DEF Without, KeysOf
  <2> QED BY <2>1, <2>2, <1>1 DEF Reply
<1>6. ASSUME NEW r \in Reactor, NEW threshold \in Stamp, NEW expiry \in Stamp,
             NEW n \in 1..MaxBatch, Refresh(r, threshold, expiry, n)
      PROVE  FALSE
  <2>1. PICK keys : key_map' = Postponed(key_map, keys, expiry)
    BY <1>6 DEF Refresh
  <2>2. key_map[k] \in Node
    BY <1>a DEF Map
  <2>3. key_map'[k] \in Node
    BY <2>1, <2>2 DEF Postponed, Node
  <2> QED BY <2>3, AbsentAssumption
<1>7. ASSUME NEW r \in Reactor, NEW j \in Key, Remove(r, j)
      PROVE  reply'.op = "remove" /\ k \in reply'.keys
  BY <1>7 DEF Remove, Without, Reply
<1>8. CASE Restart
  BY <1>8 DEF Restart, ReplayAgrees
<1> QED
  BY <1>2, <1>3, <1>4, <1>5, <1>6, <1>7, <1>8
     DEF Next, Push, Tick, Wake, Snapshot, PushRefused, RefreshRequest, RefreshRefused, vars

\* No reactor drops an entry before its time, and no restart loses one.
THEOREM LossAlwaysAccounted == Spec => LossAccounted
BY Invariant, LossNext, PTL DEF LossAccounted, Spec

\* Every step from it forgets nothing but what a replacing push replaces.
LEMMA MemoryNext == IInv /\ [Next]_vars => [MemoryStep]_vars
<1> SUFFICES ASSUME IInv, [Next]_vars, NEW k \in Key,
                    key_map[k] # Absent, key_map'[k] # Absent
             PROVE  \/ /\ key_map[k].value \subseteq key_map'[k].value
                       /\ key_map[k].priority <= key_map'[k].priority
                    \/ reply' = Reply("replace", {k})
                    \/ Lapsed(key_map[k], clock)
  BY DEF MemoryStep
<1> USE DEF IInv
<1>a. key_map \in Map /\ logged \in Map
  BY DEF TypeOK, Map
<1>b. clock \in Stamp /\ \A r \in Reactor : now_sec[r] \in Stamp /\ now_sec[r] <= clock
  BY DEF TypeOK, NowBehind
<1>c. key_map[k] \in Node /\ key_map[k].priority <= key_map[k].priority
  <2>1. key_map[k] \in Node
    BY <1>a DEF Map
  <2>2. \A p \in Pri : p <= p
    BY PriAssumption
  <2> QED BY <2>1, <2>2 DEF Node
<1>1. CASE key_map'[k] = key_map[k]
  BY <1>1, <1>c
<1>2. ASSUME NEW keys, key_map' = Without(key_map, keys)
      PROVE  key_map'[k] = key_map[k]
  BY <1>2 DEF Without
<1>3. ASSUME NEW r \in Reactor, NEW mode \in PushModes, NEW n \in Node, NEW j \in Key,
             PushNew(r, mode, j, n)
      PROVE  key_map'[k] = key_map[k] \/ Lapsed(key_map[k], clock)
  <2>1. key_map'[k] = (IF k = j THEN n ELSE key_map[k])
    BY <1>3, StoreLoses DEF PushNew
  <2>2. CASE k # j
    BY <2>1, <2>2
  <2>3. CASE k = j
    <3>1. Lapsed(key_map[k], now_sec[r])
      BY <1>3, <2>3 DEF PushNew, Found
    <3>2. key_map[k].expiry \in Int /\ clock \in Int /\ now_sec[r] \in Int
      BY <1>b, <1>c, TimeAssumption DEF Node, Stamp
    <3> QED BY <3>1, <3>2, <1>b DEF Lapsed
  <2> QED BY <2>2, <2>3
<1>4. ASSUME NEW r \in Reactor, NEW mode \in PushModes, NEW n \in Node, NEW j \in Key,
             PushUpdate(r, mode, j, n)
      PROVE  \/ key_map'[k] = key_map[k]
             \/ /\ key_map[k].value \subseteq key_map'[k].value
                /\ key_map[k].priority <= key_map'[k].priority
             \/ reply' = Reply("replace", {k})
  <2>1. key_map[j] \in Node
    BY <1>4, <1>a DEF PushUpdate, Found, Map
  <2>2. Updated(mode, key_map[j], n) \in Node
    BY <2>1, UpdatedType
  <2>3. key_map'[k] = (IF k = j THEN Updated(mode, key_map[j], n) ELSE key_map[k])
    BY <1>4, <2>2, StoreLoses DEF PushUpdate
  <2>4. mode = "merge" \/ mode = "replace"
    BY <1>4, ModesAssumption DEF PushUpdate, Modes
  <2> QED BY <1>4, <2>1, <2>3, <2>4, UpdatedType DEF PushUpdate
<1>5. ASSUME NEW r \in Reactor, NEW threshold \in Stamp, NEW expiry \in Stamp,
             NEW n \in 1..MaxBatch, Refresh(r, threshold, expiry, n)
      PROVE  /\ key_map[k].value \subseteq key_map'[k].value
             /\ key_map[k].priority <= key_map'[k].priority
  <2>1. PICK keys : key_map' = Postponed(key_map, keys, expiry)
    BY <1>5 DEF Refresh
  <2>2. key_map'[k] = IF k \in keys THEN [key_map[k] EXCEPT !.expiry = expiry] ELSE key_map[k]
    BY <2>1 DEF Postponed
  <2>3. key_map'[k].value = key_map[k].value /\ key_map'[k].priority = key_map[k].priority
    BY <2>2, <1>c DEF Node
  <2> QED BY <2>3, <1>c
<1>6. CASE Restart
  BY <1>6, <1>1 DEF Restart, ReplayAgrees
<1>7. CASE UNCHANGED key_map
  BY <1>7, <1>1
<1> QED
  BY <1>1, <1>2, <1>3, <1>4, <1>5, <1>6, <1>7
     DEF Next, Push, Tick, Wake, Tail, Snapshot, PushRefused, RefreshRequest, RefreshRefused, Pop, Remove, vars

\* Merges accumulate: only a replacing push shortens the list of moves of an
\* entry or lowers its priority.
THEOREM NothingEverForgotten == Spec => NothingForgotten
BY Invariant, MemoryNext, PTL DEF NothingForgotten, Spec
=============================================================================
