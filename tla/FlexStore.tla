------------------------------ MODULE FlexStore ------------------------------
(***************************************************************************)
(* The in-memory store behind one fqdb queue: FlexibleQueueImpl in         *)
(* src/fqdb/src/flexible_queue.hpp, with the push modes main.cpp offers.   *)
(*                                                                         *)
(* key_map finds the node of a key and items orders the nodes by priority  *)
(* and expiry.  Every operation updates both by hand and logs the change,  *)
(* except the removal of entries that lapsed: that one is not logged.      *)
(* A reactor reads the clock once per wake-up (now_sec) and then serves    *)
(* any number of requests, so reactors decide what has lapsed with clocks  *)
(* of different ages.  Each operation runs under the exclusive lock rw_    *)
(* and is one action here; the loop of a reactor is Wake, operations, Tail.*)
(*                                                                         *)
(* The template instances of main.cpp differ in the constants only:        *)
(*   QP   WithPriority = TRUE,  AutoExpiryThreshold = 0                    *)
(*   QNP  WithPriority = FALSE, AutoExpiryThreshold = -1, Pri = {0}        *)
(*                                                                         *)
(* Bounds: stamps and the clock run over 0..MaxTime, pop and refresh ask   *)
(* for at most MaxBatch entries.                                           *)
(***************************************************************************)
EXTENDS Integers, FiniteSets

CONSTANTS
  Key,                  \* keys (positions, or digests of handed-out tasks)
  Move,                 \* comma separated tokens of a value
  Absent,               \* key_map has no node for the key
  Reactor,              \* reactor threads
  Pri,                  \* priorities clients use
  WithPriority,         \* template parameter of FlexibleQueueImpl
  AutoExpiryThreshold,  \* template parameter: priorities up to it lapse
  PushModes,            \* how the clients of this queue push
  MaxTime,              \* bound on the clock
  MaxBatch              \* bound on the entries one pop or refresh asks for

Stamp == 0..MaxTime
Modes == {"insert", "replace", "merge"}
Node == [priority : Pri, expiry : Stamp, value : SUBSET Move]
Place == [priority : Pri, expiry : Stamp, key : Key]
Order == {"asc", "desc"}

ASSUME PriAssumption == Pri \subseteq Nat
ASSUME TimeAssumption == MaxTime \in Nat
ASSUME BatchAssumption == MaxBatch \in Nat
ASSUME AbsentAssumption == Absent \notin Node
ASSUME ModesAssumption == PushModes \subseteq Modes
\* The two instances: without priorities nothing lapses by itself, and refresh
\* exists only there.
ASSUME InstanceAssumption ==
  /\ WithPriority \in BOOLEAN
  /\ AutoExpiryThreshold \in Int
  /\ ~WithPriority => AutoExpiryThreshold < 0

VARIABLES
  key_map,   \* the node of each key, or Absent
  items,     \* the ordered index: the place every node is filed under
  clock,     \* system time
  now_sec,   \* the time a reactor read when it woke up
  loop,      \* where a reactor is: "waiting", "idle" or "worked" this round
  logged,    \* the contents the log and the snapshot stand for
  reply      \* what the last operation told its client

vars == <<key_map, items, clock, now_sec, loop, logged, reply>>

-----------------------------------------------------------------------------
(* Helpers *)

\* Where a node is filed: its bucket, and the expiry it was inserted with.
PlaceOf(k, n) == [priority |-> n.priority, expiry |-> n.expiry, key |-> k]

PlacesOf(m) == {PlaceOf(k, m[k]) : k \in {j \in Key : m[j] # Absent}}

\* The place the node of k is looked up under before it is changed or freed.
Filed(k) == IF key_map[k] = Absent THEN {} ELSE {PlaceOf(k, key_map[k])}

\* What push and clear_expired_items_ take for gone at time now.
Lapsed(x, now) == x.priority <= AutoExpiryThreshold /\ x.expiry <= now

\* Mutation: the sweep forgets the threshold.
SweptAnyPriority(now) == {it \in items : it.expiry <= now}

Swept(now) == {it \in items : Lapsed(it, now)}

KeysOf(places) == {it.key : it \in places}

Without(m, keys) == [k \in Key |-> IF k \in keys THEN Absent ELSE m[k]]

\* Buckets are walked from the highest priority down, each from its earliest
\* or its latest expiry; equal expiries are ordered by address, that is, anyhow.
Before(a, b, order) ==
  \/ a.priority > b.priority
  \/ /\ a.priority = b.priority
     /\ IF order = "asc" THEN a.expiry < b.expiry ELSE a.expiry > b.expiry

\* The sets the first n of the given places may be.
FirstOf(places, n, order) ==
  {batch \in SUBSET places :
     /\ Cardinality(batch) = (IF Cardinality(places) < n THEN Cardinality(places) ELSE n)
     /\ \A a \in batch, b \in places \ batch : ~Before(b, a, order)}

Reply(op, keys) == [op |-> op, keys |-> keys]

Serving(r) == loop[r] # "waiting"

Processed(r) == loop' = [loop EXCEPT ![r] = "worked"]

-----------------------------------------------------------------------------
Init ==
  /\ key_map = [k \in Key |-> Absent]
  /\ items = {}
  /\ clock = 0
  /\ now_sec = [r \in Reactor |-> 0]
  /\ loop = [r \in Reactor |-> "waiting"]
  /\ logged = [k \in Key |-> Absent]
  /\ reply = Reply("none", {})

\* Time passes, whatever the reactors do.
Tick ==
  /\ clock < MaxTime
  /\ clock' = clock + 1
  /\ UNCHANGED <<key_map, items, now_sec, loop, logged, reply>>

\* A reactor finds pending work and reads the clock for the whole round.
Wake(r) ==
  /\ loop[r] = "waiting"
  /\ loop' = [loop EXCEPT ![r] = "idle"]
  /\ now_sec' = [now_sec EXCEPT ![r] = clock]
  /\ UNCHANGED <<key_map, items, clock, logged, reply>>

\* A push does not find a node that has lapsed for its reactor.
Found(r, k) == key_map[k] # Absent /\ ~Lapsed(key_map[k], now_sec[r])

\* Mutation: the old place is not erased.
StoreTwice(k, n) ==
  /\ items' = items \cup {PlaceOf(k, n)}
  /\ key_map' = [key_map EXCEPT ![k] = n]
  /\ logged' = [logged EXCEPT ![k] = n]

\* push_internal_: the node is filed under its new place, and no other.
Store(k, n) ==
  /\ items' = (items \ Filed(k)) \cup {PlaceOf(k, n)}
  /\ key_map' = [key_map EXCEPT ![k] = n]
  /\ logged' = [logged EXCEPT ![k] = n]

\* A push of a key it does not find; what has lapsed under the key is dropped.
PushNew(r, mode, k, n) ==
  /\ Serving(r) /\ ~Found(r, k)
  /\ Store(k, n)
  /\ Processed(r)
  /\ reply' = Reply(mode, {k})
  /\ UNCHANGED <<clock, now_sec>>

\* Mutations: the list of tokens starts over; priorities add up.
MergedNewest(old, n) == [old EXCEPT !.value = n.value]
MergedSum(old, n) ==
  [old EXCEPT !.value = old.value \cup n.value,
              !.priority = old.priority + n.priority]

\* What main.cpp's mutate function makes of the old node and the new one: both
\* lists of tokens without repetition, the higher priority, the old expiry.
Merged(old, n) ==
  [old EXCEPT !.value = old.value \cup n.value,
              !.priority = IF n.priority > old.priority THEN n.priority ELSE old.priority]

\* The default function: the new node takes the place of the old one.
Updated(mode, old, n) == IF mode = "merge" THEN Merged(old, n) ELSE n

\* A push with upsert of a key it finds.
PushUpdate(r, mode, k, n) ==
  /\ Serving(r) /\ Found(r, k)
  /\ mode # "insert"
  /\ Store(k, Updated(mode, key_map[k], n))
  /\ Processed(r)
  /\ reply' = Reply(mode, {k})
  /\ UNCHANGED <<clock, now_sec>>

\* A push without upsert of a key it finds changes nothing.
PushRefused(r, mode, k) ==
  /\ Serving(r) /\ Found(r, k)
  /\ mode = "insert"
  /\ Processed(r)
  /\ reply' = Reply("none", {})
  /\ UNCHANGED <<key_map, items, clock, now_sec, logged>>

\* Mutation: pop does not log what it hands out.
PopUnlogged(r, n, order) ==
  /\ Serving(r)
  /\ \E batch \in FirstOf(items \ Swept(now_sec[r]), n, order) :
       /\ items' = items \ (Swept(now_sec[r]) \cup batch)
       /\ key_map' = Without(key_map, KeysOf(Swept(now_sec[r]) \cup batch))
       /\ reply' = Reply("pop", KeysOf(batch))
       /\ IF batch = {} THEN UNCHANGED loop ELSE Processed(r)
  /\ UNCHANGED <<clock, now_sec, logged>>

\* pop: what has lapsed is cleared first and not logged, then the first n
\* entries are handed out and logged as deleted.
Pop(r, n, order) ==
  /\ Serving(r)
  /\ \E batch \in FirstOf(items \ Swept(now_sec[r]), n, order) :
       /\ items' = items \ (Swept(now_sec[r]) \cup batch)
       /\ key_map' = Without(key_map, KeysOf(Swept(now_sec[r]) \cup batch))
       /\ logged' = Without(logged, KeysOf(batch))
       /\ reply' = Reply("pop", KeysOf(batch))
       /\ IF batch = {} THEN UNCHANGED loop ELSE Processed(r)
  /\ UNCHANGED <<clock, now_sec>>

Postponed(m, keys, expiry) ==
  [k \in Key |-> IF k \in keys THEN [m[k] EXCEPT !.expiry = expiry] ELSE m[k]]

\* Mutation: the expiry is changed in place, under a stale position.
RefreshInPlace(r, threshold, expiry, n) ==
  /\ Serving(r)
  /\ expiry > threshold
  /\ \E batch \in FirstOf({it \in items : it.expiry <= threshold}, n, "asc") :
       LET due == KeysOf(batch)
       IN /\ key_map' = Postponed(key_map, due, expiry)
          /\ logged' = [k \in Key |-> IF k \in due THEN key_map'[k] ELSE logged[k]]
          /\ reply' = Reply("refresh", due)
  /\ Processed(r)
  /\ UNCHANGED <<items, clock, now_sec>>

\* refresh: the n earliest entries that expired by the threshold are handed
\* out and stay, filed under and logged with the new expiry.
Refresh(r, threshold, expiry, n) ==
  /\ Serving(r)
  /\ expiry > threshold
  /\ \E batch \in FirstOf({it \in items : it.expiry <= threshold}, n, "asc") :
       LET due == KeysOf(batch)
       IN /\ key_map' = Postponed(key_map, due, expiry)
          /\ items' = (items \ batch) \cup {PlaceOf(k, key_map'[k]) : k \in due}
          /\ logged' = [k \in Key |-> IF k \in due THEN key_map'[k] ELSE logged[k]]
          /\ reply' = Reply("refresh", due)
  /\ Processed(r)
  /\ UNCHANGED <<clock, now_sec>>

\* main.cpp refuses to refresh the queue with priorities, with an empty reply,
\* before the request reaches a reactor.
RefreshRefused == reply' = Reply("none", {}) /\ UNCHANGED <<key_map, items, clock, now_sec, loop, logged>>

RefreshRequest ==
  IF WithPriority THEN RefreshRefused
  ELSE \E r \in Reactor, threshold \in Stamp, expiry \in Stamp, n \in 1..MaxBatch :
         Refresh(r, threshold, expiry, n)

\* remove: logged only if the key was there.
Remove(r, k) ==
  /\ Serving(r)
  /\ items' = items \ Filed(k)
  /\ key_map' = Without(key_map, {k})
  /\ logged' = IF key_map[k] = Absent THEN logged ELSE Without(logged, {k})
  /\ Processed(r)
  /\ reply' = Reply("remove", {k})
  /\ UNCHANGED <<clock, now_sec>>

\* The queue is empty.  A round that served nothing clears what has lapsed, and
\* a snapshot may be due: the contents then stand for themselves once it is
\* committed; whether that happens before the next restart is decided here.
Tail(r) ==
  /\ Serving(r)
  /\ LET gone == IF loop[r] = "idle" THEN Swept(now_sec[r]) ELSE {}
     IN /\ items' = items \ gone
        /\ key_map' = Without(key_map, KeysOf(gone))
  /\ logged' \in {logged, key_map'}
  /\ loop' = [loop EXCEPT ![r] = "waiting"]
  /\ now_sec' = [now_sec EXCEPT ![r] = 0]
  /\ reply' = Reply("none", {})
  /\ UNCHANGED clock

\* snapshot_now: the same, asked for by the program that embeds the queue; the
\* round counts as one that served nothing.
Snapshot(r) ==
  /\ Serving(r)
  /\ logged' \in {logged, key_map}
  /\ loop' = [loop EXCEPT ![r] = "idle"]
  /\ reply' = Reply("none", {})
  /\ UNCHANGED <<key_map, items, clock, now_sec>>

\* The process ends and starts again on its files: on the snapshot the
\* destructor takes, or on what was logged.  What a crash can lose of the log
\* is the subject of Durability.
Restart ==
  /\ key_map' \in {key_map, logged}
  /\ logged' = key_map'
  /\ items' = PlacesOf(key_map')
  /\ loop' = [r \in Reactor |-> "waiting"]
  /\ now_sec' = [r \in Reactor |-> 0]
  /\ reply' = Reply("none", {})
  /\ UNCHANGED clock

Push ==
  \E r \in Reactor, mode \in PushModes, k \in Key :
    \/ \E n \in Node : PushNew(r, mode, k, n) \/ PushUpdate(r, mode, k, n)
    \/ PushRefused(r, mode, k)

Next ==
  \/ Tick
  \/ \E r \in Reactor : Wake(r) \/ Tail(r) \/ Snapshot(r)
  \/ Push
  \/ \E r \in Reactor, n \in 1..MaxBatch, order \in Order : Pop(r, n, order)
  \/ RefreshRequest
  \/ \E r \in Reactor, k \in Key : Remove(r, k)
  \/ Restart

Spec == Init /\ [][Next]_vars

-----------------------------------------------------------------------------
(* Properties *)

TypeOK ==
  /\ key_map \in [Key -> Node \cup {Absent}]
  /\ logged \in [Key -> Node \cup {Absent}]
  /\ items \subseteq Place
  /\ clock \in Stamp
  /\ now_sec \in [Reactor -> Stamp]
  /\ loop \in [Reactor -> {"waiting", "idle", "worked"}]
  /\ reply \in [op : Modes \cup {"none", "pop", "refresh", "remove"}, keys : SUBSET Key]

\* The two structures never drift apart: the index files every node once, under
\* the place of its present contents, and nothing else (the reinsertions of
\* push_internal_ and refresh_internal_, the erasures of pop_internal_).
IndexConsistent == items = PlacesOf(key_map)

\* A reactor's clock may be old but is never ahead.
NowBehind == \A r \in Reactor : now_sec[r] <= clock

\* A restart brings back what was there: replaying the log and the snapshot
\* differs from the contents in entries that have lapsed, and in no other way,
\* though clear_expired_items_ logs nothing and reactors sweep with old clocks.
ReplayAgrees ==
  \A k \in Key :
    \/ logged[k] = key_map[k]
    \/ /\ key_map[k] = Absent
       /\ logged[k] # Absent
       /\ Lapsed(logged[k], clock)

\* An entry leaves only to the client that popped or removed it, or because its
\* priority let it lapse and its time had really come: no reactor drops one
\* early, no restart forgets one.
LossStep ==
  \A k \in Key :
    key_map[k] # Absent /\ key_map'[k] = Absent =>
      \/ reply'.op \in {"pop", "remove"} /\ k \in reply'.keys
      \/ Lapsed(key_map[k], clock)

\* Every step keeps to LossStep.
LossAccounted == [][LossStep]_vars

\* While an entry stays, only a push that replaces it makes it forget a move or
\* lowers its priority: merges of many clients accumulate, whatever restarts and
\* snapshots come between.  (One that has lapsed may be started over.)
MemoryStep ==
  \A k \in Key :
    key_map[k] # Absent /\ key_map'[k] # Absent =>
      \/ /\ key_map[k].value \subseteq key_map'[k].value
         /\ key_map[k].priority <= key_map'[k].priority
      \/ reply' = Reply("replace", {k})
      \/ Lapsed(key_map[k], clock)

\* Every step keeps to MemoryStep.
NothingForgotten == [][MemoryStep]_vars
=============================================================================
