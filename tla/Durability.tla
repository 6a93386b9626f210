------------------------------ MODULE Durability ------------------------------
(***************************************************************************)
(* How an fqdb queue keeps its contents on disk: the write-ahead log, its   *)
(* segments, the snapshot a forked child writes, recovery and the orderly   *)
(* stop (FlexibleQueueImpl and its Wal in src/fqdb/src/flexible_queue.hpp). *)
(*                                                                         *)
(* Changes go to a buffer, and from there to data.wal when the buffer is    *)
(* full.  A snapshot begins by rolling the log: data.wal becomes a segment  *)
(* named after its size.  The child writes the contents at the fork and     *)
(* exits; the parent then unlinks all segments, one by one.  A start loads  *)
(* the snapshot and replays the segments, by rising size, then data.wal.    *)
(*                                                                         *)
(* Crashes are those of the process: what was written to a file stays.      *)
(* Sizes count records.  spoiled is a history variable: the mishaps, each   *)
(* unnoticed by the code, after which the files may no longer keep their    *)
(* promise; the properties say which of them they exempt.                   *)
(*                                                                         *)
(* Bound: buffer, log and any one segment hold at most MaxRecords records.  *)
(***************************************************************************)
EXTENDS Integers, FiniteSets, SequencesExt, FiniteSetsExt

CONSTANTS
  Key, Val, None,
  Torn,         \* what an interrupted write leaves at the end of a file
  BufLimit,     \* records the buffer holds
  MaxRecords    \* bound on the records in buffer, log and one segment

ASSUME LimitAssumption == BufLimit \in Nat \ {0} /\ MaxRecords \in Nat
ASSUME TornAssumption == Torn \notin [key : Key, val : Val \cup {None}]

VARIABLES
  contents,   \* key_map_
  buf,        \* records not written yet
  fd,         \* whether data.wal is open
  wal,        \* the records in data.wal
  segs,       \* the segments: records by the size in their name
  snap,       \* the snapshot file
  child,      \* the snapshot child: none, running, exited with 0, or killed
  image,      \* the contents a child has
  orphan,     \* a child that outlived its parent, and its contents
  todo,       \* steps the thread that holds the lock still has to take
  spoiled     \* history: mishaps that happened

vars == <<contents, buf, fd, wal, segs, snap, child, image, orphan, todo, spoiled>>
logVars == <<buf, fd, wal>>
childVars == <<child, image>>

Map == [Key -> Val \cup {None}]
Record == [key : Key, val : Val \cup {None}]
Empty == [k \in Key |-> None]
Mishaps == {"leftover segment", "bad snapshot", "unchecked child", "lost write",
            "torn log", "no log", "failed rename", "two writers"}

-----------------------------------------------------------------------------
(* Files and recovery *)

\* The records set keys in turn: what the last one of a key says stays.
Applied(m, records) ==
  [k \in Key |-> LET last == SelectLastInSeq(records, LAMBDA rec : rec.key = k)
                 IN IF last = 0 THEN m[k] ELSE records[last].val]

\* Replay of a file ends at the first record it cannot read.
Readable(file) ==
  LET bad == {i \in DOMAIN file : file[i] = Torn}
  IN IF bad = {} THEN file ELSE SubSeq(file, 1, Min(bad) - 1)

\* Segments are replayed by rising size: the largest that has a key decides.
Replayed(m, files) ==
  [k \in Key |->
     LET sizes == {size \in DOMAIN files : \E i \in DOMAIN Readable(files[size]) : files[size][i].key = k}
     IN IF sizes = {} THEN m[k] ELSE Applied(m, Readable(files[Max(sizes)]))[k]]

\* load_snapshot_, then replay_wal_: the segments, and then the log.
Rebuilt == Applied(Replayed(snap, segs), Readable(wal))

Put(f, x, y) == [z \in DOMAIN f \cup {x} |-> IF z = x THEN y ELSE f[z]]
Drop(f, x) == [z \in DOMAIN f \ {x} |-> f[z]]

Room ==
  /\ Len(buf) + Len(wal) < MaxRecords
  /\ \A size \in DOMAIN segs : Len(buf) + Len(wal) + size < MaxRecords

Serving == todo = <<>>

-----------------------------------------------------------------------------
Init ==
  /\ contents = Empty
  /\ buf = <<>> /\ fd = "open" /\ wal = <<>> /\ segs = <<>>
  /\ snap = Empty
  /\ child = "none" /\ image = Empty
  /\ orphan = {}
  /\ todo = <<>>
  /\ spoiled = {}

(* The log *)

\* data.wal after flush_ got n records of the buffer written.
Written(n) == wal \o SubSeq(buf, 1, n) \o (IF n < Len(buf) THEN <<Torn>> ELSE <<>>)

\* flush_ looks neither at the result of the write nor at the end of the file.
FlushMishaps(n) ==
  (IF n < Len(buf) THEN {"lost write"} ELSE {}) \cup
  (IF buf # <<>> /\ \E i \in DOMAIN wal : wal[i] = Torn THEN {"torn log"} ELSE {})

\* An operation changes key k and logs it; a full buffer is flushed first.
\* Without a file nothing is logged.
Write(k, v) ==
  /\ Serving /\ Room
  /\ contents' = [contents EXCEPT ![k] = v]
  /\ CASE fd = "closed" -> UNCHANGED <<buf, wal, spoiled>>
       [] fd = "open" /\ Len(buf) < BufLimit ->
            /\ buf' = Append(buf, [key |-> k, val |-> v])
            /\ UNCHANGED <<wal, spoiled>>
       [] fd = "open" /\ Len(buf) = BufLimit ->
            \E n \in 0..Len(buf) :
              /\ wal' = Written(n)
              /\ buf' = <<[key |-> k, val |-> v]>>
              /\ spoiled' = spoiled \cup FlushMishaps(n)
  /\ UNCHANGED <<fd, segs, snap, childVars, orphan, todo>>

\* Wal::sync at the end of a round (main.cpp turns it off).
Sync ==
  /\ Serving /\ fd = "open" /\ buf # <<>>
  /\ \E n \in 0..Len(buf) :
       /\ wal' = Written(n)
       /\ spoiled' = spoiled \cup FlushMishaps(n)
  /\ buf' = <<>>
  /\ UNCHANGED <<contents, fd, segs, snap, childVars, orphan, todo>>

\* Mutation: the size is taken before the buffer is written.
RolledEarly ==
  /\ fd = "open" /\ UNCHANGED <<fd, spoiled>>
  /\ segs' = Put(segs, Len(wal), wal \o buf)
  /\ wal' = <<>>
  /\ buf' = <<>>

\* roll_writer: the log is renamed after its size, over a segment that has the
\* name, and a new one begun.  The result of rename is not looked at: when it
\* fails, opening truncates the log that is still there.
Rolled ==
  /\ fd = "open" /\ UNCHANGED fd
  /\ \E n \in 0..Len(buf) :
       \/ /\ segs' = Put(segs, Len(Written(n)), Written(n))
          /\ spoiled' = spoiled \cup FlushMishaps(n)
                          \cup (IF DOMAIN segs = {} THEN {} ELSE {"leftover segment"})
       \/ /\ UNCHANGED segs
          /\ spoiled' = spoiled \cup FlushMishaps(n) \cup {"failed rename"}
  /\ wal' = <<>>
  /\ buf' = <<>>

\* roll_writer cannot open the new log: the segment is renamed back, and what is
\* then data.wal opened if that works.  With both renames, or neither, the log is
\* where it was, but there and back it takes along an older segment of its size;
\* with the first only it stays a segment; with the second only such an older
\* segment takes its place.
RollFailed ==
  /\ fd = "open" /\ fd' \in {"open", "closed"}
  /\ \E n \in 0..Len(buf) :
       LET log == Written(n)
           size == Len(log)
           left(w, s, mishaps) ==
             /\ wal' = w /\ segs' = s
             /\ spoiled' = spoiled \cup FlushMishaps(n) \cup mishaps
                             \cup (IF fd' = "closed" THEN {"no log"} ELSE {})
       IN \/ left(log, segs, {})
          \/ size \in DOMAIN segs /\ left(log, Drop(segs, size), {"leftover segment"})
          \/ left(<<>>, Put(segs, size, log), IF DOMAIN segs = {} THEN {} ELSE {"leftover segment"})
          \/ size \in DOMAIN segs /\ left(segs[size], Drop(segs, size), {"failed rename"})
  /\ buf' = <<>>

\* roll_writer without a log.
NoLogToRoll == fd = "closed" /\ UNCHANGED <<logVars, segs, spoiled>>

(* Snapshots *)

\* spawn_snapshot_writer_: the fork takes the contents along, if it succeeds.
Spawn ==
  /\ Serving /\ child = "none"
  /\ Rolled
  /\ \/ child' = "running" /\ image' = contents
     \/ UNCHANGED childVars
  /\ UNCHANGED <<contents, snap, orphan, todo>>

\* The log could not be rolled: the snapshot is written in place.
SpawnUnrollable ==
  /\ Serving /\ child = "none"
  /\ RollFailed \/ NoLogToRoll
  /\ todo' = <<"snapshot", "gc">>
  /\ UNCHANGED <<contents, snap, childVars, orphan>>

\* write_snapshot_ of the given contents: renamed into place when complete; but
\* an open that fails leaves the old file, a write that fails a short one, and
\* neither is noticed.
WriteSnapshot(m) ==
  \/ /\ snap' = m
     /\ spoiled' = spoiled \cup (IF orphan = {} THEN {} ELSE {"two writers"})
  \/ /\ snap' \in {snap} \cup {[m EXCEPT ![k] = None] : k \in Key}
     /\ spoiled' = spoiled \cup {"bad snapshot"}

ChildWrites ==
  /\ child = "running"
  /\ WriteSnapshot(image)
  /\ child' = "exited" /\ image' = Empty
  /\ UNCHANGED <<contents, logVars, segs, orphan, todo>>

ChildKilled ==
  /\ child = "running"
  /\ child' = "killed" /\ image' = Empty
  /\ UNCHANGED <<contents, logVars, segs, snap, orphan, todo, spoiled>>

\* reap_snapshot_writer_: only an exit with 0 lets the segments go.
Reap ==
  /\ Serving /\ child \in {"exited", "killed"}
  /\ child' = "none" /\ UNCHANGED image
  /\ todo' = IF child = "exited" THEN <<"gc">> ELSE <<>>
  /\ UNCHANGED <<contents, logVars, segs, snap, orphan, spoiled>>

\* gc_all_wal_segments_ unlinks the segments one by one.
Gc ==
  /\ todo # <<>> /\ Head(todo) = "gc"
  /\ IF DOMAIN segs = {}
     THEN todo' = Tail(todo) /\ UNCHANGED segs
     ELSE segs' = Drop(segs, Min(DOMAIN segs)) /\ UNCHANGED todo
  /\ UNCHANGED <<contents, logVars, snap, childVars, orphan, spoiled>>

SnapshotNow ==
  /\ todo # <<>> /\ Head(todo) = "snapshot"
  /\ WriteSnapshot(contents)
  /\ todo' = Tail(todo)
  /\ UNCHANGED <<contents, logVars, segs, childVars, orphan>>

(* Stop, crash and start *)

\* Mutation: the segments are unlinked before the snapshot that replaces them.
StopSteps(reaped) == reaped \o <<"roll", "gc", "snapshot", "down">>

\* What the destructor does once the reactors have ended.
Shutdown(reaped) == reaped \o <<"roll", "snapshot", "gc", "down">>

\* The destructor waits for a child, and unlinks the segments whatever became
\* of it.
Stop ==
  /\ Serving /\ child # "running"
  /\ todo' = Shutdown(IF child = "none" THEN <<>> ELSE <<"gc">>)
  /\ child' = "none" /\ UNCHANGED image
  /\ spoiled' = spoiled \cup (IF child = "killed" THEN {"unchecked child"} ELSE {})
  /\ UNCHANGED <<contents, logVars, segs, snap, orphan>>

RollNow ==
  /\ todo # <<>> /\ Head(todo) = "roll"
  /\ Rolled \/ RollFailed \/ NoLogToRoll
  /\ todo' = Tail(todo)
  /\ UNCHANGED <<contents, snap, childVars, orphan>>

\* The next process opens the log, and goes on without one if it cannot.
Opened ==
  /\ fd' \in {"open", "closed"}
  /\ spoiled' = spoiled \cup (IF fd' = "closed" THEN {"no log"} ELSE {})

\* The process has ended; the next one loads the files.
StartAgain ==
  /\ todo = <<"down">>
  /\ todo' = <<>>
  /\ Opened
  /\ contents' = Rebuilt
  /\ UNCHANGED <<buf, wal, segs, snap, childVars, orphan>>

\* The process is killed, perhaps in the middle of a flush, and started again.
\* A snapshot child may go with it or outlive it.
Crash ==
  /\ wal' \in {wal} \cup (IF fd = "open" THEN {Written(n) : n \in 0..Len(buf)} ELSE {})
  /\ buf' = <<>>
  /\ Opened
  /\ todo' = <<>>
  /\ child' = "none" /\ image' = Empty
  /\ orphan' \in {orphan} \cup (IF child = "running" THEN {{image}} ELSE {})
  /\ UNCHANGED <<segs, snap>>
  /\ contents' = Rebuilt'

\* An orphan finishes the snapshot of its time.
OrphanWrites ==
  /\ \E m \in orphan : snap' = m
  /\ orphan' = {}
  /\ UNCHANGED <<contents, logVars, segs, childVars, todo, spoiled>>

-----------------------------------------------------------------------------
Next ==
  \/ \E k \in Key, v \in Val \cup {None} : Write(k, v)
  \/ Sync \/ Spawn \/ SpawnUnrollable \/ ChildWrites \/ ChildKilled \/ Reap
  \/ Gc \/ SnapshotNow \/ RollNow
  \/ Stop \/ StartAgain \/ Crash \/ OrphanWrites

Spec == Init /\ [][Next]_vars

-----------------------------------------------------------------------------
(* Properties *)

TypeOK ==
  /\ contents \in Map /\ snap \in Map /\ image \in Map /\ orphan \subseteq Map
  /\ buf \in Seq(Record) /\ Len(buf) <= BufLimit
  /\ fd \in {"open", "closed"}
  /\ wal \in Seq(Record \cup {Torn})
  /\ DOMAIN segs \subseteq 0..MaxRecords
  /\ \A size \in DOMAIN segs : segs[size] \in Seq(Record \cup {Torn}) /\ Len(segs[size]) = size
  /\ child \in {"none", "running", "exited", "killed"}
  /\ todo \in Seq({"gc", "roll", "snapshot", "down"})
  /\ spoiled \subseteq Mishaps

\* The map the clients see, the map the files would give back, and the changes
\* between them.
Kept == INSTANCE DurableMap WITH live <- contents, kept <- Rebuilt, pending <- buf

\* Unless one of the mishaps has happened, every step of logging, rolling,
\* snapshotting, unlinking, stopping and recovering is one the durable map
\* allows: no housekeeping step changes what a crash would give back, and a crash
\* takes the latest changes only, in order.
Durable == [][spoiled' = {} => Kept!Step]_vars

\* The same when a log is rolled while an older segment is still there, the
\* names of the segments being meant to order them.
SegmentsKeepOrder == [][spoiled' \subseteq {"leftover segment"} => Kept!Step]_vars

\* The same when a snapshot cannot be written, as it is "committed atomically".
SnapshotCommits == [][spoiled' \subseteq {"bad snapshot"} => Kept!Step]_vars

\* Bounds the exploration of what follows a mishap.
Logless == spoiled \subseteq {"no log"}
FewMishaps == Cardinality(spoiled) <= 1
=============================================================================
