# A verification project for chessdb

chessdb is a cloud database of evaluated positions for chess and xiangqi. PHP
front ends answer queries from a key/value store, queue what should be analysed
in a queue server of their own (`fqdb`), hand batches of it to worker programs
and ask engines behind a pool proxy. This directory models the parts that run
concurrently, fail and restart (the queue server, the engine pool, the way of a
task from a user to a worker and back) and the board libraries that decide under
which key a position is stored and which moves it has.

    tlc -workers 2 -config <run>.cfg <module>     run, module: see "Runs"
    tlapm <Module>Proofs.tla                      check the proofs

## The system

| Component | Code | State | Operations | Hard behaviour |
|---|---|---|---|---|
| fqdb store | `src/fqdb/src/flexible_queue.hpp` (`FlexibleQueueImpl`), push modes in `main.cpp` | `key_map_` (key to node), `items_` (priority buckets ordered by expiry), the log's contents | push (insert, replace, merge), pop, refresh, remove, count, snapshot_now, sweep of lapsed entries | two structures changed by hand; reactors with old clocks; unlogged sweeps; restarts |
| fqdb reactors | same file: `enqueue_`, `loop_`, destructor | futex word `pending_work_`, `stop_`, requests on the ring | call, wake, drain, sleep, stop | lost wake-ups |
| fqdb ring | same file: `Queue<T, CAP>` | slots with sequence numbers, `head_`, `tail_` | push, pop | lock-free, over-full, wrap-around |
| fqdb files | same file: `Wal`, snapshot and replay functions | `data.wal`, `data.wal.seg-<size>`, `data.snap`, log buffer, snapshot child | log, flush, roll, fork, snapshot, reap, collect, recover, stop | crash anywhere, failing calls, forked child |
| fqdb connections | `src/fqdb/src/main.cpp`: `ConnThread`, `accept_loop` | connections by descriptor, read phase, output buffer, eventfd | accept, read, serve, write, close | start-up order, close while in use |
| fqdb client | `src/fqdb/src/client.php` | persistent socket | rpc | lost and half-read replies |
| engine pool | `src/uds_pool_proxy_async/src/lib.rs` | backends, idle stack, `alive_count`, sessions | checkout, shuttle, checkin, reap, shutdown | tasks interleave between mutex sections; processes end at any time |
| chess API | `src/web/cdb.php` | scores in a Redis-like store, the two queues, memcached histories | query*, store, queue, getqueue, ackqueue, getsel, acksel | check-then-act, several stores changed in turn, leases |
| xiangqi API | `src/web/chessdb.php` | the same with left-right mirrors | the same | the same |
| workers | `src/workers/Client_*`, `Sel_*` | a file with the batch in work | fetch, evaluate, store, acknowledge | crash and resume, late acknowledgement |
| maintenance | `src/scripts` | the store, a dedup store | tree update with forks, import, dump | forks, long runs |
| chess board library | `src/extensions/cboard`: `chess.hpp`, `cboard.cpp` | a position with its key and history | read, generate, make, unmake, sanitize, encode, mirror, name moves | incremental state, special moves, Fischer random, texts read back |
| xiangqi board library | `src/extensions/ccboard`: `xiangqi.cpp`, `xiangqi.h`, `ccboard.cpp` | a position with its key and stack | the same, and the verdict on a repetition | two legality tests, kept check flags, chases |
| endgame probe | `src/extensions/ccegtbprobe` | open tables, cached | probe | a cache shared by threads |
| pages | other files of `src/web` | none | show, proxy | none |

How they meet: the API calls fqdb through `client.php` over a Unix socket; a
connection thread of `main.cpp` parses the request and calls `push`, `pop` and
so on, which put a message on the ring and wait for a reactor's answer. Each
queue server has two queues: `QP` holds what is waiting (key: position; value:
moves; priority), `QNP` holds what was handed out (key: digest of the batch;
expiry: time of the hand-out), and `refresh` there hands a batch out again when an
hour has passed without an acknowledgement. Engines for the API run behind the
pool proxy.

What makes each component correct: the store must keep its two structures and
the log in agreement and lose nothing that nobody took; the reactors must serve
every request exactly once; the ring must deliver in order and exactly once; the
files must give back what the process had, up to the latest changes; the pool
must keep its counts, lose no backend and reuse only clean ones; the API must
lose no task between the queues, and no better score to a worse one; a board must
have the moves of the rules and no other, its kept state must be what its pieces
say, and a position or move must come back from every text and key as it was.

## Modules

**FlexStore** is the store. One action per operation as `loop_` runs it under
`rw_`: `PushNew`, `PushUpdate` and `PushRefused` are the three outcomes of
KIND_PUSH (found or not, `upsert` or not), `Pop` includes the sweep that precedes
it, `Refresh`, `Remove`, `Snapshot`, and `Tail` the block after the drained ring.
`RefreshRequest` is the command: `main.cpp` refuses it for the queue with
priorities (`RefreshRefused`), so `store_priority` sees the refusal and
`store_lease` the refresh.
`Wake` reads the clock into `now_sec`, which the whole round then uses; `Tick`
moves the clock. `Restart` loads the files. `key_map` and `items` are the two
structures, `logged` is what replay would give: operations change all three
separately, as the code does. A value is its set of comma separated tokens. The
template instances QP and QNP are constants. Count changes nothing and is left
out; so is the equal-expiry order (by address), which `FirstOf` leaves open.

**Reactor** is the hand-over: `Reserve`, `Publish`, `Mark`, `WakeOne`, `Return`
are a client in `enqueue_` and `fut.get()`; `TakeWork`, `GoToSleep`, `Exit`,
`FutexWait`, `Take`, `Answer`, `FoundEmpty` a reactor in `loop_`; `SetStop`,
`WakeAll`, `Join` the destructor. Every section under `fx_mu_` is one action, and
so is every futex call. `Interrupted` is a futex wait that returns early.

**RingQueue** has one action per atomic access of `Queue::push` and `Queue::pop`.
**Mailbox** is its abstract specification: places are reserved in order, published
later, taken in order, and found empty only if the first is not published. In
`RingQueue` the instance `Abstract` maps the slots between `head_` and `tail_` to
the places; a message is shown at its place from the reservation on.
`Reactor` uses the ring in the form Mailbox gives it.

**Durability** is the files: `Write` logs through the buffer (a flush may be cut
short), `Sync`, `Spawn` (roll and fork, or the fork fails), `SpawnUnrollable` (the
snapshot in place), `ChildWrites`, `ChildKilled`, `Reap`, `Gc` (one unlink at a
time), `Stop` and the steps it leaves in `todo`, `StartAgain`, `Crash`,
`OrphanWrites`. Recovery is the operator `Rebuilt`: snapshot and segments by the size
in their names (`Replayed`), then the log, each up to its first unreadable record; of
the records of a key the last one decides (`Applied`). A record sets or
deletes one key; the entries of a pop are logged in one record in the code and as
several here, which only adds crash points. Rolling is `Rolled` (the
log is renamed, over a segment of its size if there is one, or the rename fails and
opening truncates it), `RollFailed` (the new log cannot be opened, and the rename back
succeeds or fails) and `NoLogToRoll`. **DurableMap** is the abstract
specification: a map, the part of it that is kept, and the changes between.

**EnginePool** is the proxy: one action per section under the mutex (checkout of
an idle backend; of none; registration of a new one; its claim; checkin; the
reaper), and the process and client events between them.

**WorkLease** is the way of a task: a user's `store` queues it (`Ask`), a worker's
`getqueue` takes a batch that has been out too long (`GetLease`, a refresh) or pops
positions (`GetPop`), drops what was handed out within five minutes (`GetFilter`, one
`add` to `QueueHistory2` in memcached for each task, in any order), files the batch under its digest (`GetPush`) and
answers; the worker of `Client_Chess` keeps it in a file (`WriteFile`), stores a
score for each task (`Try`, or `Skip` when the engine gave none), acknowledges the
digest once (`Ack`, `AckVain`) and deletes the file (`DeleteFile`). A request may end
between any two of its calls (`GetCut`), a worker may be stopped anywhere, also half
way through writing its file (`Stop`), and does the whole file again when it is
started (`Start`). The leases are an instance of FlexStore as `QNP`, with batches for
keys and values: every call to that queue is an operation of the store, with its
reactor's clock, its index and its log, and the server may be started again. The
queue of waiting positions is a set. A position and its move are one task, and the
merging of moves under one position is FlexStore's. Client_Xiangqi, the Sel workers
and `getsel`/`acksel` have the same loop and the same calls.

The chess library, each module extending the one before it. **ChessBoard**: squares,
attacks, the position. **ChessMovegen**: `movegen` with its masks of checks, pins and
attacked squares. **ChessPlay**: reading a FEN, `makeMove` and `unmakeMove`, the
Zobrist key as the set of what it stands for (exclusive or is the symmetric
difference), repetitions, `givesCheck`, the ends of a game. **ChessSanitizer**:
`sanitize_xfen`, which decides what enters the database and in which form.
**ChessCodec**: the hexadecimal key, the mirror in the other colour, the 24 bytes of
`Compact`. **ChessNotation**: UCI and SAN. **ChessGame** composes them: moves, null
moves, taking back, and reloading through the sanitizer as every request does.

The xiangqi library likewise: **XiangqiBoard**, **XiangqiMoves** (generation and the
two legality tests: one for a side in check that looks at the whole board, one for a
side that is not that looks only at the lines a move touches), **XiangqiPlay** (making,
undoing, the kept key and check flag), **XiangqiRules** (`rep_check`: perpetual check,
the chase of a piece that moves, the chase of one that stands still),
**XiangqiCodec** (FEN, key, three mirrors, moves) and **XiangqiGame**.

In both, attacks are functions of the occupied squares where the code looks them up
in magic tables, and a text is a sequence of symbols.

**MCFlexStore** gives FlexStore its symmetry; **MCChess** and **MCXiangqi** give the
positions the games start from. **FlexStoreProofs**, **ReactorProofs**,
**RingQueueProofs**, **DurabilityProofs**, **EnginePoolProofs**, **WorkLeaseProofs** and
**XiangqiProofs** hold the theorems about the module they are named after, and
**ChessProofs** those about the chess library, from its squares to ChessGame.

Operators marked "Mutation" or "Mutant" are not part of the models. Each is a definition as a
plausible mistake would have it; put in the place of the definition that follows
it, it makes TLC find the property violated that PROJECT.json names with it.

## Runs

| Run | Shows | Bounds |
|---|---|---|
| `store_priority` | QP: index and key map agree, log and contents differ in lapsed entries only, nothing lost or forgotten | 2 keys, 2 moves, priorities 0 and 1, 2 reactors, times 0..2: two reactors, one waking before and one after an entry lapses, and one entry on each side of the threshold |
| `store_lease` | QNP at work: its index and log agree, no task is lost, a lease ends with its tasks tried, with one steady worker every task is tried | 2 tasks, 2 workers, 1 reactor, times 0..2 with leases of 2 and a history of 1, 3 questions, 1 mishap: a task asked for again while it is out within the history and after it, a batch of two and its part out at once, a lease that ends and is handed out again |
| `reactor` | no request lost, served twice or slept over; every call returns | 3 clients, 2 reactors: one request at the head unpublished, one behind it, one on the way |
| `shutdown` | the destructor may wait for ever (violation) | 1 client, 2 reactors |
| `ring` | the ring implements the mailbox; slots have one owner; every push lands | 2 slots, 2 producers with 2 messages each, 2 consumers: the ring is over-full and wraps twice |
| `durable` | log, snapshots, stop, crash and recovery implement the durable map until a mishap | 2 keys, 1 value and deletion, buffer of 1 record, at most 3 records in buffer and log together and in a segment: two versions of a key on both sides of a roll |
| `segment_names` | a second roll may drop or misorder what was kept (violation) | as `durable`, at most one kind of mishap |
| `failed_snapshot` | an unwritten snapshot is taken for committed (violation) | as `durable`, at most one kind of mishap |
| `engine_pool` | counts right, no backend stranded, surplus closed, clean hand-over | 3 clients, pool of 1, 3 backends started: two surplus backends beside the pool's own |
| `checkout` | a new backend may be gone before it is claimed (violation) | as `engine_pool` |
| `chess` | legal moves are those of the rules, key, repetition and check prediction exact, moves taken back, positions survive the sanitizer, codes and notations read back | 11 positions, 1 to 8 plies: castling of both sides, free and with its squares occupied, en passant with a pin along the diagonal and the rank, promotions, double check, crowded notation, three in Fischer random, and one locked but for two pieces that go to and fro for eight plies, with passes between: the first position returns twice |
| `xiangqi` | both legality tests give the moves of the rules, check flag and key exact, moves taken back, verdicts earned, and they and the chase flag the same in every mirror, codes read back | the opening, three positions of lines, legs, screens and facing kings (2 plies), eleven with the moves of a cycle (6 plies): checking, chasing by rook, cannon and knight, with and without protection, one piece that stands still or two at once with one or both of them caught, waiting |

Larger instances tried once, without other results: `engine_pool` with 4 backends
(7.5 million states); `store_lease` with times 0..3, 2 questions and 2 mishaps (1.15
million); random long games from all xiangqi starts and a family of chase cycles (28
thousand states).

In `chess` and `xiangqi` the reference is written from the rules of the game, beside
the properties: pseudo-legal moves that do not leave the king attacked, made on the
board and looked at, where the code works with masks. `Survives` leaves one thing
out, by name: the castling right of a rook with another rook between it and the king
(`Hidden`). `RepetitionExact` has two halves. What `isRepetition` reports, for the
counts 1 and 2, has occurred, passes or not. That it reports all that has occurred is
said of games without passes, and only while `hfm_`, one byte, has not gone round since
the last irreversible move (`WentRound`): after 256 reversible plies in a row it starts
again at 0 and `isRepetition` no longer looks at the positions before. No run
is that deep; `RepetitionsAlwaysKnown` proves the claim with the byte in it.
`CodecsExact` says of `Compact` what is lost as well as what is kept: see Findings. In `xiangqi`, what a
verdict needs (`VerdictJust`) is weaker than the code's own notion of a chase: the
banned side threatened, with every move, to win one piece, a rook by a lesser one or
one that nobody can take back. Where the code takes the lowest square of several
(xiangqi.cpp:2915-2923), the starts with two standing pieces show that any of them will
do; the choice tells only when both sides catch and one of several targets is a rook that
a knight pins, which no start has. Of two cannons on the king's line, one on
each side (3164, 3204), one would be giving check before the capture; no start has
that either. A start with `only` moves plays no others.

In `store_lease`, `spoiled` names the tasks a mishap may have cost, as the code has
it: those of a request cut between pop and push, and those the engine gave no score
for, which the worker leaves out and acknowledges nevertheless.

In `durable` the constraint `Logless` ends a behaviour at its first mishap, unless that
is a log that could not be opened; a process without a log goes on, is rolled, stopped
and started again, with `TypeOK` checked throughout.
`spoiled` names the mishaps: events the code does not notice and after which its
files need not be right (an unlogged time, a flush cut short or a record appended
after one, a snapshot that failed, a child whose fate the destructor ignores, a
segment left over at a roll or lost by one, a rename of the log that fails, a second
process writing the snapshot). `Durable` is
what holds without them. The two violation runs admit one of them each, those
about which the source says that it is safe.

The symmetry set of `store_priority` is sound: the run has no liveness
property and no definition chooses among the keys, moves or reactors. Deadlock
is checked except in `reactor` and `shutdown`, where the program ends, in
`store_lease`, where nothing is left to do when time, questions and mishaps are spent,
and in `chess` and `xiangqi`, where games end.

### Fairness

`Reactor!FairSpec`: weak fairness of every client inside its call, of every
reactor, and of the destructor once it has begun: threads of the operating
system that can run do run. No fairness makes a client call, a wait return
early, or the destructor begin. `RingQueue!Spec`: weak fairness of a producer
inside push and of every consumer; consumers do keep popping, since the reactors
and the connection threads are woken after each push (the `reactor` run shows it
for the reactors). `WorkLease!Spec`: weak fairness of the steady
worker's requests and work (its loop runs until it is closed, and catches every
exception), of a request any worker has begun unless it is cut (PHP finishes it),
of the server's rounds (what `EveryCallReturns` shows of Reactor) and of time. No
fairness makes the other worker start again or a user ask. `EveryTaskTried` lets go of
a task whose lease outlives the time of the model, unless the steady worker holds
it. The other modules have safety properties only.

## Proofs

Every theorem is for every value of the constants that the named assumptions admit:
any sets of keys, values, threads, tasks and clients, finite or not, any sizes and
bounds. The assumptions say what kind of value a constant is, that the sign for
nothing (`Absent`, `Torn`) is no datum, that the ring has two slots or more, that a
history is no longer than a lease, that the games of xiangqi start from positions and are
given moves from square to square, and
that those of chess start from FENs with an en passant square a push explains
(`StartsExplained`, see below). TLC evaluates them in the runs.
Each `...Proofs` module has an inductive `IInv`; the theorems follow from it.

`FlexStoreProofs`. `IInv` is the types, `IndexConsistent`, `NowBehind` (a
reactor's clock is never ahead of the clock) and `ReplayAgrees`. `NowBehind` is what
makes `ReplayAgrees` inductive: an entry that a reactor with an old clock sweeps without
logging has lapsed for every later clock, so the difference between log and contents
stays a lapsed one. From it follow `TypeCorrect`, `IndexAlwaysConsistent`,
`ReplayAlwaysAgrees`, and the action properties `LossAlwaysAccounted` and
`NothingEverForgotten`, each by one case per action.

`ReactorProofs`. `AlwaysOnePlace` rests on the types and the bookkeeping
of the three places of a request (ring, reactor, answered), which is inductive by
itself. `NeverSleepingWork` needs more, for neither its premise nor its conclusion
names the mark on which sleeping depends. `IInv` adds `WorkNoticed` (a
published head is marked, or being drained, or its client is still before the
mark), `MarkSeen` (a set mark has a reactor that is awake or a client about to wake
one), `ServingOnly` (only a reactor that serves holds a request) and `StopQuiet`
(reactors exit only after `stop_`, and by then no client is in a call). Together
they exclude a marked queue over which all reactors sleep, in any order of the
steps of the clients.

`RingQueueProofs`. `SlotOwned` looks at two threads and one slot, but what keeps them
apart is where every sequence number stands between the rounds. `IInv` says it for
every position there can be: a push has a position of its own between `head_` and
`tail_` whose slot has not gone past it (`PushesPlaced`); a position between them that
no push has is published (`RestPublished`); behind `head_` a slot is released for the
next round unless a pop is about to release it (`PassedReleased`); no slot is ahead
(`NotAhead`); and the claimed positions are distinct (`PopsPlaced`). The arithmetic is
in one lemma: two positions of one slot are a round apart (`RoundApart`).
`PromiseKept` is the refinement, `Spec => KeepsPromise`: by `IInv` the positions from
`head_` to `tail_` are a sequence of places, and each atomic access is a step of
Mailbox on it or leaves it alone: reservation, publishing, the claim that takes, the
probe that finds nothing.

`EnginePoolProofs`. The counts and the clean hand-over cannot be had one by one: a
checkin that puts pipes back relies on the pipes being nowhere else (`PipesOnce`),
a checkout on the idle queue holding backends with pipes, and every live one of those
(`IdleSound`), `NoneStranded` on every working backend without pipes having a
client (`WorkersPlaced`), and `SizeKept` on how many there are that nobody holds
(`RestFits`, by cardinalities). `HandsOverClean` adds that a backend that may be unclean
is out of the pool and only a session that saw the marker puts one back (`UncleanOut`).

`WorkLeaseProofs`. What the queue of leases does is taken from `FlexStoreProofs`,
instantiated with batches for keys: nothing lapses by itself there, so index and log
are exactly those of the contents (`StoreKeeps`). `NothingLost` alone is not inductive:
`getqueue` drops a task it remembers handing out, and only `RememberedOut` says that
such a task is leased, about to be, tried or spoiled. `LeaveTried` needs what a
worker's file says of its batch (`JobsKeep`: what is no longer left has been tried),
through restarts with part of a file.

`DurabilityProofs`. `ImplementsMap` is the refinement `Spec => Durable`, the abstract
specification's initial state and one step of it for every step. `IInv` has the
types, the plans (`Planned`: what a stop or a thread has left to do is one of a few
sequences, with a roll behind it the buffer is empty and no child runs, and without a
log nothing is buffered) and, for
as long as no mishap has happened, `Sound`: the files and the buffer give the contents
(`LiveKept`), at most one segment is there, a running child writes what snapshot and
segments give (`ChildSound`), and so does one that outlived its parent (`OrphanSound`),
and segments are unlinked only when the snapshot and the log do without them (`GcSound`).
The lemmas say what replaying does: one sequence of records after another, a record
replayed twice, a prefix of the log.

`XiangqiProofs`. `IInv` is a chain: each entry of the stack was made in a position
that can arise (`Proper`: one king each in its palace, every piece where it may stand,
pawns of one side not behind one another on their own half, and the side that has just
moved is safe), by a move of `gen_legals`, with the key of that position and the flag of
`gives_check`, and leads to the position the next entry was made in, the last one to the
present position. That every step keeps the chain needs facts about all positions:

- `MovesTakenBack`: `NextKey` (what `move_do` toggles is the difference of the two keys;
  a piece taken is never the piece that takes, or the key would lose it) and
  `PositionBack`. `KeyAlwaysExact` is the other half.
- `MovesAlwaysExact`: `gen_legals` never makes a move to test it. A side in check is
  tested by looking again from the king, any other by the pins and cannon screens that
  the move touches. Lemmas on rays say what a rook and a cannon see (none, or one, in
  between), others which squares a leap reaches and which leg blocks it; `Aims` says in
  these words that a piece attacks a square and `Exposed` that a king is attacked or
  faces the other. `CheckedTest`, `KingTest` and `PieceTest` show that each test is
  `Exposed` after the move, `TestsExact` puts them together. `KingSpared` (no king can be
  taken) and `NextProper` (the position after is again one that can arise;
  `PawnsStayApart` is its hard part) make it inductive.
- `ChecksAlwaysKept`: `GivesCheckIs`. Before the move the other king was not attacked
  (that is `Proper`), so a piece that attacks it afterwards is the one that moved or was
  opened by it (`Opened`: line, cannon screen or knight's leg); for a king that moves,
  only a cannon behind it on the file is left.
- `RecurrenceAlwaysKnown`: `rep_check`, which compares the kept keys only, finds the
  earlier occurrences of the position and no others (`KeyTells`: a position is known by
  its key, keys being sets here, so that two do not collide), and `OnlyRepetitionsJudged`
  that nobody is judged unless the position has occurred before with nothing captured
  since.
- `PerpetualChecksJudged` is the converse and the verdict on checks. The guard that
  skips short histories loses nothing, for no position returns after two plies
  (`NoQuickReturn`), and the occurrence judged by is the last (`GreatestIn`).

That a verdict for *chasing* is earned (the last case of `VerdictJust`) and impartial
stays with TLC: chases are walked back piece by piece over boards that are no positions
of the game, and the proof would be of that walk.

`ChessProofs`. `Sound` is the inductive invariant of a position, `Played` that of a
game. `Sound` has, beside the types and one king each (`OneKing`):

- `Calm`: the side that has just moved is not in check. That needs the legality of every
  move, hence all the rest.
- `FewChecks`: the side to move is in check from at most one knight or pawn, from at
  most one piece along a diagonal, and not from both together with one along a rank or
  file. The check mask counts a second piece on ranks and files only (a promotion can
  give two such checks); elsewhere it takes the least of the pieces (`lsb`) and would be
  wrong for two.
- `EpHeld` and `EpQuiet`: a pawn stands in front of the en passant square, which and the
  square behind it are empty, and a bishop or queen that would see the king without that
  pawn sees it already. `movegen` leaves the en passant pawn out of its pin masks
  and looks along the rank only; the capture would expose the king on a diagonal
  otherwise.
- `RightsHeld`: king and rook of a right stand on their squares, and `path` is what lies
  between. Without it castling would put a piece on another.
- `PawnsInside`: no pawn on the first or last rank, or pushes leave the board.

`MoveSound` shows it kept by every legal move, `BegunSound` given by a start, and
`FenOfSound` that a position which is written and read back is again such a start. The
geometry is in lemmas about lines on the board: what a slider sees with some
squares freed and others filled (`AmidTrans`, `SameLine`, `AsideOfKing`). Few of them
look at squares one by one.

`KingNeverLeft` follows from `LegalSafe` (no move with these masks leaves the king
attacked), and `MovesAlwaysExact` from the other half as well. `RulesExact` says that
the generated moves are those of the rules for every `Sound` position: every generated
move is one of `Pseudo` (`PseudoIs`), and of a safe move of the rules the king's target is
unseen, a check is met (`MetBy` counts right, `CountIs`), a pinned piece stays on its line
(`PinnedBy`), en passant bares nobody, and a castling that is safe square by square
meets the masks, and conversely (`CastlesMay`, `MayCastles`), in Fischer random
too, where king and rook may pass each other.

`KeyAlwaysExact` and `MovesTakenBack` use `Played`: the key is that of the position,
and each entry of the stack was made in a sound position and leads to the position
of the next. `KeyMade` compares the toggles with the difference of the keys, which
needs that what is removed is there and what is placed is not; `MoveBack` is
the inverse of a move, castling onto each other's squares and taking by promotion among
its cases.

`ChecksAlwaysForetold`: since the opponent is not in check before the move (`Calm`), a
check after it is new. The piece that moved gives it, or a slider that saw the king but
for the square left, which is what `Behind` finds. A promotion
cannot open a line to itself, for the last rank is an end of every line (`EdgeEnds`); the
pawn taken en passant opens a line besides, but not one that the capturing pawn already
closes or opens (`TakenAside`); and of a castling pair only the rook can give check
(`RookChecks`), along the file it comes to or the home rank, where the cases are told
apart by the files of king and rook.

`RepetitionsAlwaysKnown` needs more than `Played`: the clock of each entry, a byte, tells
how many plies ago something irreversible happened, unless it has gone round since
(`Aged`; together `Lived`). That nothing
recurs over an irreversible move is a measure: the number of men, and of pawns no further
than a given rank, never grows (`AtMost`), and a capture or a pawn move makes one of them
less (`Worn`), while castling keeps them. So of two entries of one game, the later follows
the earlier (`Follows`: the same turn every other ply, rights only lost, the clock no
less than the distance unless worn), which is shown for any distance by a least
counterexample (`GameFollows`); and two of them with one key are one position (`SameKey`).

`StartsExplained` is the one assumption that looks narrower than the code: the
sanitizer accepts a FEN whose en passant square no push explains (see Findings), and the
theorems are false for games that start there. It says what a push says of the
square: it was empty before, and a check was not given by a piece that the
pawn had uncovered. Every position that was played has it, which `FenOfSound` proves.

Only model-checked: the liveness properties (`EveryCallReturns`, `EveryPushLands`,
`EveryTaskTried`) and the four runs that find a violation (liveness and ENABLED are out
of the prover's reach, and a violation needs a behaviour, not a proof); in `chess`
`Survives`, `CodecsExact` and `NotationExact`;
in `xiangqi` what a verdict for chasing needs (`VerdictJust`), `VerdictImpartial` and
the encodings (`CodecsExact`). Encodings and notations are texts of data, where the
cases are many and the argument is none.

## Findings

Four disagreements between what the source says and what it does, each shown by
its violation run (PROJECT.json has the lines): the destructor's wake-up that
comes too early for a reactor about to sleep; segments named after their size;
snapshots that fail without notice; a checkout that unwraps pipes another session
may have taken.

Two more have no run of their own. The first is shown by `CodecsExact`, which would not
hold without its exception. `Compact::decode` (chess.hpp:2734-2827), "Creates a Board
object from a PackedBoard" (chess.hpp:2595), restores the castling rights but never sets
`castling_path`, which `setFenInternal` fills (3073-3087) and the generator reads (3739).
A decoded board therefore castles over and onto pieces: beside all legal moves it
generates those castlings whose squares are occupied, against "Generates all legal moves
for a position." (chess.hpp:1440). The start `Blocked` has them. Nothing else in the
repository uses `Compact`, so no stored position is touched.

The second was met in a proof; the runs start from FENs that a push explains.
`sanitize_xfen` (cboard.cpp:409-433) accepts an en passant square that no push explains.
It may be occupied, and the capture then takes two pieces of which `unmakeMove` brings
back one. And when the pushed pawn gives check, cboard.cpp:425 does not ask whether the
position before the push was possible, so a bishop may stand hidden behind the pawn on
the king's diagonal: in `7k/1b6/8/3pP3/4K3/8/8/8 w - d6` the generated `exd6` leaves the
king in check, against "Generates all legal moves for a position." (chess.hpp:1440).

## Not modelled

Connection threads, the PHP client, scores and queries of the web API, the endgame
probe and the maintenance scripts are planned, see below. Left out for good:
statistics pages and proxies (no state), browser code, vendored libraries (LZMA,
xxhash, ChessDotNet), the Discover workers (clients of the public API). In the modules
that exist: memory ownership of keys and values, I/O errors on reading, the
power-failure semantics of `fsync` (crashes are those of the process), the
wrap-around of 64-bit positions, spurious failures of the weak compare-and-swap, the
proxy's byte shuttling and shutdown; of the board libraries PGN reading, printing,
magic tables, history lists, the fixed buffer that `cbfen2hexfen` writes to
(cboard.cpp:734; a FEN is as long as the board makes it here), and collisions of 64-bit keys; of the leases the
statistics counters, the tokens, the dialogue with the engine and collisions of
digests.

What a lease does not promise is not stated: after an hour the same batch is with two
workers, and a batch whose position was asked for again five minutes after the first
is out twice under two digests. Both only cost work.

## Plan

1. **ScoreStore** - store, query and tree update on one hash per position, with the
   separate reads and writes; ply updates; **LoopSearch** - the depth-first search with
   its loop table as functions against a reference definition.
2. **ConnThread** - framing, replies in order, close paths, eventfd start-up; composed
   with the answers of Reactor. **PoolSession** for `client.php`: a reply belongs
   to the request it follows.
3. **ProxySession** - the byte shuttling of `handle_client`: marker cut by reads,
   full pipes in both directions; EnginePool's shutdown.
4. **SnapshotTimer** - when a snapshot is due, with 64-bit subtraction and clocks of
   several reactors. **TreeUpdate** - forks, waits and the dedup store of `updatec.php`.
   **EndgameProbe** - the cache of tables with its lock and condition.
5. More theorems: in xiangqi what a verdict for chasing needs; in chess that a saved
   FEN survives.
