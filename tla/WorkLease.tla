------------------------------ MODULE WorkLease ------------------------------
(***************************************************************************)
(* Work for the engines: users ask for moves, getqueue hands them out in     *)
(* batches, workers try them and acknowledge the batch (src/web/cdb.php and  *)
(* chessdb.php, src/workers/Client_Chess and Client_Xiangqi).              *)
(*                                                                         *)
(* A batch that is out stays in the queue without priorities (Leases, the   *)
(* store of FlexStore) under its digest until it is acknowledged; getqueue   *)
(* hands one out again when it is LeaseTime old.  memcached remembers for    *)
(* HistoryTime what was handed out, and getqueue drops what it remembers.   *)
(*                                                                         *)
(* A task is a move in a position; a batch, its text and its digest are the  *)
(* set of its tasks.  The queue of positions is the set of its tasks that     *)
(* do not lapse (those asked for with a priority).  Every call of a          *)
(* request to a queue or to memcached is a step, and requests may be cut     *)
(* between them; a worker may be stopped anywhere, its file stays.          *)
(*                                                                         *)
(* Bounds: MaxTime on the clock, MaxAsks on what users ask, MaxMishaps on    *)
(* what goes wrong.                                                         *)
(***************************************************************************)
EXTENDS Integers, FiniteSets

CONSTANTS
  Task, Worker, Reactor, Absent,
  Steady,        \* a worker that is never stopped
  PopSize,       \* the tasks one pop takes
  LeaseTime, HistoryTime,
  MaxTime, MaxAsks, MaxMishaps

ASSUME TimesAssumption == {LeaseTime, HistoryTime} \subseteq Nat \ {0} /\ HistoryTime <= LeaseTime
ASSUME SteadyAssumption == Steady \in Worker

Batch == (SUBSET Task) \ {{}}

VARIABLES
  key_map, items, clock, now_sec, loop, logged, reply,   \* the store of the leases
  queued,      \* tasks in the queue of positions
  remembered,  \* when memcached last took a task up, or Absent
  job,         \* what each worker, or the request it makes, is doing
  scored,      \* tasks with a score in the database
  tried,       \* tasks a worker has been through
  owed,        \* tasks asked for and not tried since
  spoiled,     \* tasks a mishap may have cost
  asks, mishaps

store == <<key_map, items, clock, now_sec, loop, logged, reply>>
ghosts == <<tried, owed, spoiled, asks, mishaps>>
vars == <<store, queued, remembered, job, scored, ghosts>>

Leases == INSTANCE FlexStore WITH
  Key <- Batch, Move <- Task, Pri <- {0}, WithPriority <- FALSE,
  AutoExpiryThreshold <- -1, PushModes <- {"replace"}, MaxBatch <- 1

\* What the store assumes, as far as it depends on the constants here.
ASSUME StoreAssumption == MaxTime \in Nat /\ Absent \notin Leases!Node

Lease(expiry, batch) == [priority |-> 0, expiry |-> expiry, value |-> batch]

-----------------------------------------------------------------------------
(* The stages of a job: idle; popping, filtering and pushing in getqueue;     *)
(* answered, working, acked and stopped in the worker.  file says whether     *)
(* the worker has written its file, whole whether the digest of the file is   *)
(* that of batch, resuming whether it found the file when it was started.    *)

Idle == [at |-> "idle", batch |-> {}, left |-> {}, file |-> FALSE, whole |-> TRUE, resuming |-> FALSE]
Stage(w, at) == job[w].at = at
Goes(w, to) == job' = [job EXCEPT ![w] = to]
Asking(at, batch) == [Idle EXCEPT !.at = at, !.batch = batch]

Mishap == mishaps < MaxMishaps /\ mishaps' = mishaps + 1

\* A store outside of the leases, and everything but the leases and the jobs.
StoreKept == UNCHANGED store
OthersKept == UNCHANGED <<queued, remembered, scored, ghosts>>

\* The server is awake, with nothing out.
Init ==
  /\ key_map = [batch \in Batch |-> Absent] /\ logged = key_map /\ items = {}
  /\ clock = 0 /\ now_sec = [r \in Reactor |-> 0]
  /\ loop = [r \in Reactor |-> "idle"] /\ reply = Leases!Reply("none", {})
  /\ queued = {} /\ scored = {}
  /\ remembered = [t \in Task |-> Absent]
  /\ job = [w \in Worker |-> Idle]
  /\ tried = {} /\ owed = {} /\ spoiled = {} /\ asks = 0 /\ mishaps = 0

\* action store with a move that has no score: the task is queued.
Ask(t) ==
  /\ asks < MaxAsks /\ t \notin scored
  /\ queued' = queued \cup {t} /\ owed' = owed \cup {t} /\ asks' = asks + 1
  /\ StoreKept /\ UNCHANGED <<remembered, job, scored, tried, spoiled, mishaps>>

-----------------------------------------------------------------------------
(* getqueue *)

\* Mutant: a lease must be older than LeaseTime.
GetLeaseLater(w, r) ==
  /\ Stage(w, "idle")
  /\ Leases!Refresh(r, clock - LeaseTime - 1, clock, 1)
  /\ Goes(w, IF reply'.keys = {} THEN Asking("popping", {})
             ELSE Asking("answered", CHOOSE batch \in reply'.keys : TRUE))
  /\ OthersKept

\* The oldest batch out for LeaseTime is handed out again.
GetLease(w, r) ==
  /\ Stage(w, "idle")
  /\ Leases!Refresh(r, clock - LeaseTime, clock, 1)
  /\ Goes(w, IF reply'.keys = {} THEN Asking("popping", {})
             ELSE Asking("answered", CHOOSE batch \in reply'.keys : TRUE))
  /\ OthersKept

\* left: what memcached was not yet asked about.
Filtering(batch, left) == [Asking("filtering", batch) EXCEPT !.left = left]

GetPop(w) ==
  /\ Stage(w, "popping")
  /\ \E batch \in SUBSET queued :
       /\ Cardinality(batch) = (IF Cardinality(queued) < PopSize THEN Cardinality(queued) ELSE PopSize)
       /\ queued' = queued \ batch
       /\ Goes(w, IF batch = {} THEN Idle ELSE Filtering(batch, batch))
  /\ StoreKept /\ UNCHANGED <<remembered, scored, ghosts>>

Fresh(t) == remembered[t] = Absent \/ clock - remembered[t] >= HistoryTime

\* The filter is through with t: batch is what goes on, left what is yet to do.
Filtered(w, batch, left) ==
  Goes(w, CASE left # {} -> Filtering(batch, left)
            [] left = {} /\ batch # {} -> Asking("pushing", batch)
            [] left = {} /\ batch = {} -> Idle)

\* Mutant: one task that is remembered takes the others of the batch along.
GetFilterWhole(w, t) ==
  /\ Stage(w, "filtering") /\ t \in job[w].left
  /\ IF Fresh(t)
     THEN /\ remembered' = [remembered EXCEPT ![t] = clock]
          /\ Filtered(w, job[w].batch, job[w].left \ {t})
     ELSE /\ Filtered(w, {}, {})
          /\ UNCHANGED remembered
  /\ StoreKept /\ UNCHANGED <<queued, scored, ghosts>>

\* One add to memcached: what it remembers is dropped, the rest is remembered.
GetFilter(w, t) ==
  /\ Stage(w, "filtering") /\ t \in job[w].left
  /\ IF Fresh(t)
     THEN /\ remembered' = [remembered EXCEPT ![t] = clock]
          /\ Filtered(w, job[w].batch, job[w].left \ {t})
     ELSE /\ Filtered(w, job[w].batch \ {t}, job[w].left \ {t})
          /\ UNCHANGED remembered
  /\ StoreKept /\ UNCHANGED <<queued, scored, ghosts>>

GetPush(w, r) ==
  /\ Stage(w, "pushing")
  /\ LET batch == job[w].batch
         lease == Lease(clock, batch)
     IN /\ Leases!PushNew(r, "replace", batch, lease) \/ Leases!PushUpdate(r, "replace", batch, lease)
        /\ Goes(w, Asking("answered", batch))
        /\ spoiled' = spoiled \ (batch \ (tried \ scored))
  /\ UNCHANGED <<queued, remembered, scored, tried, owed, asks, mishaps>>

\* The request ends between two calls, or the answer is lost.
GetCut(w) ==
  /\ job[w].at \in {"popping", "filtering", "pushing", "answered"}
  /\ Mishap
  /\ spoiled' = IF Stage(w, "answered") THEN spoiled ELSE spoiled \cup job[w].batch
  /\ Goes(w, Idle)
  /\ StoreKept /\ UNCHANGED <<queued, remembered, scored, tried, owed, asks>>

-----------------------------------------------------------------------------
(* The worker *)

Working(batch, whole, resuming) ==
  [at |-> "working", batch |-> batch, left |-> batch, file |-> TRUE, whole |-> whole, resuming |-> resuming]

WriteFile(w) ==
  /\ Stage(w, "answered")
  /\ Goes(w, Working(job[w].batch, TRUE, FALSE))
  /\ StoreKept /\ OthersKept

\* The engine has a score and the worker stores it.
Try(w, t) ==
  /\ Stage(w, "working") /\ t \in job[w].left
  /\ Goes(w, [job[w] EXCEPT !.left = @ \ {t}])
  /\ scored' = scored \cup {t} /\ tried' = tried \cup {t} /\ owed' = owed \ {t}
  /\ StoreKept /\ UNCHANGED <<queued, remembered, spoiled, asks, mishaps>>

\* The engine gives a best move without a score: the worker goes on.
Skip(w, t) ==
  /\ Stage(w, "working") /\ t \in job[w].left
  /\ Mishap
  /\ Goes(w, [job[w] EXCEPT !.left = @ \ {t}])
  /\ tried' = tried \cup {t} /\ owed' = owed \ {t} /\ spoiled' = spoiled \cup {t}
  /\ StoreKept /\ UNCHANGED <<queued, remembered, scored, asks>>

\* ackqueue, with the digest of the file.
Ack(w, r) ==
  /\ Stage(w, "working") /\ job[w].left = {} /\ job[w].whole
  /\ Leases!Remove(r, job[w].batch)
  /\ Goes(w, [job[w] EXCEPT !.at = "acked"])
  /\ OthersKept

\* Nobody knows the digest, or the request fails: the worker does not try again.
AckVain(w) ==
  /\ Stage(w, "working") /\ job[w].left = {}
  /\ IF job[w].whole THEN Mishap ELSE UNCHANGED mishaps
  /\ Goes(w, [job[w] EXCEPT !.at = "acked"])
  /\ StoreKept /\ UNCHANGED <<queued, remembered, scored, tried, owed, spoiled, asks>>

\* A worker that found its file ends (ExitAfterResume).
DeleteFile(w) ==
  /\ Stage(w, "acked")
  /\ Goes(w, IF job[w].resuming THEN [Idle EXCEPT !.at = "stopped"] ELSE Idle)
  /\ StoreKept /\ OthersKept

\* A stopped worker keeps its file, of which part may be written: the end of a
\* line, and then the text of a smaller batch, or not.
Stop(w) ==
  /\ w # Steady /\ job[w].at \in {"answered", "working", "acked"}
  /\ Mishap
  /\ \/ Goes(w, [job[w] EXCEPT !.at = "stopped", !.left = {}])
     \/ /\ Stage(w, "answered")
        /\ \E part \in SUBSET job[w].batch, whole \in BOOLEAN :
             /\ part # job[w].batch /\ (part = {} => ~whole)
             /\ Goes(w, [Idle EXCEPT !.at = "stopped", !.batch = part, !.file = TRUE, !.whole = whole])
  /\ StoreKept /\ UNCHANGED <<queued, remembered, scored, tried, owed, spoiled, asks>>

\* Mutant: a worker takes the file it finds for done.
StartDone(w) ==
  /\ Stage(w, "stopped")
  /\ Goes(w, IF job[w].file THEN [Working(job[w].batch, job[w].whole, TRUE) EXCEPT !.left = {}] ELSE Idle)
  /\ StoreKept /\ OthersKept

\* A worker that finds its file does all of it again.
Start(w) ==
  /\ Stage(w, "stopped")
  /\ Goes(w, IF job[w].file THEN Working(job[w].batch, job[w].whole, TRUE) ELSE Idle)
  /\ StoreKept /\ OthersKept

-----------------------------------------------------------------------------
(* The queue server *)

\* Its reactor serves any number of calls in a round.  Between rounds nothing
\* changes in this instance, where nothing lapses, so a round lasts here until
\* the server ends.
Serve(r) == Leases!Wake(r) /\ UNCHANGED job /\ OthersKept

\* It is started again, on its files.
RestartServer == Leases!Restart /\ Mishap
                 /\ UNCHANGED <<queued, remembered, job, scored, tried, owed, spoiled, asks>>

Tick == Leases!Tick /\ UNCHANGED job /\ OthersKept

-----------------------------------------------------------------------------

Get(w) == \E r \in Reactor : GetLease(w, r)
Request(w) ==
  GetPop(w) \/ (\E t \in Task : GetFilter(w, t)) \/ \E r \in Reactor : GetPush(w, r)
Work(w) ==
  \/ WriteFile(w) \/ DeleteFile(w) \/ AckVain(w)
  \/ \E t \in Task : Try(w, t) \/ Skip(w, t)
  \/ \E r \in Reactor : Ack(w, r)
Disturb(w) == GetCut(w) \/ Stop(w) \/ Start(w)

Next ==
  \/ \E t \in Task : Ask(t)
  \/ \E w \in Worker : Get(w) \/ Request(w) \/ Work(w) \/ Disturb(w)
  \/ \E r \in Reactor : Serve(r)
  \/ RestartServer \/ Tick

\* One worker goes on asking and working, a request that was begun goes on unless
\* it is cut, the server serves (EveryCallReturns of Reactor), and time passes.
Fairness ==
  /\ WF_vars(Get(Steady)) /\ WF_vars(Work(Steady))
  /\ \A w \in Worker : WF_vars(Request(w))
  /\ \A r \in Reactor : WF_vars(Serve(r))
  /\ WF_vars(Tick)

Spec == Init /\ [][Next]_vars /\ Fairness

-----------------------------------------------------------------------------
(* Properties *)

\* The store of the leases keeps its index, and its log, as it is used here.
LeasesSound == Leases!IndexConsistent /\ Leases!ReplayAgrees

Leased(t) == \E batch \in Batch : t \in batch /\ key_map[batch] # Absent
InRequest(t) == \E w \in Worker : t \in job[w].batch /\ job[w].at \in {"filtering", "pushing"}

\* A task that was asked for and not yet tried waits, is on its way out, or is
\* out on a lease that will end: what getqueue drops because it was handed out a
\* short while ago is out indeed.  Only a request cut between pop and push, or
\* an engine that gave no score, costs a task.
NothingLost == \A t \in owed : t \in queued \/ InRequest(t) \/ Leased(t) \/ t \in spoiled

\* A lease ends only by an acknowledgement, and then all its tasks were tried, by
\* whatever workers, files in parts and restarts of both.
LeaveTried ==
  [][\A batch \in Batch :
       key_map[batch] # Absent /\ key_map'[batch] = Absent =>
         reply' = Leases!Reply("remove", {batch}) /\ batch \subseteq tried]_vars

\* The time of the model ends before a lease without the steady worker does.
Beyond(t) ==
  /\ t \notin job[Steady].batch
  /\ \E batch \in Batch : t \in batch /\ key_map[batch] # Absent
                          /\ key_map[batch].expiry > MaxTime - LeaseTime

\* As long as one worker goes on, every task is tried: those that went out to a
\* worker that does not come back, too, once their lease is over.
EveryTaskTried ==
  \A t \in Task : t \in owed ~> (t \notin owed \/ t \in spoiled \/ Beyond(t))
=============================================================================
