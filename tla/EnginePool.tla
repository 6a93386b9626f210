----------------------------- MODULE EnginePool -----------------------------
(***************************************************************************)
(* The pool of engine processes behind uds_pool_proxy_async: struct Pool    *)
(* and handle_client in src/uds_pool_proxy_async/src/lib.rs.                *)
(*                                                                         *)
(* Every client connection is a task of its own.  It checks a backend out,  *)
(* shuttles bytes, and checks the backend in; a backend goes back to the    *)
(* pool only if its client sent the clean marker.  A reaper per backend     *)
(* marks it dead when its process ends.  One action is one section under    *)
(* the mutex of the pool: checkout of a new backend takes three, and other  *)
(* tasks run in between.  spawn_child runs under the mutex and touches      *)
(* nothing in the pool; it is part of the action that registers its child.  *)
(*                                                                         *)
(* Bound: MaxBackends backends are ever started.                            *)
(***************************************************************************)
EXTENDS Integers, FiniteSets, SequencesExt

CONSTANTS
  Session,      \* client connections at a time
  pool_size,    \* argument of the program
  MaxBackends   \* bound on the backends started

ASSUME SizeAssumption == pool_size \in Nat /\ MaxBackends \in Nat /\ pool_size <= MaxBackends

VARIABLES
  backs,        \* what the pool knows of each backend; piped: it has its pipes
  idle,         \* backends to hand out, the last one first
  alive_count,
  process,      \* the process of each backend: up, down, or waited for (reaped)
  at,           \* where the task of a session is
  using,        \* the backend it registered or holds the pipes of, or 0
  marked,       \* saw_clean_marker
  unclean       \* history: backends whose last client has not sent the marker

vars == <<backs, idle, alive_count, process, at, using, marked, unclean>>
poolVars == <<backs, idle, alive_count>>
sessionVars == <<at, using, marked>>

Backends == DOMAIN backs

NewBackend == [alive |-> TRUE, in_use |-> FALSE, piped |-> TRUE]

Usable(i) == backs[i].alive /\ ~backs[i].in_use /\ backs[i].piped

Known(i) == backs[i].alive

-----------------------------------------------------------------------------
Init ==
  /\ backs = [i \in 1..pool_size |-> NewBackend]
  /\ idle = [i \in 1..pool_size |-> i]
  /\ alive_count = pool_size
  /\ process = [i \in 1..pool_size |-> "up"]
  /\ at = [s \in Session |-> "away"]
  /\ using = [s \in Session |-> 0]
  /\ marked = [s \in Session |-> FALSE]
  /\ unclean = {}

\* The task of s is over; pipes it still holds are closed.
Ended(s) ==
  /\ at' = [at EXCEPT ![s] = "away"]
  /\ using' = [using EXCEPT ![s] = 0]
  /\ marked' = [marked EXCEPT ![s] = FALSE]

Serves(s, i) ==
  /\ at' = [at EXCEPT ![s] = "serving"]
  /\ using' = [using EXCEPT ![s] = i]
  /\ unclean' = unclean \cup {i}
  /\ UNCHANGED marked

(* checkout *)

\* The idle queue is popped until a usable backend turns up.
CheckoutIdle(s) ==
  /\ at[s] = "away"
  /\ \E n \in DOMAIN idle :
       /\ Usable(idle[n])
       /\ \A m \in DOMAIN idle : m > n => ~Usable(idle[m])
       /\ idle' = SubSeq(idle, 1, n - 1)
       /\ backs' = [backs EXCEPT ![idle[n]] = [@ EXCEPT !.in_use = TRUE, !.piped = FALSE]]
       /\ Serves(s, idle[n])
  /\ UNCHANGED <<alive_count, process>>

CheckoutNone(s) ==
  /\ at[s] = "away"
  /\ \A n \in DOMAIN idle : ~Usable(idle[n])
  /\ idle' = <<>>
  /\ at' = [at EXCEPT ![s] = "spawning"]
  /\ UNCHANGED <<backs, alive_count, process, using, marked, unclean>>

\* spawn_backend: the new backend is put into the idle queue, where every task
\* finds it.  Its process may have ended already.
Register(s) ==
  /\ at[s] = "spawning" /\ Len(backs) < MaxBackends
  /\ backs' = Append(backs, NewBackend)
  /\ idle' = Append(idle, Len(backs'))
  /\ alive_count' = alive_count + 1
  /\ \E p \in {"up", "down"} : process' = Append(process, p)
  /\ at' = [at EXCEPT ![s] = "claiming"]
  /\ using' = [using EXCEPT ![s] = Len(backs')]
  /\ UNCHANGED <<marked, unclean>>

\* Mutation: the backend is counted before it is known to have started.
SpawnFailsCounted(s) ==
  /\ at[s] = "spawning"
  /\ alive_count' = alive_count + 1
  /\ Ended(s)
  /\ UNCHANGED <<backs, idle, process, unclean>>

SpawnFails(s) ==
  /\ at[s] = "spawning"
  /\ Ended(s)
  /\ UNCHANGED <<poolVars, process, unclean>>

\* checkout takes its new backend out of the queue and takes its pipes; the
\* task panics if they are gone.
Claim(s) ==
  /\ at[s] = "claiming"
  /\ idle' = RemoveFirst(idle, using[s])
  /\ backs' = [backs EXCEPT ![using[s]] = [@ EXCEPT !.in_use = TRUE, !.piped = FALSE]]
  /\ IF backs[using[s]].piped
     THEN Serves(s, using[s])
     ELSE Ended(s) /\ UNCHANGED unclean
  /\ UNCHANGED <<alive_count, process>>

(* handle_client *)

\* The client sends the marker; whatever it sends afterwards, it has been seen.
Mark(s) ==
  /\ at[s] = "serving" /\ ~marked[s]
  /\ marked' = [marked EXCEPT ![s] = TRUE]
  /\ unclean' = unclean \ {using[s]}
  /\ UNCHANGED <<poolVars, process, at, using>>

\* A write to a backend that is gone fails, and the task ends without checkin.
WriteFails(s) ==
  /\ at[s] = "serving" /\ process[using[s]] # "up"
  /\ Ended(s)
  /\ UNCHANGED <<poolVars, process, unclean>>

(* checkin, at the end of either stream *)

\* Mutation: one backend too many is kept.
OverByTwo == alive_count > pool_size + 1

Over == alive_count > pool_size

\* The backend is struck off: its pipes are closed and it counts no more.
StrikeOff(i) ==
  /\ backs' = [backs EXCEPT ![i] = [alive |-> FALSE, in_use |-> FALSE, piped |-> FALSE]]
  /\ alive_count' = IF Known(i) /\ alive_count > 0 THEN alive_count - 1 ELSE alive_count
  /\ idle' = RemoveFirst(idle, i)

\* Mutation: the backend stays marked as in use.
RecycleInUse(i) ==
  /\ backs' = [backs EXCEPT ![i].piped = TRUE]
  /\ idle' = Append(idle, i)
  /\ UNCHANGED alive_count

Recycle(i) ==
  /\ backs' = [backs EXCEPT ![i] = [@ EXCEPT !.in_use = FALSE, !.piped = TRUE]]
  /\ idle' = Append(idle, i)
  /\ UNCHANGED alive_count

\* Mutation: the marker is not asked for.
CheckinUnmarked(s) ==
  /\ at[s] = "serving"
  /\ IF Over THEN StrikeOff(using[s]) ELSE Recycle(using[s])
  /\ Ended(s)
  /\ UNCHANGED <<process, unclean>>

Checkin(s) ==
  /\ at[s] = "serving"
  /\ IF Over \/ ~marked[s] THEN StrikeOff(using[s]) ELSE Recycle(using[s])
  /\ Ended(s)
  /\ UNCHANGED <<process, unclean>>

(* Backends *)

\* A process ends, of its own or because its pipes were closed.
Exit(i) ==
  /\ process[i] = "up"
  /\ process' = [process EXCEPT ![i] = "down"]
  /\ UNCHANGED <<poolVars, sessionVars, unclean>>

\* Mutation: a backend struck off at checkin is counted a second time.
ReapTwice(i) ==
  /\ process[i] = "down"
  /\ process' = [process EXCEPT ![i] = "reaped"]
  /\ backs' = [backs EXCEPT ![i].alive = FALSE]
  /\ alive_count' = IF alive_count > 0 THEN alive_count - 1 ELSE 0
  /\ idle' = RemoveFirst(idle, i)
  /\ UNCHANGED <<sessionVars, unclean>>

\* mark_dead_by_idx, once the process was waited for.
Reap(i) ==
  /\ process[i] = "down"
  /\ process' = [process EXCEPT ![i] = "reaped"]
  /\ IF Known(i)
     THEN StrikeOff(i)
     ELSE idle' = RemoveFirst(idle, i) /\ UNCHANGED <<backs, alive_count>>
  /\ UNCHANGED <<sessionVars, unclean>>

-----------------------------------------------------------------------------
Next ==
  \/ \E s \in Session :
       \/ CheckoutIdle(s) \/ CheckoutNone(s)
       \/ Register(s) \/ SpawnFails(s) \/ Claim(s)
       \/ Mark(s) \/ WriteFails(s) \/ Checkin(s)
  \/ \E i \in Backends : Exit(i) \/ Reap(i)

Spec == Init /\ [][Next]_vars

-----------------------------------------------------------------------------
(* Properties *)

TypeOK ==
  /\ backs \in Seq([alive : BOOLEAN, in_use : BOOLEAN, piped : BOOLEAN])
  /\ process \in Seq({"up", "down", "reaped"})
  /\ Len(backs) <= MaxBackends /\ Len(process) = Len(backs)
  /\ idle \in Seq(Backends)
  /\ alive_count \in 0..MaxBackends
  /\ at \in [Session -> {"away", "spawning", "claiming", "serving"}]
  /\ using \in [Session -> Backends \cup {0}]
  /\ marked \in [Session -> BOOLEAN]
  /\ unclean \subseteq Backends

Held(i) == \E s \in Session : at[s] = "serving" /\ using[s] = i

\* The count checkin decides by is the number of backends alive, although a
\* checkin and a reaper may both strike the same backend off.
AliveCounted == alive_count = Cardinality({i \in Backends : Known(i)})

\* No working backend is lost to the pool: one that counts as alive and whose
\* process is up is held by a client or can be handed out, whatever claims,
\* panics and checkins came in between.
NoneStranded ==
  \A i \in Backends :
    Known(i) /\ process[i] = "up" => Held(i) \/ (Usable(i) /\ Contains(idle, i))

\* The backends started for a burst of clients go again: when nobody is being
\* served, and the reapers are through, the pool has at most its size, however
\* the checkins were ordered and whichever tasks ended without one.
SizeKept ==
  /\ \A s \in Session : at[s] = "away"
  /\ \A i \in Backends : process[i] # "down"
  => alive_count <= pool_size

\* A client gets a new backend, or one whose last client sent the marker
\* (README: "recycles a backend only if the client sent an explicit clean
\* marker").
CleanHandover ==
  [][\A s \in Session :
       at[s] # "serving" /\ at'[s] = "serving" => using'[s] \notin unclean]_vars

\* checkout unwraps the pipes of the backend it has just registered: it takes
\* for granted that nobody else had them meanwhile.
ClaimFindsPipes == \A s \in Session : at[s] = "claiming" => backs[using[s]].piped
=============================================================================
