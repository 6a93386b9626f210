------------------------------- MODULE Reactor -------------------------------
(***************************************************************************)
(* How requests reach the reactor threads of an fqdb queue and how those    *)
(* threads sleep: enqueue_, loop_ and the destructor of FlexibleQueueImpl   *)
(* (src/fqdb/src/flexible_queue.hpp).                                       *)
(*                                                                         *)
(* A client is a connection thread of main.cpp: it pushes a message into    *)
(* the ring q_, marks pending_work_ under the mutex fx_mu_, wakes a reactor *)
(* if the mark was not set, and waits for its future.  A reactor clears     *)
(* the mark under the mutex, drains the ring until it looks empty, and      *)
(* sleeps on the futex pending_work_ only while that is 0.                  *)
(*                                                                         *)
(* The ring is seen from outside here: a sequence of reserved places, of    *)
(* which the first is taken only once its message is published (RingQueue  *)
(* has the slots).  What serving a request does is FlexStore.               *)
(***************************************************************************)
EXTENDS Naturals, Sequences

CONSTANTS
  Client,   \* threads that call push, pop, ... one request at a time
  Reactor   \* threads that run loop_

ASSUME ReactorAssumption == Reactor # {}

VARIABLES
  queue,          \* clients in the order of the places they reserved in q_
  pc,             \* where each client is in its call
  answered,       \* clients whose promise is fulfilled
  rpc,            \* where each reactor is in loop_
  serving,        \* the request a reactor has taken, if it serves one
  pending_work_,  \* the futex word
  stop_,          \* set by the destructor
  destructor      \* where the destructor is

vars == <<queue, pc, answered, rpc, serving, pending_work_, stop_, destructor>>
clientVars == <<pc, queue, answered>>
reactorVars == <<rpc, serving>>
stopVars == <<stop_, destructor>>

-----------------------------------------------------------------------------
Init ==
  /\ queue = <<>>
  /\ pc = [c \in Client |-> "idle"]
  /\ answered = {}
  /\ rpc = [r \in Reactor |-> "check"]
  /\ serving = [r \in Reactor |-> {}]
  /\ pending_work_ = 0
  /\ stop_ = FALSE
  /\ destructor = "running"

Goto(c, where) == pc' = [pc EXCEPT ![c] = where]
Move(r, where) == rpc' = [rpc EXCEPT ![r] = where]

(* A call of a client *)

\* q_.push takes the next place of the ring ...
Reserve(c) ==
  /\ pc[c] = "idle" /\ destructor = "running"
  /\ Goto(c, "reserved")
  /\ queue' = Append(queue, c)
  /\ UNCHANGED <<answered, reactorVars, pending_work_, stopVars>>

\* ... and publishes its message there.
Publish(c) ==
  /\ pc[c] = "reserved"
  /\ Goto(c, "published")
  /\ UNCHANGED <<queue, answered, reactorVars, pending_work_, stopVars>>

\* Mutation: the mark counts the requests.
MarkCounts(c) ==
  /\ pc[c] = "published"
  /\ pending_work_' = pending_work_ + 1
  /\ Goto(c, IF pending_work_ = 0 THEN "waking" ELSE "waiting")
  /\ UNCHANGED <<queue, answered, reactorVars, stopVars>>

\* The mark; only the client that sets it has to wake a reactor.
Mark(c) ==
  /\ pc[c] = "published"
  /\ pending_work_' = 1
  /\ Goto(c, IF pending_work_ = 0 THEN "waking" ELSE "waiting")
  /\ UNCHANGED <<queue, answered, reactorVars, stopVars>>

\* futex_wake(1): one of the sleepers, if there is one.
WakeOne(c) ==
  /\ pc[c] = "waking"
  /\ Goto(c, "waiting")
  /\ \/ \E r \in Reactor : rpc[r] = "asleep" /\ Move(r, "check")
     \/ (\A r \in Reactor : rpc[r] # "asleep") /\ UNCHANGED rpc
  /\ UNCHANGED <<queue, answered, serving, pending_work_, stopVars>>

\* fut.get() returns.
Return(c) ==
  /\ pc[c] = "waiting" /\ c \in answered
  /\ Goto(c, "idle")
  /\ answered' = answered \ {c}
  /\ UNCHANGED <<queue, reactorVars, pending_work_, stopVars>>

(* A round of a reactor *)

\* Under the mutex: there is work, and this reactor takes care of it.
TakeWork(r) ==
  /\ rpc[r] = "check" /\ pending_work_ # 0
  /\ pending_work_' = 0
  /\ Move(r, "drain")
  /\ UNCHANGED <<clientVars, serving, stopVars>>

\* Under the mutex: there is none; the mutex is released before the wait.
GoToSleep(r) ==
  /\ rpc[r] = "check" /\ pending_work_ = 0 /\ ~stop_
  /\ Move(r, "sleepy")
  /\ UNCHANGED <<clientVars, serving, pending_work_, stopVars>>

\* Under the mutex: there is none and there will be none.
Exit(r) ==
  /\ rpc[r] = "check" /\ pending_work_ = 0 /\ stop_
  /\ Move(r, "exited")
  /\ UNCHANGED <<clientVars, serving, pending_work_, stopVars>>

\* Mutation: the wait does not compare the futex word first.
FutexWaitBlind(r) ==
  /\ rpc[r] = "sleepy"
  /\ Move(r, "asleep")
  /\ UNCHANGED <<clientVars, serving, pending_work_, stopVars>>

\* futex_wait(&pending_work_, 0): the kernel compares and sleeps in one step.
FutexWait(r) ==
  /\ rpc[r] = "sleepy"
  /\ Move(r, IF pending_work_ = 0 THEN "asleep" ELSE "check")
  /\ UNCHANGED <<clientVars, serving, pending_work_, stopVars>>

\* The wait may also return for no reason, a signal for one.
Interrupted(r) ==
  /\ rpc[r] = "asleep"
  /\ Move(r, "check")
  /\ UNCHANGED <<clientVars, serving, pending_work_, stopVars>>

HeadPublished == queue # <<>> /\ pc[Head(queue)] # "reserved"

\* Mutation: the message is read and the head of the ring stays.
TakePeek(r) ==
  /\ rpc[r] = "drain" /\ HeadPublished
  /\ serving' = [serving EXCEPT ![r] = {Head(queue)}]
  /\ Move(r, "serve")
  /\ UNCHANGED <<clientVars, pending_work_, stopVars>>

\* q_.pop finds a message.
Take(r) ==
  /\ rpc[r] = "drain" /\ HeadPublished
  /\ queue' = Tail(queue)
  /\ serving' = [serving EXCEPT ![r] = {Head(queue)}]
  /\ Move(r, "serve")
  /\ UNCHANGED <<pc, answered, pending_work_, stopVars>>

\* The request is served and its promise fulfilled.
Answer(r) ==
  /\ rpc[r] = "serve"
  /\ answered' = answered \cup serving[r]
  /\ serving' = [serving EXCEPT ![r] = {}]
  /\ Move(r, "drain")
  /\ UNCHANGED <<queue, pc, pending_work_, stopVars>>

\* q_.pop finds nothing: the ring is empty, or its first message is on the way
\* and hides those behind it.
FoundEmpty(r) ==
  /\ rpc[r] = "drain" /\ ~HeadPublished
  /\ Move(r, "check")
  /\ UNCHANGED <<clientVars, serving, pending_work_, stopVars>>

(* The destructor, after the connection threads have been joined *)

SetStop ==
  /\ destructor = "running" /\ \A c \in Client : pc[c] = "idle"
  /\ stop_' = TRUE
  /\ destructor' = "stopping"
  /\ UNCHANGED <<clientVars, reactorVars, pending_work_>>

\* futex_wake(INT_MAX): all the sleepers there are now.
WakeAll ==
  /\ destructor = "stopping"
  /\ rpc' = [r \in Reactor |-> IF rpc[r] = "asleep" THEN "check" ELSE rpc[r]]
  /\ destructor' = "joining"
  /\ UNCHANGED <<clientVars, serving, pending_work_, stop_>>

Join ==
  /\ destructor = "joining" /\ \A r \in Reactor : rpc[r] = "exited"
  /\ destructor' = "done"
  /\ UNCHANGED <<clientVars, reactorVars, pending_work_, stop_>>

-----------------------------------------------------------------------------
InCall(c) == Publish(c) \/ Mark(c) \/ WakeOne(c) \/ Return(c)

Round(r) ==
  \/ TakeWork(r) \/ GoToSleep(r) \/ Exit(r) \/ FutexWait(r)
  \/ Take(r) \/ Answer(r) \/ FoundEmpty(r)

Destroy == SetStop \/ WakeAll \/ Join

Next ==
  \/ \E c \in Client : Reserve(c) \/ InCall(c)
  \/ \E r \in Reactor : Round(r) \/ Interrupted(r)
  \/ Destroy

\* Every thread that can run does, sooner or later; no client has to call and
\* nobody has to stop the program, but a destructor once begun goes on.
Fairness ==
  /\ \A c \in Client : WF_vars(InCall(c))
  /\ \A r \in Reactor : WF_vars(Round(r))
  /\ WF_vars(WakeAll) /\ WF_vars(Join)

Spec == Init /\ [][Next]_vars
FairSpec == Spec /\ Fairness

-----------------------------------------------------------------------------
(* Properties *)

TypeOK ==
  /\ queue \in Seq(Client)
  /\ pc \in [Client -> {"idle", "reserved", "published", "waking", "waiting"}]
  /\ answered \subseteq Client
  /\ rpc \in [Reactor -> {"check", "sleepy", "asleep", "drain", "serve", "exited"}]
  /\ serving \in [Reactor -> SUBSET Client]
  /\ pending_work_ \in {0, 1}
  /\ stop_ \in BOOLEAN
  /\ destructor \in {"running", "stopping", "joining", "done"}

Queued == {queue[i] : i \in DOMAIN queue}
Served == UNION {serving[r] : r \in Reactor}

\* A request is in exactly one place from the call to its return: in the ring,
\* with one reactor, or answered; it is never dropped and never served twice,
\* whichever reactor takes it and however late its client marks it.
OnePlace ==
  /\ \A i, j \in DOMAIN queue : queue[i] = queue[j] => i = j
  /\ \A r1, r2 \in Reactor : r1 # r2 => serving[r1] \cap serving[r2] = {}
  /\ Queued \cap Served = {} /\ Queued \cap answered = {} /\ Served \cap answered = {}
  /\ Queued \cup Served \cup answered = {c \in Client : pc[c] # "idle"}

\* There is never a message to serve while every reactor sleeps, unless a client
\* is on its way to wake one: the mark cleared before draining, the compare in
\* futex_wait and the single wake-up lose no request between them.
NoSleepingWork ==
  HeadPublished =>
    \/ \E r \in Reactor : rpc[r] \notin {"asleep", "exited"}
    \/ \E c \in Client : pc[c] \in {"published", "waking"}

\* Every call returns.
EveryCallReturns == \A c \in Client : pc[c] = "reserved" ~> pc[c] = "idle"

\* "wait for work or stop": when the queue is destroyed its reactors end and
\* the destructor does too.
ShutdownTerminates == destructor = "stopping" ~> destructor = "done"
=============================================================================
