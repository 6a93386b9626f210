---------------------------- MODULE ReactorProofs ----------------------------
(***************************************************************************)
(* Proofs about Reactor, for any set of clients and any number of reactors. *)
(***************************************************************************)
EXTENDS Reactor, SequenceTheorems, TLAPS

-----------------------------------------------------------------------------
(* Sequences without repetition *)

Elems(q) == {q[i] : i \in DOMAIN q}
Distinct(q) == \A i, j \in DOMAIN q : q[i] = q[j] => i = j

\* A new element can be appended.
LEMMA AppendDistinct ==
  ASSUME NEW S, NEW q \in Seq(S), NEW x \in S, Distinct(q), x \notin Elems(q)
  PROVE  /\ Append(q, x) \in Seq(S)
         /\ Distinct(Append(q, x))
         /\ Elems(Append(q, x)) = Elems(q) \cup {x}
<1> DEFINE p == Append(q, x)
<1>1. /\ p \in Seq(S) /\ Len(p) = Len(q) + 1 /\ Len(q) \in Nat
      /\ DOMAIN p = 1..Len(p) /\ DOMAIN q = 1..Len(q)
      /\ p[Len(p)] = x /\ \A i \in 1..Len(q) : p[i] = q[i]
  OBVIOUS
<1> HIDE DEF p
<1>2. Distinct(p)
  <2> SUFFICES ASSUME NEW i \in DOMAIN p, NEW j \in DOMAIN p, p[i] = p[j] PROVE i = j
    BY DEF Distinct
  <2>1. CASE i = Len(p) \/ j = Len(p)
    BY <2>1, <1>1 DEF Elems
  <2>2. CASE i # Len(p) /\ j # Len(p)
    BY <2>2, <1>1 DEF Distinct
  <2> QED BY <2>1, <2>2
<1>3. Elems(p) = Elems(q) \cup {x}
  <2>1. ASSUME NEW y \in Elems(p) PROVE y \in Elems(q) \cup {x}
    BY <1>1 DEF Elems
  <2>2. ASSUME NEW y \in Elems(q) PROVE y \in Elems(p)
    <3>1. PICK i \in DOMAIN q : y = q[i]
      BY DEF Elems
    <3>2. i \in DOMAIN p /\ p[i] = y
      BY <3>1, <1>1
    <3> QED BY <3>2 DEF Elems
  <2>3. x \in Elems(p)
    BY <1>1 DEF Elems
  <2> QED BY <2>1, <2>2, <2>3
<1> QED BY <1>1, <1>2, <1>3 DEF p

\* Taking the head takes one element away.
LEMMA TailDistinct ==
  ASSUME NEW S, NEW q \in Seq(S), q # <<>>, Distinct(q)
  PROVE  /\ Tail(q) \in Seq(S) /\ Head(q) \in S
         /\ Distinct(Tail(q))
         /\ Head(q) \in Elems(q)
         /\ Elems(Tail(q)) = Elems(q) \ {Head(q)}
<1> DEFINE p == Tail(q)
<1>1. /\ p \in Seq(S) /\ Len(q) \in Nat /\ Len(q) > 0 /\ Len(p) = Len(q) - 1
      /\ DOMAIN p = 1..Len(p) /\ DOMAIN q = 1..Len(q)
      /\ Head(q) = q[1] /\ \A i \in 1..Len(p) : p[i] = q[i + 1]
      /\ Head(q) \in S
  OBVIOUS
<1> HIDE DEF p
<1>2. Distinct(p)
  <2> SUFFICES ASSUME NEW i \in DOMAIN p, NEW j \in DOMAIN p, p[i] = p[j] PROVE i = j
    BY DEF Distinct
  <2>1. i + 1 \in DOMAIN q /\ j + 1 \in DOMAIN q /\ q[i + 1] = q[j + 1]
    BY <1>1
  <2> QED BY <2>1, <1>1 DEF Distinct
<1>3. Elems(p) = Elems(q) \ {Head(q)}
  <2>1. ASSUME NEW y \in Elems(p) PROVE y \in Elems(q) \ {Head(q)}
    <3>1. PICK i \in DOMAIN p : y = p[i]
      BY DEF Elems
    <3>2. i + 1 \in DOMAIN q /\ 1 \in DOMAIN q /\ y = q[i + 1] /\ i + 1 # 1
      BY <3>1, <1>1
    <3>3. y # q[1]
      BY <3>2 DEF Distinct
    <3> QED BY <3>2, <3>3, <1>1 DEF Elems
  <2>2. ASSUME NEW y \in Elems(q) \ {Head(q)} PROVE y \in Elems(p)
    <3>1. PICK i \in DOMAIN q : y = q[i]
      BY DEF Elems
    <3>2. i - 1 \in DOMAIN p /\ p[i - 1] = y
      BY <3>1, <2>2, <1>1
    <3> QED BY <3>2 DEF Elems
  <2> QED BY <2>1, <2>2
<1>4. Head(q) \in Elems(q)
  BY <1>1 DEF Elems
<1> QED BY <1>1, <1>2, <1>3, <1>4 DEF p

\* A published first message is somebody's business already ...
WorkNoticed ==
  HeadPublished =>
    \/ pending_work_ = 1
    \/ \E r \in Reactor : rpc[r] \in {"drain", "serve"}
    \/ \E c \in Client : pc[c] = "published"

\* ... and a set mark is seen by a reactor that is awake or about to be woken.
MarkSeen ==
  pending_work_ = 1 =>
    \/ \E r \in Reactor : rpc[r] \notin {"asleep", "exited"}
    \/ \E c \in Client : pc[c] = "waking"

\* A reactor holds a request only while it serves it.
ServingOnly == \A r \in Reactor : rpc[r] # "serve" => serving[r] = {}

\* Reactors end only when told to, and then nobody calls any more.
StopQuiet ==
  /\ \A r \in Reactor : rpc[r] = "exited" => stop_
  /\ stop_ => destructor # "running" /\ \A c \in Client : pc[c] = "idle"

IInv == TypeOK /\ OnePlace /\ WorkNoticed /\ MarkSeen /\ ServingOnly /\ StopQuiet

-----------------------------------------------------------------------------
(* The invariant *)

\* OnePlace in the terms of the lemmas above.
LEMMA OnePlaceParts ==
  OnePlace <=>
    /\ Distinct(queue)
    /\ \A r1, r2 \in Reactor : r1 # r2 => serving[r1] \cap serving[r2] = {}
    /\ Elems(queue) \cap Served = {} /\ Elems(queue) \cap answered = {} /\ Served \cap answered = {}
    /\ Elems(queue) \cup Served \cup answered = {c \in Client : pc[c] # "idle"}
BY DEF OnePlace, Distinct, Elems, Queued

\* What a step that only moves threads leaves as it is.
LEMMA OnePlaceKept ==
  ASSUME OnePlace, UNCHANGED <<queue, answered, serving>>,
         \A c \in Client : pc'[c] = "idle" <=> pc[c] = "idle"
  PROVE  OnePlace'
BY DEF OnePlace, Queued, Served

\* The invariant holds at first.
LEMMA InitInv == Init => IInv
<1> SUFFICES ASSUME Init PROVE IInv
  OBVIOUS
<1>1. TypeOK
  <2>1. <<>> \in Seq(Client)
    OBVIOUS
  <2>2. serving \in [Reactor -> SUBSET Client]
    BY DEF Init
  <2>3. /\ pc \in [Client -> {"idle", "reserved", "published", "waking", "waiting"}]
        /\ rpc \in [Reactor -> {"check", "sleepy", "asleep", "drain", "serve", "exited"}]
    BY DEF Init
  <2> QED BY <2>1, <2>2, <2>3 DEF Init, TypeOK
<1>2. OnePlace
  <2>1. Queued = {} /\ Served = {} /\ answered = {}
    BY DEF Init, Queued, Served
  <2> QED BY <2>1 DEF Init, OnePlace
<1>3. WorkNoticed /\ MarkSeen
  BY DEF Init, WorkNoticed, HeadPublished, MarkSeen
<1>4. ServingOnly /\ StopQuiet
  BY DEF Init, ServingOnly, StopQuiet
<1> QED BY <1>1, <1>2, <1>3, <1>4 DEF IInv

\* Every step keeps the invariant.
LEMMA NextInv == IInv /\ [Next]_vars => IInv'
<1> SUFFICES ASSUME IInv, [Next]_vars PROVE IInv'
  OBVIOUS
<1> USE DEF IInv
<1>1. ASSUME NEW c \in Client, Reserve(c) PROVE IInv'
  <2> USE <1>1 DEF Reserve, clientVars, reactorVars, stopVars, Goto
  <2>1. /\ Distinct(queue) /\ c \notin Elems(queue)
        /\ queue' \in Seq(Client) /\ Distinct(queue') /\ Elems(queue') = Elems(queue) \cup {c}
    <3>1. Distinct(queue) /\ c \notin Elems(queue)
      BY OnePlaceParts
    <3>2. queue \in Seq(Client) /\ queue' = Append(queue, c)
      BY DEF TypeOK
    <3> QED BY <3>1, <3>2, AppendDistinct
  <2>2. TypeOK'
    BY <2>1 DEF TypeOK
  <2>3. OnePlace'
    <3>1. /\ c \notin Served /\ c \notin answered
          /\ {d \in Client : pc'[d] # "idle"} = {d \in Client : pc[d] # "idle"} \cup {c}
      BY OnePlaceParts DEF TypeOK
    <3>2. Served' = Served
      BY DEF Served
    <3> QED BY <2>1, <3>1, <3>2 DEF OnePlace, Distinct, Elems, Queued
  <2>4. HeadPublished' => HeadPublished
    <3>1. CASE queue = <<>>
      <4>1. Head(queue') = c
        BY <3>1
      <4> QED BY <4>1 DEF HeadPublished, TypeOK
    <3>2. CASE queue # <<>>
      <4>1. Head(queue') = Head(queue) /\ Head(queue) \in Client
        BY <3>2 DEF TypeOK
      <4> QED BY <4>1, <3>2 DEF HeadPublished, TypeOK
    <3> QED BY <3>1, <3>2
  <2>5. WorkNoticed'
    BY <2>4 DEF WorkNoticed, TypeOK
  <2>6. MarkSeen' /\ ServingOnly'
    BY DEF MarkSeen, ServingOnly, TypeOK
  <2>7. StopQuiet'
    BY DEF StopQuiet
  <2> QED BY <2>2, <2>3, <2>5, <2>6, <2>7
<1>2. ASSUME NEW c \in Client, Publish(c) PROVE IInv'
  <2> USE <1>2 DEF Publish, reactorVars, stopVars, Goto
  <2>1. TypeOK'
    BY DEF TypeOK
  <2>2. OnePlace'
    BY OnePlaceKept DEF TypeOK
  <2>3. WorkNoticed'
    BY DEF WorkNoticed, TypeOK
  <2>4. MarkSeen' /\ ServingOnly' /\ StopQuiet'
    BY DEF MarkSeen, ServingOnly, StopQuiet, TypeOK
  <2> QED BY <2>1, <2>2, <2>3, <2>4
<1>3. ASSUME NEW c \in Client, Mark(c) PROVE IInv'
  <2> USE <1>3 DEF Mark, reactorVars, stopVars, Goto
  <2>1. TypeOK'
    BY DEF TypeOK
  <2>2. OnePlace'
    BY OnePlaceKept DEF TypeOK
  <2>3. WorkNoticed'
    BY DEF WorkNoticed
  <2>4. MarkSeen'
    <3>1. CASE pending_work_ = 0
      BY <3>1 DEF MarkSeen, TypeOK
    <3>2. CASE pending_work_ = 1
      BY <3>2 DEF MarkSeen, TypeOK
    <3> QED BY <3>1, <3>2 DEF TypeOK
  <2>5. ServingOnly' /\ StopQuiet'
    BY DEF ServingOnly, StopQuiet, TypeOK
  <2> QED BY <2>1, <2>2, <2>3, <2>4, <2>5
<1>4. ASSUME NEW c \in Client, WakeOne(c) PROVE IInv'
  <2> USE <1>4 DEF WakeOne, reactorVars, stopVars, Goto, Move
  <2>1. TypeOK'
    BY DEF TypeOK
  <2>2. OnePlace'
    BY OnePlaceKept DEF TypeOK
  <2>3. HeadPublished' => HeadPublished
    BY DEF HeadPublished, TypeOK
  <2>4. WorkNoticed'
    BY <2>3 DEF WorkNoticed, TypeOK
  <2>5. ~stop_
    BY DEF StopQuiet
  <2>6. MarkSeen'
    <3>1. CASE \E r \in Reactor : rpc[r] = "asleep" /\ rpc' = [rpc EXCEPT ![r] = "check"]
      BY <3>1 DEF MarkSeen, TypeOK
    <3>2. CASE (\A r \in Reactor : rpc[r] # "asleep") /\ rpc' = rpc
      BY <3>2, <2>5, ReactorAssumption DEF MarkSeen, StopQuiet
    <3> QED BY <3>1, <3>2
  <2>7. ServingOnly' /\ StopQuiet'
    BY DEF ServingOnly, StopQuiet, TypeOK
  <2> QED BY <2>1, <2>2, <2>4, <2>6, <2>7
<1>5. ASSUME NEW c \in Client, Return(c) PROVE IInv'
  <2> USE <1>5 DEF Return, reactorVars, stopVars, Goto
  <2>1. TypeOK'
    BY DEF TypeOK
  <2>2. OnePlace'
    <3>1. {d \in Client : pc'[d] # "idle"} = {d \in Client : pc[d] # "idle"} \ {c}
      BY DEF TypeOK
    <3>2. Served' = Served /\ Queued' = Queued
      BY DEF Served, Queued
    <3> QED BY <3>1, <3>2 DEF OnePlace
  <2>3. HeadPublished' => HeadPublished
    <3>1. queue # <<>> => Head(queue) \in Queued
      BY DEF Queued, TypeOK
    <3>2. c \notin Queued
      BY DEF OnePlace
    <3> QED BY <3>1, <3>2 DEF HeadPublished, TypeOK
  <2>4. WorkNoticed'
    BY <2>3 DEF WorkNoticed, TypeOK
  <2>5. MarkSeen' /\ ServingOnly' /\ StopQuiet'
    BY DEF MarkSeen, ServingOnly, StopQuiet, TypeOK
  <2> QED BY <2>1, <2>2, <2>4, <2>5
<1>6. ASSUME NEW r \in Reactor, TakeWork(r) PROVE IInv'
  <2> USE <1>6 DEF TakeWork, clientVars, stopVars, Move
  <2>1. TypeOK'
    BY DEF TypeOK
  <2>2. OnePlace'
    BY OnePlaceKept
  <2>3. WorkNoticed' /\ MarkSeen'
    BY DEF WorkNoticed, MarkSeen, TypeOK
  <2>4. ServingOnly' /\ StopQuiet'
    BY DEF ServingOnly, StopQuiet, TypeOK
  <2> QED BY <2>1, <2>2, <2>3, <2>4
<1>7. ASSUME NEW r \in Reactor, GoToSleep(r) \/ Exit(r) \/ FutexWait(r) \/ Interrupted(r)
      PROVE  IInv'
  <2> USE <1>7 DEF GoToSleep, Exit, FutexWait, Interrupted, clientVars, stopVars, Move
  <2>1. TypeOK'
    BY DEF TypeOK
  <2>2. OnePlace'
    BY OnePlaceKept
  <2>3. HeadPublished' <=> HeadPublished
    BY DEF HeadPublished
  <2>4. WorkNoticed'
    BY <2>3 DEF WorkNoticed, TypeOK
  <2>5. MarkSeen'
    BY DEF MarkSeen, TypeOK
  <2>6. ServingOnly' /\ StopQuiet'
    BY DEF ServingOnly, StopQuiet, TypeOK
  <2> QED BY <2>1, <2>2, <2>4, <2>5, <2>6
<1>8. ASSUME NEW r \in Reactor, Take(r) PROVE IInv'
  <2> USE <1>8 DEF Take, clientVars, stopVars, Move
  <2>1. /\ queue # <<>> /\ Distinct(queue) /\ queue \in Seq(Client)
        /\ serving[r] = {} /\ rpc[r] = "drain"
    BY OnePlaceParts DEF HeadPublished, ServingOnly, TypeOK
  <2>2. /\ queue' \in Seq(Client) /\ Head(queue) \in Client
        /\ Distinct(queue') /\ Head(queue) \in Elems(queue)
        /\ Elems(queue') = Elems(queue) \ {Head(queue)}
    BY <2>1, TailDistinct
  <2>3. TypeOK'
    BY <2>2 DEF TypeOK
  <2>4. Served' = Served \cup {Head(queue)}
    <3>1. \A s \in Reactor : serving'[s] = IF s = r THEN {Head(queue)} ELSE serving[s]
      BY DEF TypeOK
    <3> QED BY <3>1, <2>1 DEF Served
  <2>5. OnePlace'
    <3>1. ASSUME NEW r1 \in Reactor, NEW r2 \in Reactor, r1 # r2
          PROVE  serving'[r1] \cap serving'[r2] = {}
      <4>1. \A s \in Reactor : Head(queue) \notin serving[s]
        BY <2>2, OnePlaceParts DEF Served
      <4> QED BY <4>1, <3>1 DEF OnePlace, TypeOK
    <3>2. Elems(queue') \cap Served' = {} /\ Elems(queue') \cap answered = {} /\ Served' \cap answered = {}
      BY <2>2, <2>4, OnePlaceParts
    <3>3. Elems(queue') \cup Served' \cup answered = {c \in Client : pc[c] # "idle"}
      BY <2>2, <2>4, OnePlaceParts
    <3> QED BY <2>2, <3>1, <3>2, <3>3 DEF OnePlace, Distinct, Elems, Queued
  <2>6. WorkNoticed' /\ MarkSeen'
    BY DEF WorkNoticed, MarkSeen, TypeOK
  <2>7. ServingOnly' /\ StopQuiet'
    BY DEF ServingOnly, StopQuiet, TypeOK
  <2> QED BY <2>3, <2>5, <2>6, <2>7
<1>9. ASSUME NEW r \in Reactor, Answer(r) PROVE IInv'
  <2> USE <1>9 DEF Answer, clientVars, stopVars, Move
  <2>1. TypeOK'
    BY DEF TypeOK
  <2>2. \A s \in Reactor : serving'[s] = IF s = r THEN {} ELSE serving[s]
    BY DEF TypeOK
  <2>3. Served' = Served \ serving[r] /\ serving[r] \subseteq Served
    BY <2>2 DEF Served, OnePlace
  <2>4. Queued' = Queued
    BY DEF Queued
  <2>5. OnePlace'
    BY <2>2, <2>3, <2>4 DEF OnePlace
  <2>6. WorkNoticed' /\ MarkSeen'
    BY DEF WorkNoticed, MarkSeen, TypeOK
  <2>7. ServingOnly' /\ StopQuiet'
    BY DEF ServingOnly, StopQuiet, TypeOK
  <2> QED BY <2>1, <2>5, <2>6, <2>7
<1>10. ASSUME NEW r \in Reactor, FoundEmpty(r) PROVE IInv'
  <2> USE <1>10 DEF FoundEmpty, clientVars, stopVars, Move
  <2>1. TypeOK'
    BY DEF TypeOK
  <2>2. OnePlace'
    BY OnePlaceKept
  <2>3. ~HeadPublished'
    BY DEF HeadPublished
  <2>4. WorkNoticed' /\ MarkSeen'
    BY <2>3 DEF WorkNoticed, MarkSeen, TypeOK
  <2>5. ServingOnly' /\ StopQuiet'
    BY DEF ServingOnly, StopQuiet, TypeOK
  <2> QED BY <2>1, <2>2, <2>4, <2>5
<1>11. CASE Destroy
  <2> USE <1>11 DEF Destroy, SetStop, WakeAll, Join, clientVars, reactorVars
  <2>1. TypeOK'
    BY DEF TypeOK
  <2>2. OnePlace'
    BY OnePlaceKept
  <2>3. HeadPublished' <=> HeadPublished
    BY DEF HeadPublished
  <2>4. WorkNoticed'
    BY <2>3 DEF WorkNoticed, TypeOK
  <2>5. MarkSeen'
    BY DEF MarkSeen, TypeOK
  <2>6. ServingOnly' /\ StopQuiet'
    BY DEF ServingOnly, StopQuiet, TypeOK
  <2> QED BY <2>1, <2>2, <2>4, <2>5, <2>6
<1>12. CASE UNCHANGED vars
  BY <1>12 DEF vars, TypeOK, OnePlace, Queued, Served, WorkNoticed, HeadPublished,
               MarkSeen, ServingOnly, StopQuiet
<1> QED
  BY <1>1, <1>2, <1>3, <1>4, <1>5, <1>6, <1>7, <1>8, <1>9, <1>10, <1>11, <1>12
     DEF Next, InCall, Round

\* The invariant holds in every reachable state.
THEOREM Invariant == Spec => []IInv
BY InitInv, NextInv, PTL DEF Spec

\* Threads, marks and requests keep their types.
THEOREM TypeCorrect == Spec => []TypeOK
<1>1. IInv => TypeOK
  BY DEF IInv
<1> QED BY <1>1, Invariant, PTL

\* Every request is in the ring, with a reactor or answered, and in one of them
\* only.
THEOREM AlwaysOnePlace == Spec => []OnePlace
<1>1. IInv => OnePlace
  BY DEF IInv
<1> QED BY <1>1, Invariant, PTL

\* Reactors never all sleep on a message that can be served, unless a client is
\* about to wake one.
THEOREM NeverSleepingWork == Spec => []NoSleepingWork
<1>1. IInv => NoSleepingWork
  BY DEF IInv, NoSleepingWork, WorkNoticed, MarkSeen
<1> QED BY <1>1, Invariant, PTL
=============================================================================
