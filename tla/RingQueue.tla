------------------------------ MODULE RingQueue ------------------------------
(***************************************************************************)
(* The lock-free ring Queue<T, CAP> of src/fqdb/src/flexible_queue.hpp,     *)
(* which carries requests to the reactors and sockets to the connection     *)
(* threads: one action per atomic access.  Any number of threads push and   *)
(* pop.  A push takes its place with fetch_add before it knows whether the  *)
(* slot is free, and spins until it is.                                     *)
(*                                                                         *)
(* Positions are natural numbers: 2^64 of them are never used up.  The weak *)
(* compare-and-swap fails only when head_ has moved, as on x86.             *)
(*                                                                         *)
(* Bound: a producer pushes at most MaxPush messages.                       *)
(***************************************************************************)
EXTENDS Integers, Sequences

CONSTANTS
  Producer, Consumer,
  Nothing,    \* no message
  CAP,        \* slots of the ring
  MaxPush     \* bound on the messages of a producer

ASSUME CapAssumption == CAP \in Nat \ {0, 1} /\ MaxPush \in Nat

VARIABLES
  seq, item,      \* the slots of ring_
  head_, tail_,   \* next position to pop, next position to reserve
  sent,           \* messages each producer has begun to push
  ppc, ppos,      \* where a producer is in push, and its position
  cpc, cpos,      \* where a consumer is in pop, and its position
  got             \* what the last pop of a consumer returned

vars == <<seq, item, head_, tail_, sent, ppc, ppos, cpc, cpos, got>>
producerVars == <<sent, ppc, ppos, tail_>>
consumerVars == <<cpc, cpos, got, head_>>

Slot(pos) == pos % CAP
Message(p, n) == [from |-> p, number |-> n]

Init ==
  /\ seq = [s \in 0..CAP - 1 |-> s]
  /\ item = [s \in 0..CAP - 1 |-> Nothing]
  /\ head_ = 0 /\ tail_ = 0
  /\ sent = [p \in Producer |-> 0]
  /\ ppc = [p \in Producer |-> "idle"]
  /\ ppos = [p \in Producer |-> 0]
  /\ cpc = [c \in Consumer |-> "idle"]
  /\ cpos = [c \in Consumer |-> 0]
  /\ got = [c \in Consumer |-> Nothing]

(* push *)

\* tail_.fetch_add(1)
Reserve(p) ==
  /\ ppc[p] = "idle" /\ sent[p] < MaxPush
  /\ sent' = [sent EXCEPT ![p] = @ + 1]
  /\ ppos' = [ppos EXCEPT ![p] = tail_]
  /\ tail_' = tail_ + 1
  /\ ppc' = [ppc EXCEPT ![p] = "reserved"]
  /\ UNCHANGED <<seq, item, consumerVars>>

\* Mutation: the slot is right, its round is not compared.
SlotFreeAnyRound(p) == Slot(seq[Slot(ppos[p])]) = Slot(ppos[p])

\* The spin of push ends: the slot has come round to this position.
SlotFree(p) == seq[Slot(ppos[p])] = ppos[p]

Fill(p) ==
  /\ ppc[p] = "reserved" /\ SlotFree(p)
  /\ item' = [item EXCEPT ![Slot(ppos[p])] = Message(p, sent[p])]
  /\ ppc' = [ppc EXCEPT ![p] = "filled"]
  /\ UNCHANGED <<seq, sent, ppos, tail_, consumerVars>>

\* The release store of seq publishes the item.
Publish(p) ==
  /\ ppc[p] = "filled"
  /\ seq' = [seq EXCEPT ![Slot(ppos[p])] = ppos[p] + 1]
  /\ ppc' = [ppc EXCEPT ![p] = "idle"]
  /\ UNCHANGED <<item, sent, ppos, tail_, consumerVars>>

(* pop *)

LoadHead(c) ==
  /\ cpc[c] = "idle"
  /\ cpos' = [cpos EXCEPT ![c] = head_]
  /\ cpc' = [cpc EXCEPT ![c] = "probe"]
  /\ UNCHANGED <<seq, item, producerVars, got, head_>>

\* Mutation: off by one, as if unpublished slots held a message.
DifOfPush(c) == seq[Slot(cpos[c])] - cpos[c]

Dif(c) == seq[Slot(cpos[c])] - (cpos[c] + 1)

\* The slot holds this position's message: try to claim it.
ProbeFull(c) ==
  /\ cpc[c] = "probe" /\ Dif(c) = 0
  /\ cpc' = [cpc EXCEPT ![c] = "claim"]
  /\ UNCHANGED <<seq, item, producerVars, cpos, got, head_>>

\* The slot is not published yet: pop returns false.
ProbeEmpty(c) ==
  /\ cpc[c] = "probe" /\ Dif(c) < 0
  /\ got' = [got EXCEPT ![c] = Nothing]
  /\ cpc' = [cpc EXCEPT ![c] = "idle"]
  /\ UNCHANGED <<seq, item, producerVars, cpos, head_>>

\* Somebody was faster: read head_ again.
ProbePassed(c) ==
  /\ cpc[c] = "probe" /\ Dif(c) > 0
  /\ cpos' = [cpos EXCEPT ![c] = head_]
  /\ UNCHANGED <<seq, item, producerVars, cpc, got, head_>>

\* Mutation: head_ is stored, not compared and swapped.
ClaimBlind(c) ==
  /\ cpc[c] = "claim"
  /\ head_' = cpos[c] + 1
  /\ cpc' = [cpc EXCEPT ![c] = "claimed"]
  /\ UNCHANGED <<seq, item, producerVars, cpos, got>>

\* The compare-and-swap of head_ succeeds ...
Claim(c) ==
  /\ cpc[c] = "claim" /\ head_ = cpos[c]
  /\ head_' = cpos[c] + 1
  /\ cpc' = [cpc EXCEPT ![c] = "claimed"]
  /\ UNCHANGED <<seq, item, producerVars, cpos, got>>

\* ... or fails and loads the present one.
ClaimFails(c) ==
  /\ cpc[c] = "claim" /\ head_ # cpos[c]
  /\ cpos' = [cpos EXCEPT ![c] = head_]
  /\ cpc' = [cpc EXCEPT ![c] = "probe"]
  /\ UNCHANGED <<seq, item, producerVars, got, head_>>

\* Mutation: the slot is released for the round it was in.
ReleaseSameRound(c) ==
  /\ cpc[c] = "claimed"
  /\ got' = [got EXCEPT ![c] = item[Slot(cpos[c])]]
  /\ seq' = [seq EXCEPT ![Slot(cpos[c])] = cpos[c] + 1]
  /\ cpc' = [cpc EXCEPT ![c] = "idle"]
  /\ UNCHANGED <<item, producerVars, cpos, head_>>

\* The item is moved out and the slot released for the next round.
Release(c) ==
  /\ cpc[c] = "claimed"
  /\ got' = [got EXCEPT ![c] = item[Slot(cpos[c])]]
  /\ seq' = [seq EXCEPT ![Slot(cpos[c])] = cpos[c] + CAP]
  /\ cpc' = [cpc EXCEPT ![c] = "idle"]
  /\ UNCHANGED <<item, producerVars, cpos, head_>>

-----------------------------------------------------------------------------
Pushing(p) == Fill(p) \/ Publish(p)

Popping(c) ==
  \/ LoadHead(c) \/ ProbeFull(c) \/ ProbeEmpty(c) \/ ProbePassed(c)
  \/ Claim(c) \/ ClaimFails(c) \/ Release(c)

Next ==
  \/ \E p \in Producer : Reserve(p) \/ Pushing(p)
  \/ \E c \in Consumer : Popping(c)

\* A thread inside push or pop keeps running, and consumers keep popping.
Fairness ==
  /\ \A p \in Producer : WF_vars(Pushing(p))
  /\ \A c \in Consumer : WF_vars(Popping(c))

Spec == Init /\ [][Next]_vars /\ Fairness

-----------------------------------------------------------------------------
(* Properties *)

TypeOK ==
  /\ seq \in [0..CAP - 1 -> Nat]
  /\ item \in [0..CAP - 1 -> {Nothing} \cup [from : Producer, number : 1..MaxPush]]
  /\ head_ \in Nat /\ tail_ \in Nat /\ head_ <= tail_
  /\ sent \in [Producer -> 0..MaxPush]
  /\ ppc \in [Producer -> {"idle", "reserved", "filled"}]
  /\ ppos \in [Producer -> Nat]
  /\ cpc \in [Consumer -> {"idle", "probe", "claim", "claimed"}]
  /\ cpos \in [Consumer -> Nat]
  /\ got \in [Consumer -> {Nothing} \cup [from : Producer, number : 1..MaxPush]]

\* The place of a push shows its message from the reservation on, though the
\* slot is filled later; a claimed message has been got.
PlaceAt(pos) ==
  IF \E p \in Producer : ppc[p] # "idle" /\ ppos[p] = pos
  THEN LET p == CHOOSE q \in Producer : ppc[q] # "idle" /\ ppos[q] = pos
       IN Message(p, sent[p])
  ELSE item[Slot(pos)]

Abstract == INSTANCE Mailbox WITH
  places <- [i \in 1..tail_ - head_ |-> PlaceAt(head_ + i - 1)],
  open <- {p \in Producer : ppc[p] # "idle"},
  got <- [c \in Consumer |-> IF cpc[c] = "claimed" THEN item[Slot(cpos[c])] ELSE got[c]]

\* The ring keeps the promise of Mailbox: in order, each message once and
\* unchanged, and empty only when the first place was not published.
KeepsPromise == Abstract!Spec

\* A push into a full ring spins, but not for ever: its slot comes round.
EveryPushLands == \A p \in Producer : ppc[p] = "reserved" ~> ppc[p] = "idle"

\* A slot is written by one producer at a time and never while a consumer has
\* claimed it.
SlotOwned ==
  /\ \A p, q \in Producer :
       p # q /\ ppc[p] = "filled" /\ ppc[q] = "filled" => Slot(ppos[p]) # Slot(ppos[q])
  /\ \A p \in Producer, c \in Consumer :
       ppc[p] = "filled" /\ cpc[c] = "claimed" => Slot(ppos[p]) # Slot(cpos[c])
=============================================================================
