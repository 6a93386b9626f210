--------------------------- MODULE RingQueueProofs ---------------------------
(***************************************************************************)
(* Proofs about RingQueue, for any number of threads, any size of the ring  *)
(* from two slots up and any number of messages: slots are never shared and *)
(* the ring keeps the promise of Mailbox.                                   *)
(***************************************************************************)
EXTENDS RingQueue, SequenceTheorems, TLAPS

Open(p) == ppc[p] # "idle"
Owned(pos) == \E p \in Producer : Open(p) /\ ppos[p] = pos
SeqAt(pos) == seq[Slot(pos)]
Claimed(pos) == \E c \in Consumer : cpc[c] = "claimed" /\ cpos[c] = pos

\* A push under way has a position of its own between head_ and tail_; its slot
\* has not gone past that position.
PushesPlaced ==
  /\ \A p \in Producer : Open(p) =>
       /\ head_ <= ppos[p] /\ ppos[p] < tail_ /\ sent[p] >= 1
       /\ ppc[p] = "reserved" => SeqAt(ppos[p]) <= ppos[p]
       /\ ppc[p] = "filled" => /\ SeqAt(ppos[p]) = ppos[p]
                               /\ item[Slot(ppos[p])] = Message(p, sent[p])
  /\ \A p, q \in Producer : Open(p) /\ Open(q) /\ ppos[p] = ppos[q] => p = q

\* A position between them without a push has been published, and holds a
\* message of an earlier push.
RestPublished ==
  \A pos \in Nat : head_ <= pos /\ pos < tail_ /\ ~Owned(pos) =>
    /\ SeqAt(pos) = pos + 1
    /\ \E q \in Producer, n \in 1..MaxPush :
         /\ item[Slot(pos)] = Message(q, n)
         /\ n <= sent[q] /\ (Open(q) => n < sent[q])

\* A slot is at most at the next position it will be used for ...
NotAhead == \A pos \in Nat : tail_ <= pos => SeqAt(pos) <= pos

\* ... and behind head_ it is released for a later round, unless a pop is
\* about to.
PassedReleased ==
  \A pos \in Nat : pos < head_ => Claimed(pos) \/ SeqAt(pos) >= pos + CAP

\* Pops that have claimed a position are past it, each alone; the others have
\* read a head_ that was true once, and what they saw published still is unless
\* head_ has moved.
PopsPlaced ==
  /\ \A c \in Consumer :
       /\ cpc[c] = "claimed" => cpos[c] < head_ /\ SeqAt(cpos[c]) = cpos[c] + 1
       /\ cpc[c] \in {"probe", "claim"} => cpos[c] <= head_
       /\ cpc[c] = "claim" /\ cpos[c] = head_ => SeqAt(cpos[c]) = cpos[c] + 1
  /\ \A c, d \in Consumer :
       cpc[c] = "claimed" /\ cpc[d] = "claimed" /\ cpos[c] = cpos[d] => c = d

IInv == /\ TypeOK /\ PushesPlaced /\ RestPublished /\ NotAhead
        /\ PassedReleased /\ PopsPlaced

-----------------------------------------------------------------------------
(* Slots *)

\* Every position has a slot.
LEMMA SlotRange == \A a \in Nat : Slot(a) \in 0..CAP - 1 /\ Slot(a) <= a
<1> SUFFICES ASSUME NEW a \in Nat PROVE Slot(a) \in 0..CAP - 1 /\ Slot(a) <= a
  OBVIOUS
<1>1. a = CAP * (a \div CAP) + Slot(a) /\ a \div CAP \in Nat /\ Slot(a) \in 0..CAP - 1
  BY CapAssumption DEF Slot
<1>2. CAP * (a \div CAP) \in Nat
  BY <1>1, CapAssumption
<1> QED BY <1>1, <1>2

\* Two positions of one slot are at least a round apart.
LEMMA RoundApart ==
  ASSUME NEW a \in Nat, NEW b \in Nat, a < b, Slot(a) = Slot(b)
  PROVE  b >= a + CAP
<1>1. /\ a = CAP * (a \div CAP) + Slot(a)
      /\ b = CAP * (b \div CAP) + Slot(b)
      /\ a \div CAP \in Nat /\ b \div CAP \in Nat
  BY CapAssumption DEF Slot
<1>2. b - a = CAP * ((b \div CAP) - (a \div CAP))
  BY <1>1, CapAssumption, SlotRange
<1>3. (b \div CAP) - (a \div CAP) >= 1
  BY <1>1, <1>2, CapAssumption
<1> QED BY <1>1, <1>2, <1>3, CapAssumption

-----------------------------------------------------------------------------
(* The invariant *)

\* Nothing is under way in an empty ring.
LEMMA InitInv == Init => IInv
<1> SUFFICES ASSUME Init PROVE IInv
  OBVIOUS
<1> USE CapAssumption DEF Init
<1>1. \A pos \in Nat : SeqAt(pos) <= pos
  BY SlotRange DEF SeqAt
<1> QED
  BY <1>1 DEF IInv, TypeOK, PushesPlaced, RestPublished, NotAhead, PassedReleased,
              PopsPlaced, Open

\* A push takes the place at tail_.
LEMMA ReserveInv ==
  ASSUME IInv, NEW p \in Producer, Reserve(p) PROVE IInv'
<1> USE CapAssumption DEF Reserve, consumerVars, Open, SeqAt
<1>1. TypeOK'
  <2>1. sent[p] + 1 \in 0..MaxPush /\ tail_ + 1 \in Nat /\ head_ <= tail_ + 1
    BY DEF IInv, TypeOK
  <2> QED BY <2>1 DEF IInv, TypeOK
<1>2. PushesPlaced'
  <2>1. SeqAt(tail_) <= tail_
    BY DEF IInv, TypeOK, NotAhead
  <2>2. \A q \in Producer : q # p =>
          /\ ppc'[q] = ppc[q] /\ ppos'[q] = ppos[q] /\ sent'[q] = sent[q]
          /\ Open(q) => ppos[q] < tail_
    BY DEF IInv, TypeOK, PushesPlaced
  <2>3. ppc'[p] = "reserved" /\ ppos'[p] = tail_ /\ sent'[p] = sent[p] + 1 /\ sent[p] \in Nat
    BY DEF IInv, TypeOK
  <2>4. \A q, r \in Producer : Open(q)' /\ Open(r)' /\ ppos'[q] = ppos'[r] => q = r
    BY <2>2, <2>3 DEF IInv, TypeOK, PushesPlaced
  <2>5. \A q \in Producer : Open(q)' =>
          /\ head_ <= ppos'[q] /\ ppos'[q] < tail_ + 1 /\ sent'[q] >= 1
          /\ ppc'[q] = "reserved" => SeqAt(ppos'[q]) <= ppos'[q]
          /\ ppc'[q] = "filled" => /\ SeqAt(ppos'[q]) = ppos'[q]
                                   /\ item[Slot(ppos'[q])] = Message(q, sent'[q])
    <3> TAKE q \in Producer
    <3>1. CASE q = p
      BY <2>1, <2>3, <3>1 DEF IInv, TypeOK
    <3>2. CASE q # p
      BY <2>2, <3>2 DEF IInv, TypeOK, PushesPlaced
    <3> QED BY <3>1, <3>2
  <2> QED BY <2>4, <2>5 DEF PushesPlaced
<1>3. RestPublished'
  <2> SUFFICES ASSUME NEW pos \in Nat, head_ <= pos, pos < tail_', ~Owned(pos)'
               PROVE  /\ SeqAt(pos)' = pos + 1
                      /\ \E q \in Producer, n \in 1..MaxPush :
                           /\ item'[Slot(pos)] = Message(q, n)
                           /\ n <= sent'[q] /\ (Open(q)' => n < sent'[q])
    BY DEF RestPublished
  <2>1. pos # tail_ /\ ~Owned(pos)
    BY DEF IInv, TypeOK, Owned
  <2>2. /\ SeqAt(pos) = pos + 1
        /\ \E q \in Producer, n \in 1..MaxPush :
             /\ item[Slot(pos)] = Message(q, n)
             /\ n <= sent[q] /\ (Open(q) => n < sent[q])
    BY <2>1 DEF IInv, TypeOK, RestPublished
  <2>3. PICK q \in Producer, n \in 1..MaxPush :
          item[Slot(pos)] = Message(q, n) /\ n <= sent[q] /\ (Open(q) => n < sent[q])
    BY <2>2
  <2>4. n <= sent'[q] /\ (Open(q)' => n < sent'[q])
    BY <2>3 DEF IInv, TypeOK
  <2> QED BY <2>2, <2>3, <2>4
<1>4. NotAhead' /\ PassedReleased' /\ PopsPlaced'
  BY DEF IInv, TypeOK, NotAhead, PassedReleased, PopsPlaced, Claimed
<1> QED BY <1>1, <1>2, <1>3, <1>4 DEF IInv

\* A filled slot is not one that another thread relies on.
LEMMA FillInv ==
  ASSUME IInv, NEW p \in Producer, Fill(p) PROVE IInv'
<1> USE CapAssumption DEF Fill, consumerVars, Open, SeqAt, SlotFree
<1>1. TypeOK'
  <2>1. sent[p] \in 1..MaxPush
    BY DEF IInv, TypeOK, PushesPlaced
  <2>2. Message(p, sent[p]) \in [from : Producer, number : 1..MaxPush]
    BY <2>1 DEF Message
  <2> QED BY <2>2, SlotRange DEF IInv, TypeOK
<1>2. PushesPlaced'
  <2>1. Slot(ppos[p]) \in 0..CAP - 1
    BY SlotRange DEF IInv, TypeOK
  <2>2. /\ ppc'[p] = "filled" /\ SeqAt(ppos[p]) = ppos[p] /\ Open(p)
        /\ item'[Slot(ppos[p])] = Message(p, sent[p])
    BY <2>1 DEF IInv, TypeOK
  <2>3. \A q \in Producer : q # p => ppc'[q] = ppc[q]
    BY DEF IInv, TypeOK
  <2>4. \A q \in Producer : q # p /\ ppc[q] = "filled" => Slot(ppos[q]) # Slot(ppos[p])
    BY <2>2 DEF IInv, PushesPlaced
  <2>5. \A a \in 0..CAP - 1 : a # Slot(ppos[p]) => item'[a] = item[a]
    BY DEF IInv, TypeOK
  <2>6. \A q \in Producer : Slot(ppos[q]) \in 0..CAP - 1
    BY SlotRange DEF IInv, TypeOK
  <2> QED BY <2>2, <2>3, <2>4, <2>5, <2>6 DEF IInv, PushesPlaced
<1>3. RestPublished'
  <2> SUFFICES ASSUME NEW pos \in Nat, head_ <= pos, pos < tail_, ~Owned(pos)'
               PROVE  /\ SeqAt(pos)' = pos + 1
                      /\ \E q \in Producer, n \in 1..MaxPush :
                           /\ item'[Slot(pos)] = Message(q, n)
                           /\ n <= sent'[q] /\ (Open(q)' => n < sent'[q])
    BY DEF RestPublished
  <2>1. ~Owned(pos)
    BY DEF IInv, TypeOK, Owned
  <2>2. /\ SeqAt(pos) = pos + 1
        /\ \E q \in Producer, n \in 1..MaxPush :
             /\ item[Slot(pos)] = Message(q, n)
             /\ n <= sent[q] /\ (Open(q) => n < sent[q])
    BY <2>1 DEF IInv, TypeOK, RestPublished
  <2>3. Slot(pos) # Slot(ppos[p])
    BY <2>2, RoundApart DEF IInv, TypeOK
  <2> QED BY <2>2, <2>3, SlotRange DEF IInv, TypeOK
<1>4. NotAhead' /\ PassedReleased' /\ PopsPlaced'
  BY DEF IInv, TypeOK, NotAhead, PassedReleased, PopsPlaced, Claimed
<1> QED BY <1>1, <1>2, <1>3, <1>4 DEF IInv

\* Publishing moves one slot on by one, to a value only this position has.
LEMMA PublishInv ==
  ASSUME IInv, NEW p \in Producer, Publish(p) PROVE IInv'
<1> USE CapAssumption DEF Publish, consumerVars, Open, SeqAt
<1>1. /\ ppos[p] \in Nat /\ SeqAt(ppos[p]) = ppos[p] /\ head_ <= ppos[p] /\ ppos[p] < tail_
      /\ item[Slot(ppos[p])] = Message(p, sent[p]) /\ sent[p] \in 1..MaxPush
  BY DEF IInv, TypeOK, PushesPlaced
<1>2. \A pos \in Nat :
        SeqAt(pos)' = IF Slot(pos) = Slot(ppos[p]) THEN SeqAt(pos) + 1 ELSE SeqAt(pos)
  BY <1>1, SlotRange DEF IInv, TypeOK
<1>3. TypeOK'
  <2>1. ppos[p] + 1 \in Nat
    BY <1>1
  <2> QED BY <2>1 DEF IInv, TypeOK
<1>4. PushesPlaced'
  <2>1. \A q \in Producer : Open(q)' => SeqAt(ppos[q])' <= ppos[q]
    BY <1>1, <1>2, RoundApart DEF IInv, TypeOK, PushesPlaced
  <2>2. \A q \in Producer : ppc'[q] = "filled" =>
           /\ SeqAt(ppos[q])' = ppos[q] /\ item'[Slot(ppos[q])] = Message(q, sent'[q])
    BY <1>1, <1>2 DEF IInv, TypeOK, PushesPlaced
  <2> QED BY <2>1, <2>2 DEF IInv, TypeOK, PushesPlaced
<1>5. RestPublished'
  <2> SUFFICES ASSUME NEW pos \in Nat, head_ <= pos, pos < tail_, ~Owned(pos)'
               PROVE  /\ SeqAt(pos)' = pos + 1
                      /\ \E q \in Producer, n \in 1..MaxPush :
                           /\ item'[Slot(pos)] = Message(q, n)
                           /\ n <= sent'[q] /\ (Open(q)' => n < sent'[q])
    BY DEF RestPublished
  <2>1. CASE pos = ppos[p]
    BY <1>1, <1>2, <2>1 DEF IInv, TypeOK
  <2>2. CASE pos # ppos[p]
    <3>1. ~Owned(pos)
      BY <2>2 DEF IInv, TypeOK, Owned
    <3>2. /\ SeqAt(pos) = pos + 1
          /\ \E q \in Producer, n \in 1..MaxPush :
               /\ item[Slot(pos)] = Message(q, n)
               /\ n <= sent[q] /\ (Open(q) => n < sent[q])
      BY <3>1 DEF IInv, TypeOK, RestPublished
    <3>3. Slot(pos) # Slot(ppos[p])
      BY <1>1, <3>2, RoundApart DEF IInv, TypeOK
    <3> QED BY <1>2, <3>2, <3>3 DEF IInv, TypeOK
  <2> QED BY <2>1, <2>2
<1>6. NotAhead'
  <2> SUFFICES ASSUME NEW pos \in Nat, tail_ <= pos PROVE SeqAt(pos)' <= pos
    BY DEF NotAhead
  <2> QED BY <1>1, <1>2 DEF IInv, TypeOK, NotAhead
<1>7. PassedReleased'
  <2> SUFFICES ASSUME NEW pos \in Nat, pos < head_ PROVE Claimed(pos)' \/ SeqAt(pos)' >= pos + CAP
    BY DEF PassedReleased
  <2>1. SeqAt(pos) \in Nat
    BY SlotRange DEF IInv, TypeOK
  <2>2. Claimed(pos) => Claimed(pos)'
    BY DEF Claimed
  <2> QED BY <1>2, <2>1, <2>2 DEF IInv, TypeOK, PassedReleased
<1>8. PopsPlaced'
  <2>1. \A c \in Consumer : SeqAt(cpos[c]) = cpos[c] + 1 => Slot(cpos[c]) # Slot(ppos[p])
    BY <1>1, RoundApart DEF IInv, TypeOK
  <2> QED BY <1>2, <2>1 DEF IInv, TypeOK, PopsPlaced
<1> QED BY <1>3, <1>4, <1>5, <1>6, <1>7, <1>8 DEF IInv

\* A pop takes the position at head_, which it saw published.
LEMMA ClaimInv ==
  ASSUME IInv, NEW c \in Consumer, Claim(c)
  PROVE  IInv' /\ head_ < tail_ /\ ~Owned(head_)
<1> USE CapAssumption DEF Claim, producerVars, Open, SeqAt
<1>1. SeqAt(head_) = head_ + 1 /\ head_ < tail_ /\ ~Owned(head_)
  <2>1. SeqAt(head_) = head_ + 1 /\ head_ \in Nat /\ tail_ \in Nat
    BY DEF IInv, TypeOK, PopsPlaced
  <2>2. head_ < tail_
    BY <2>1 DEF IInv, NotAhead
  <2>3. ~Owned(head_)
    <3> SUFFICES ASSUME NEW p \in Producer, Open(p), ppos[p] = head_ PROVE FALSE
      BY DEF Owned
    <3>1. ppc[p] \in {"reserved", "filled"}
      BY DEF IInv, TypeOK
    <3> QED BY <2>1, <3>1 DEF IInv, PushesPlaced
  <2> QED BY <2>1, <2>2, <2>3
<1>2. TypeOK'
  <2>1. head_' = head_ + 1 /\ head_ \in Nat /\ tail_ \in Nat
    BY DEF IInv, TypeOK
  <2>2. head_' \in Nat /\ head_' <= tail_
    BY <1>1, <2>1
  <2>3. cpc' \in [Consumer -> {"idle", "probe", "claim", "claimed"}]
    BY DEF IInv, TypeOK
  <2> QED BY <2>2, <2>3 DEF IInv, TypeOK
<1>3. PushesPlaced'
  BY <1>1 DEF IInv, TypeOK, PushesPlaced, Owned
<1>4. RestPublished' /\ NotAhead'
  <2>1. \A pos \in Nat : head_' <= pos => head_ <= pos
    BY DEF IInv, TypeOK
  <2>2. \A pos \in Nat : Owned(pos)' = Owned(pos)
    BY DEF Owned
  <2> QED BY <2>1, <2>2 DEF IInv, RestPublished, NotAhead
<1>5. PassedReleased'
  <2>1. \A pos \in Nat : Claimed(pos) => Claimed(pos)'
    BY DEF IInv, TypeOK, Claimed
  <2>2. \A pos \in Nat : pos = head_ => Claimed(pos)'
    BY DEF IInv, TypeOK, Claimed
  <2>3. \A pos \in Nat : pos < head_' => pos < head_ \/ pos = head_
    BY DEF IInv, TypeOK
  <2> QED BY <2>1, <2>2, <2>3 DEF IInv, PassedReleased
<1>6. PopsPlaced'
  <2>1. cpc'[c] = "claimed" /\ head_' = head_ + 1 /\ cpos[c] = head_ /\ head_ \in Nat
    BY DEF IInv, TypeOK
  <2>2. \A d \in Consumer : d # c => cpc'[d] = cpc[d]
    BY DEF IInv, TypeOK
  <2>3. \A d \in Consumer : cpos[d] \in Nat
    BY DEF IInv, TypeOK
  <2>4. \A d \in Consumer : cpc[d] = "claimed" => cpos[d] # cpos[c]
    BY <2>1, <2>3 DEF IInv, PopsPlaced
  <2>5. \A d, e \in Consumer :
          cpc'[d] = "claimed" /\ cpc'[e] = "claimed" /\ cpos[d] = cpos[e] => d = e
    BY <2>1, <2>2, <2>4 DEF IInv, PopsPlaced
  <2>6. \A d \in Consumer :
          /\ cpc'[d] = "claimed" => cpos[d] < head_' /\ SeqAt(cpos[d]) = cpos[d] + 1
          /\ cpc'[d] \in {"probe", "claim"} => cpos[d] <= head_'
          /\ cpc'[d] = "claim" /\ cpos[d] = head_' => SeqAt(cpos[d]) = cpos[d] + 1
    <3> TAKE d \in Consumer
    <3>1. CASE d = c
      BY <1>1, <2>1, <3>1
    <3>2. CASE d # c
      BY <2>1, <2>2, <2>3, <3>2 DEF IInv, PopsPlaced
    <3> QED BY <3>1, <3>2
  <2> QED BY <2>5, <2>6 DEF PopsPlaced
<1> QED BY <1>1, <1>2, <1>3, <1>4, <1>5, <1>6 DEF IInv

\* Releasing moves one slot on to its next round, past every position but the
\* next one it will be used for.
LEMMA ReleaseInv ==
  ASSUME IInv, NEW c \in Consumer, Release(c) PROVE IInv'
<1> USE CapAssumption DEF Release, producerVars, Open, SeqAt
<1>1. cpos[c] \in Nat /\ SeqAt(cpos[c]) = cpos[c] + 1 /\ cpos[c] < head_
  BY DEF IInv, TypeOK, PopsPlaced
<1>2. \A pos \in Nat :
        SeqAt(pos)' = IF Slot(pos) = Slot(cpos[c]) THEN cpos[c] + CAP ELSE SeqAt(pos)
  BY <1>1, SlotRange DEF IInv, TypeOK
<1>3. TypeOK'
  <2>1. cpos[c] + CAP \in Nat /\ Slot(cpos[c]) \in 0..CAP - 1
    BY <1>1, SlotRange
  <2> QED BY <2>1 DEF IInv, TypeOK
<1>4. PushesPlaced'
  <2>1. \A q \in Producer : Open(q) => SeqAt(ppos[q])' <= ppos[q]
    BY <1>1, <1>2, RoundApart DEF IInv, TypeOK, PushesPlaced
  <2>2. \A q \in Producer : ppc[q] = "filled" => Slot(ppos[q]) # Slot(cpos[c])
    <3> SUFFICES ASSUME NEW q \in Producer, ppc[q] = "filled", Slot(ppos[q]) = Slot(cpos[c])
                 PROVE  FALSE
      OBVIOUS
    <3>1. SeqAt(ppos[q]) = ppos[q] /\ head_ <= ppos[q] /\ ppos[q] \in Nat
      BY DEF IInv, TypeOK, PushesPlaced
    <3>2. ppos[q] = cpos[c] + 1 /\ CAP \in Nat /\ CAP > 1
      BY <1>1, <3>1
    <3>3. ppos[q] >= cpos[c] + CAP
      BY <1>1, <3>1, <3>2, RoundApart
    <3> QED BY <1>1, <3>2, <3>3
  <2> QED BY <1>2, <2>1, <2>2 DEF IInv, TypeOK, PushesPlaced
<1>5. RestPublished'
  <2>1. \A pos \in Nat : head_ <= pos /\ SeqAt(pos) = pos + 1 => SeqAt(pos)' = pos + 1
    BY <1>1, <1>2 DEF IInv, TypeOK
  <2> QED BY <2>1 DEF IInv, TypeOK, RestPublished, Owned
<1>6. NotAhead'
  <2> SUFFICES ASSUME NEW pos \in Nat, tail_ <= pos PROVE SeqAt(pos)' <= pos
    BY DEF NotAhead
  <2> QED BY <1>1, <1>2, RoundApart DEF IInv, TypeOK, NotAhead
<1>7. PassedReleased'
  <2> SUFFICES ASSUME NEW pos \in Nat, pos < head_, ~Claimed(pos)' PROVE SeqAt(pos)' >= pos + CAP
    BY DEF PassedReleased
  <2>1. CASE pos = cpos[c]
    BY <1>1, <1>2, <2>1
  <2>2. CASE pos # cpos[c]
    <3>1. ~Claimed(pos)
      BY <2>2 DEF IInv, TypeOK, Claimed
    <3> QED BY <1>1, <1>2, <3>1 DEF IInv, TypeOK, PassedReleased
  <2> QED BY <2>1, <2>2
<1>8. PopsPlaced'
  <2>1. \A d \in Consumer :
          d # c /\ SeqAt(cpos[d]) = cpos[d] + 1 /\ (cpc[d] = "claimed" \/ cpos[d] = head_)
            => SeqAt(cpos[d])' = cpos[d] + 1
    BY <1>1, <1>2 DEF IInv, TypeOK, PopsPlaced
  <2> QED BY <1>2, <2>1 DEF IInv, TypeOK, PopsPlaced
<1> QED BY <1>3, <1>4, <1>5, <1>6, <1>7, <1>8 DEF IInv

\* A pop that reads head_ or a slot changes only itself.
Looking(c) ==
  LoadHead(c) \/ ProbeFull(c) \/ ProbeEmpty(c) \/ ProbePassed(c) \/ ClaimFails(c)

\* A consumer that looks at the head changes nothing but its own place.
LEMMA LookingInv ==
  ASSUME IInv, NEW c \in Consumer, Looking(c) PROVE IInv'
<1> USE DEF Looking, LoadHead, ProbeFull, ProbeEmpty, ProbePassed, ClaimFails, Dif,
            producerVars, Open, SeqAt
<1>1. TypeOK'
  BY DEF IInv, TypeOK
<1>2. PushesPlaced' /\ RestPublished' /\ NotAhead'
  <2>1. UNCHANGED <<seq, item, head_, tail_, sent, ppc, ppos>>
    OBVIOUS
  <2> QED BY <2>1 DEF IInv, PushesPlaced, RestPublished, NotAhead, Owned
<1>3. PassedReleased'
  BY DEF IInv, TypeOK, PassedReleased, Claimed
<1>4. PopsPlaced'
  <2>0. seq' = seq /\ head_' = head_ /\ head_ \in Nat
    BY DEF IInv, TypeOK
  <2>1. \A d \in Consumer : d # c => cpc'[d] = cpc[d] /\ cpos'[d] = cpos[d]
    BY DEF IInv, TypeOK
  <2>2. /\ cpc'[c] # "claimed"
        /\ cpc'[c] = "probe" => cpos'[c] <= head_
        /\ cpc'[c] = "claim" => cpos'[c] <= head_ /\ seq[Slot(cpos'[c])] = cpos'[c] + 1
    <3>1. cpos[c] \in Nat /\ SeqAt(cpos[c]) \in Nat
      BY SlotRange DEF IInv, TypeOK
    <3> QED BY <3>1 DEF IInv, TypeOK, PopsPlaced
  <2> HIDE DEF Looking
  <2> QED BY <2>0, <2>1, <2>2 DEF IInv, PopsPlaced
<1> QED BY <1>1, <1>2, <1>3, <1>4 DEF IInv

\* Every step keeps the invariant.
LEMMA NextInv == IInv /\ [Next]_vars => IInv'
<1> SUFFICES ASSUME IInv, [Next]_vars PROVE IInv'
  OBVIOUS
<1>1. CASE UNCHANGED vars
  BY <1>1 DEF vars, IInv, TypeOK, PushesPlaced, RestPublished, NotAhead, PassedReleased,
              PopsPlaced, Open, Owned, SeqAt, Claimed
<1>2. ASSUME NEW p \in Producer, Reserve(p) PROVE IInv'
  BY <1>2, ReserveInv
<1>3. ASSUME NEW p \in Producer, Fill(p) PROVE IInv'
  BY <1>3, FillInv
<1>4. ASSUME NEW p \in Producer, Publish(p) PROVE IInv'
  BY <1>4, PublishInv
<1>5. ASSUME NEW c \in Consumer, Claim(c) PROVE IInv'
  BY <1>5, ClaimInv
<1>6. ASSUME NEW c \in Consumer, Release(c) PROVE IInv'
  BY <1>6, ReleaseInv
<1>7. ASSUME NEW c \in Consumer, Looking(c) PROVE IInv'
  BY <1>7, LookingInv
<1> QED BY <1>1, <1>2, <1>3, <1>4, <1>5, <1>6, <1>7 DEF Next, Pushing, Popping, Looking

\* The invariant holds in every reachable state.
LEMMA Inductive == Spec => []IInv
BY InitInv, NextInv, PTL DEF Spec

\* Positions, slots and thread states keep their types, and head_ never passes
\* tail_.
THEOREM TypeCorrect == Spec => []TypeOK
BY Inductive, PTL DEF IInv

\* No slot is ever written by two pushes, or by one while a pop moves its
\* message out.
THEOREM SlotsOwned == Spec => []SlotOwned
<1>1. IInv => SlotOwned
  <2> SUFFICES ASSUME IInv PROVE SlotOwned
    OBVIOUS
  <2>1. ASSUME NEW p \in Producer, NEW q \in Producer, p # q,
               ppc[p] = "filled", ppc[q] = "filled"
        PROVE  Slot(ppos[p]) # Slot(ppos[q])
    BY <2>1 DEF IInv, PushesPlaced, Open, SeqAt
  <2>2. ASSUME NEW p \in Producer, NEW c \in Consumer,
               ppc[p] = "filled", cpc[c] = "claimed", Slot(ppos[p]) = Slot(cpos[c])
        PROVE  FALSE
    <3>1. ppos[p] \in Nat /\ cpos[c] \in Nat /\ ppos[p] = cpos[c] + 1
      BY <2>2 DEF IInv, TypeOK, PushesPlaced, PopsPlaced, Open, SeqAt
    <3> QED BY <2>2, <3>1, RoundApart, CapAssumption
  <2> QED BY <2>1, <2>2 DEF SlotOwned
<1> QED BY Inductive, <1>1, PTL

-----------------------------------------------------------------------------
(* The promise of Mailbox *)

\* A place shows the message of the push that owns it ...
OwnedPlaces ==
  \A p \in Producer : Open(p) => PlaceAt(ppos[p]) = Message(p, sent[p])

\* ... and otherwise what its slot holds.
RestPlaces == \A pos \in Nat : ~Owned(pos) => PlaceAt(pos) = item[Slot(pos)]

\* The invariant tells which places of the queue are whose, ...
LEMMA PlaceFacts == IInv => OwnedPlaces /\ RestPlaces
<1> SUFFICES ASSUME IInv PROVE OwnedPlaces /\ RestPlaces
  OBVIOUS
<1>1. ASSUME NEW p \in Producer, Open(p) PROVE PlaceAt(ppos[p]) = Message(p, sent[p])
  <2>1. (CHOOSE q \in Producer : ppc[q] # "idle" /\ ppos[q] = ppos[p]) = p
    BY <1>1 DEF IInv, PushesPlaced, Open
  <2> QED BY <1>1, <2>1 DEF PlaceAt, Open
<1>2. RestPlaces
  BY DEF RestPlaces, PlaceAt, Owned, Open
<1> QED BY <1>1, <1>2 DEF OwnedPlaces

\* ... before a step as after it.
LEMMA PlaceFactsPrimed == (IInv => OwnedPlaces /\ RestPlaces)'
BY PlaceFacts, PTL

Messages == [from : Producer, number : 1..MaxPush]

\* What Mailbox sees of the ring.
Places == [i \in 1..tail_ - head_ |-> PlaceAt(head_ + i - 1)]
OpenPushes == {p \in Producer : ppc[p] # "idle"}
GotShown == [c \in Consumer |-> IF cpc[c] = "claimed" THEN item[Slot(cpos[c])] ELSE got[c]]

PlacesShape ==
  /\ head_ \in Nat /\ tail_ \in Nat /\ head_ <= tail_
  /\ \A pos \in Nat : head_ <= pos /\ pos < tail_ => PlaceAt(pos) \in Messages
  /\ Places \in Seq(Messages) /\ Len(Places) = tail_ - head_
  /\ \A i \in 1..tail_ - head_ : Places[i] = PlaceAt(head_ + i - 1)

\* The places the mailbox sees are a sequence, ...
LEMMA PlacesAreSequence == IInv => PlacesShape
<1> SUFFICES ASSUME IInv PROVE PlacesShape
  OBVIOUS
<1>1. head_ \in Nat /\ tail_ \in Nat /\ head_ <= tail_ /\ tail_ - head_ \in Nat
  BY DEF IInv, TypeOK
<1>2. ASSUME NEW pos \in Nat, head_ <= pos, pos < tail_ PROVE PlaceAt(pos) \in Messages
  <2>1. CASE Owned(pos)
    <3>1. PICK p \in Producer : Open(p) /\ ppos[p] = pos
      BY <2>1 DEF Owned
    <3>2. PlaceAt(pos) = Message(p, sent[p]) /\ sent[p] \in 1..MaxPush
      BY <3>1, PlaceFacts DEF OwnedPlaces, IInv, TypeOK, PushesPlaced
    <3> QED BY <3>2 DEF Message, Messages
  <2>2. CASE ~Owned(pos)
    <3>1. PlaceAt(pos) = item[Slot(pos)]
      BY <2>2, PlaceFacts DEF RestPlaces
    <3>2. PICK q \in Producer, n \in 1..MaxPush : item[Slot(pos)] = Message(q, n)
      BY <1>2, <2>2 DEF IInv, RestPublished
    <3> QED BY <3>1, <3>2 DEF Message, Messages
  <2> QED BY <2>1, <2>2
<1>3. \A i \in 1..tail_ - head_ : PlaceAt(head_ + i - 1) \in Messages
  BY <1>1, <1>2
<1>4. Places \in Seq(Messages) /\ Len(Places) = tail_ - head_
  BY <1>1, <1>3 DEF Places
<1>5. \A i \in 1..tail_ - head_ : Places[i] = PlaceAt(head_ + i - 1)
  BY DEF Places
<1> QED BY <1>1, <1>2, <1>4, <1>5 DEF PlacesShape

\* ... before a step as after it.
LEMMA PlacesAreSequencePrimed == (IInv => PlacesShape)'
BY PlacesAreSequence, PTL

\* While head_ and tail_ stay, the sequence changes only where a place does.
LEMMA PlacesKept ==
  ASSUME IInv, IInv', head_' = head_, tail_' = tail_,
         \A pos \in Nat : head_ <= pos /\ pos < tail_ => PlaceAt(pos)' = PlaceAt(pos)
  PROVE  Places' = Places
<1>1. /\ PlacesShape /\ PlacesShape'
  BY PlacesAreSequence, PlacesAreSequencePrimed
<1>2. \A i \in 1..tail_ - head_ : Places'[i] = Places[i]
  <2> SUFFICES ASSUME NEW i \in 1..tail_ - head_ PROVE Places'[i] = Places[i]
    OBVIOUS
  <2>1. PICK pos \in Nat : pos = head_ + i - 1 /\ head_ <= pos /\ pos < tail_
    BY <1>1 DEF PlacesShape
  <2>2. Places[i] = PlaceAt(pos)
    BY <2>1 DEF Places
  <2>3. Places'[i] = PlaceAt(pos)'
    BY <2>1 DEF Places
  <2> QED BY <2>1, <2>2, <2>3
<1> QED BY <1>1, <1>2, SeqEqual DEF PlacesShape

\* A place shows the same message while its push goes on, or its slot keeps it.
LEMMA PlaceKept ==
  ASSUME IInv, IInv', NEW pos \in Nat,
         \/ \E q \in Producer : /\ Open(q) /\ ppos[q] = pos
                                /\ Open(q)' /\ ppos'[q] = pos /\ sent'[q] = sent[q]
         \/ ~Owned(pos) /\ ~Owned(pos)' /\ item'[Slot(pos)] = item[Slot(pos)]
  PROVE  PlaceAt(pos)' = PlaceAt(pos)
<1>1. CASE ~Owned(pos) /\ ~Owned(pos)' /\ item'[Slot(pos)] = item[Slot(pos)]
  BY <1>1, PlaceFacts, PlaceFactsPrimed DEF RestPlaces
<1>2. ASSUME NEW q \in Producer, Open(q), ppos[q] = pos, Open(q)', ppos'[q] = pos,
             sent'[q] = sent[q]
      PROVE  PlaceAt(pos)' = PlaceAt(pos)
  <2>1. PlaceAt(pos) = Message(q, sent[q])
    BY <1>2, PlaceFacts DEF OwnedPlaces
  <2>2. PlaceAt(pos)' = Message(q, sent'[q])
    BY <1>2, PlaceFactsPrimed DEF OwnedPlaces
  <2> QED BY <1>2, <2>1, <2>2
<1> QED BY <1>1, <1>2

\* A step of the ring seen by Mailbox: none at all unless a place is reserved,
\* published, claimed or found empty.
LEMMA ReserveMaps ==
  ASSUME IInv, IInv', NEW p \in Producer, Reserve(p) PROVE Abstract!Reserve(p)
<1> DEFINE m == Message(p, sent[p] + 1)
<1> USE DEF Reserve, consumerVars
<1>1. PlacesShape /\ PlacesShape' /\ head_' = head_ /\ tail_' = tail_ + 1
  BY PlacesAreSequence, PlacesAreSequencePrimed
<1>2. ASSUME NEW pos \in Nat, head_ <= pos, pos < tail_ PROVE PlaceAt(pos)' = PlaceAt(pos)
  <2>1. CASE Owned(pos)
    <3>1. PICK q \in Producer : Open(q) /\ ppos[q] = pos
      BY <2>1 DEF Owned
    <3>2. Open(q)' /\ ppos'[q] = pos /\ sent'[q] = sent[q]
      BY <3>1 DEF IInv, TypeOK, Open
    <3> QED BY <3>1, <3>2, PlaceKept
  <2>2. CASE ~Owned(pos)
    <3>1. ~Owned(pos)' /\ item' = item
      BY <1>2, <2>2 DEF IInv, TypeOK, Owned, Open
    <3> QED BY <2>2, <3>1, PlaceKept
  <2> QED BY <2>1, <2>2
<1>3. \A pos \in Nat : pos = tail_ => PlaceAt(pos)' = m
  BY PlaceFactsPrimed DEF OwnedPlaces, IInv, TypeOK, Open
<1>4. m \in Messages
  BY DEF IInv, TypeOK, Message, Messages
<1>5. Places' = Append(Places, m)
  <2> HIDE DEF m, Reserve
  <2>1. /\ Append(Places, m) \in Seq(Messages) /\ Len(Append(Places, m)) = tail_' - head_'
        /\ \A i \in 1..tail_ - head_ : Append(Places, m)[i] = Places[i]
        /\ Append(Places, m)[tail_ - head_ + 1] = m
    BY <1>1, <1>4, AppendProperties DEF PlacesShape
  <2>2. \A i \in 1..tail_' - head_' : Places'[i] = Append(Places, m)[i]
    <3> SUFFICES ASSUME NEW i \in 1..tail_' - head_' PROVE Places'[i] = Append(Places, m)[i]
      OBVIOUS
    <3>1. PICK pos \in Nat : pos = head_ + i - 1 /\ head_ <= pos
      BY <1>1 DEF PlacesShape
    <3>2. Places'[i] = PlaceAt(pos)'
      BY <1>1, <3>1 DEF Places
    <3>3. CASE pos < tail_
      <4>1. i \in 1..tail_ - head_ /\ Places[i] = PlaceAt(pos)
        BY <1>1, <3>1, <3>3 DEF PlacesShape
      <4> QED BY <1>2, <2>1, <3>1, <3>2, <3>3, <4>1
    <3>4. CASE ~(pos < tail_)
      <4>1. pos = tail_ /\ i = tail_ - head_ + 1
        BY <1>1, <3>1, <3>4 DEF PlacesShape
      <4> QED BY <1>3, <2>1, <3>2, <4>1
    <3> QED BY <3>3, <3>4
  <2> QED BY <1>1, <2>1, <2>2, SeqEqual DEF PlacesShape
<1>6. OpenPushes' = OpenPushes \cup {p} /\ p \notin OpenPushes /\ GotShown' = GotShown
  BY DEF IInv, TypeOK, OpenPushes, GotShown
<1> QED BY <1>5, <1>6
     DEF Abstract!Reserve, Abstract!Message, Message, Places, OpenPushes, GotShown

\* To publish a message is to put it into the mailbox.
LEMMA PublishMaps ==
  ASSUME IInv, IInv', NEW p \in Producer, Publish(p) PROVE Abstract!Publish(p)
<1> USE DEF Publish, consumerVars
<1>1. ASSUME NEW pos \in Nat, head_ <= pos, pos < tail_ PROVE PlaceAt(pos)' = PlaceAt(pos)
  <2>1. CASE pos = ppos[p]
    <3>1. PlaceAt(pos) = Message(p, sent[p]) /\ item[Slot(pos)] = Message(p, sent[p])
      BY <2>1, PlaceFacts DEF OwnedPlaces, IInv, PushesPlaced, Open
    <3>2. ~Owned(pos)'
      BY <2>1 DEF IInv, TypeOK, PushesPlaced, Owned, Open
    <3> QED BY <3>1, <3>2, PlaceFactsPrimed DEF RestPlaces
  <2>2. CASE pos # ppos[p] /\ Owned(pos)
    <3>1. PICK q \in Producer : Open(q) /\ ppos[q] = pos /\ q # p
      BY <2>2 DEF Owned
    <3>2. Open(q)' /\ ppos'[q] = pos /\ sent'[q] = sent[q]
      BY <3>1 DEF IInv, TypeOK, Open
    <3> QED BY <3>1, <3>2, PlaceKept
  <2>3. CASE ~Owned(pos)
    <3>1. ~Owned(pos)' /\ item' = item
      BY <2>3 DEF IInv, TypeOK, Owned, Open
    <3> QED BY <2>3, <3>1, PlaceKept
  <2> QED BY <2>1, <2>2, <2>3
<1>2. Places' = Places
  BY <1>1, PlacesKept
<1>3. p \in OpenPushes /\ OpenPushes' = OpenPushes \ {p} /\ GotShown' = GotShown
  BY DEF IInv, TypeOK, OpenPushes, GotShown
<1> QED BY <1>2, <1>3 DEF Abstract!Publish, Places, OpenPushes, GotShown

\* The claim is the moment at which the first message is handed out.
LEMMA ClaimMaps ==
  ASSUME IInv, IInv', NEW c \in Consumer, Claim(c) PROVE Abstract!Take(c)
<1>1. head_ < tail_ /\ ~Owned(head_)
  BY ClaimInv
<1> USE DEF Claim, producerVars
<1>2. /\ PlacesShape /\ PlacesShape' /\ head_ = cpos[c]
      /\ head_ \in Nat /\ tail_ \in Nat /\ head_' = head_ + 1 /\ tail_' = tail_
  BY PlacesAreSequence, PlacesAreSequencePrimed DEF IInv, TypeOK
<1>3. Places # <<>> /\ Head(Places) = PlaceAt(head_)
  <2>1. Len(Places) > 0 /\ 1 \in 1..tail_ - head_
    <3>1. Len(Places) = tail_ - head_
      BY <1>2 DEF PlacesShape
    <3> QED BY <1>1, <1>2, <3>1
  <2>2. Places # <<>>
    BY <2>1
  <2>3. Head(Places) = Places[1] /\ Places[1] = PlaceAt(head_ + 1 - 1) /\ head_ + 1 - 1 = head_
    <3>1. Places \in Seq(Messages)
      BY <1>2 DEF PlacesShape
    <3>2. Head(Places) = Places[1]
      BY <2>2, <3>1
    <3>3. Places[1] = PlaceAt(head_ + 1 - 1)
      BY <1>2, <2>1 DEF PlacesShape
    <3>4. head_ + 1 - 1 = head_
      BY <1>2
    <3> QED BY <3>2, <3>3, <3>4
  <2> QED BY <2>2, <2>3
<1>4. PlaceAt(head_) = item[Slot(head_)]
  BY <1>1, <1>2, PlaceFacts DEF RestPlaces, PlacesShape
<1>5. PICK q \in Producer, n \in 1..MaxPush :
        PlaceAt(head_) = Message(q, n) /\ (Open(q) => n < sent[q])
  <2>1. \E q \in Producer, n \in 1..MaxPush :
          item[Slot(head_)] = Message(q, n) /\ (Open(q) => n < sent[q])
    <3> HIDE DEF Claim
    <3> QED BY <1>1, <1>2 DEF IInv, RestPublished
  <2> QED BY <1>4, <2>1
<1>6. Places' = Tail(Places)
  <2>1. ASSUME NEW pos \in Nat, head_ < pos, pos < tail_ PROVE PlaceAt(pos)' = PlaceAt(pos)
    <3>1. item' = item /\ (Owned(pos) <=> Owned(pos)')
      BY DEF Owned, Open
    <3>2. \A q1 \in Producer : Open(q1)' = Open(q1) /\ ppos'[q1] = ppos[q1] /\ sent'[q1] = sent[q1]
      BY DEF Open
    <3> HIDE DEF Claim
    <3> QED BY <3>1, <3>2, PlaceKept DEF Owned
  <2> HIDE DEF Claim
  <2>2. ASSUME NEW i \in 1..tail_' - head_' PROVE Places'[i] = Places[i + 1]
    <3>1. PICK pos \in Nat : pos = head_ + i /\ head_ < pos /\ pos < tail_
      BY <1>2
    <3>2. Places'[i] = PlaceAt(pos)'
      BY <1>2, <3>1 DEF Places, PlacesShape
    <3>3. i + 1 \in 1..tail_ - head_ /\ Places[i + 1] = PlaceAt(pos)
      <4>1. i + 1 \in 1..tail_ - head_ /\ head_ + (i + 1) - 1 = pos
        BY <1>2, <3>1
      <4>2. \A k \in 1..tail_ - head_ : Places[k] = PlaceAt(head_ + k - 1)
        BY <1>2 DEF PlacesShape
      <4> QED BY <4>1, <4>2
    <3> QED BY <2>1, <3>1, <3>2, <3>3
  <2>3. /\ Tail(Places) \in Seq(Messages) /\ Len(Tail(Places)) = tail_' - head_'
        /\ \A i \in 1..tail_' - head_' : Tail(Places)[i] = Places[i + 1]
    <3>1. /\ Tail(Places) \in Seq(Messages) /\ Len(Tail(Places)) = Len(Places) - 1
          /\ \A i \in 1..Len(Places) - 1 : Tail(Places)[i] = Places[i + 1]
      <4>1. Places \in Seq(Messages)
        BY <1>2 DEF PlacesShape
      <4> QED BY <1>3, <4>1, HeadTailProperties
    <3>2. Len(Places) - 1 = tail_' - head_'
      BY <1>2 DEF PlacesShape
    <3> QED BY <3>1, <3>2
  <2>4. Places' \in Seq(Messages) /\ Len(Places') = tail_' - head_'
    BY <1>2 DEF PlacesShape
  <2>5. \A i \in 1..Len(Places') : Places'[i] = Tail(Places)[i]
    BY <2>2, <2>3, <2>4
  <2> QED BY <2>3, <2>4, <2>5, SeqEqual
<1>7. OpenPushes' = OpenPushes /\ sent' = sent
  BY DEF OpenPushes
<1>8. GotShown' = [GotShown EXCEPT ![c] = Head(Places)]
  BY <1>2, <1>3, <1>4 DEF IInv, TypeOK, GotShown
<1>9. Head(Places).from = q /\ Head(Places).number = n
  BY <1>3, <1>5 DEF Message
<1>10. Head(Places).from \in OpenPushes => Head(Places).number # sent[Head(Places).from]
  BY <1>5, <1>9 DEF OpenPushes, Open, IInv, TypeOK
<1> HIDE DEF Claim
<1> QED BY <1>3, <1>6, <1>7, <1>8, <1>10
     DEF Abstract!Take, Abstract!HeadPublished, Abstract!Published, Places, OpenPushes, GotShown

\* A pop that comes back empty has just seen the first place unpublished.
LEMMA EmptyMaps ==
  ASSUME IInv, IInv', NEW c \in Consumer, ProbeEmpty(c) PROVE Abstract!FindEmpty(c)
<1> USE DEF ProbeEmpty, producerVars
<1>1. PlacesShape /\ head_' = head_ /\ tail_' = tail_
  BY PlacesAreSequence
<1>2. cpos[c] = head_ /\ SeqAt(head_) # head_ + 1
  <2>1. /\ cpos[c] \in Nat /\ head_ \in Nat /\ cpos[c] <= head_
        /\ SeqAt(cpos[c]) \in Nat /\ SeqAt(cpos[c]) <= cpos[c]
    <3>1. cpos[c] \in Nat /\ head_ \in Nat /\ cpos[c] <= head_
      BY DEF IInv, TypeOK, PopsPlaced
    <3>2. SeqAt(cpos[c]) \in Nat
      BY <3>1, SlotRange DEF IInv, TypeOK, SeqAt
    <3> QED BY <3>1, <3>2 DEF Dif, SeqAt
  <2>2. ~Claimed(cpos[c])
    <3>1. \A d \in Consumer : cpc[d] = "claimed" => SeqAt(cpos[d]) = cpos[d] + 1
      BY DEF IInv, PopsPlaced
    <3> QED BY <2>1, <3>1 DEF Claimed
  <2>3. ~(cpos[c] < head_)
    BY <2>1, <2>2, CapAssumption DEF IInv, PassedReleased
  <2> QED BY <2>1, <2>3
<1>3. head_ < tail_ => Owned(head_)
  BY <1>1, <1>2 DEF IInv, RestPublished, PlacesShape
<1>4. Places # <<>> => /\ Head(Places).from \in OpenPushes
                       /\ Head(Places).number = sent[Head(Places).from]
  <2> SUFFICES ASSUME Places # <<>>
               PROVE  /\ Head(Places).from \in OpenPushes
                      /\ Head(Places).number = sent[Head(Places).from]
    OBVIOUS
  <2>1. Len(Places) # 0
    BY <1>1 DEF PlacesShape
  <2>2. head_ < tail_ /\ 1 \in 1..tail_ - head_ /\ head_ + 1 - 1 = head_
    BY <1>1, <2>1 DEF PlacesShape
  <2>3. Head(Places) = PlaceAt(head_)
    BY <1>1, <2>2, HeadTailProperties DEF PlacesShape
  <2>4. PICK q \in Producer : Open(q) /\ ppos[q] = head_
    BY <1>3, <2>2 DEF Owned
  <2>5. Head(Places) = Message(q, sent[q])
    BY <2>3, <2>4, PlaceFacts DEF OwnedPlaces
  <2> QED BY <2>4, <2>5 DEF Message, OpenPushes, Open
<1>5. Places' = Places
  BY DEF Places, PlaceAt, Message
<1>6. GotShown' = [GotShown EXCEPT ![c] = Nothing]
  BY DEF IInv, TypeOK, GotShown
<1>7. OpenPushes' = OpenPushes /\ sent' = sent
  BY DEF OpenPushes
<1> HIDE DEF ProbeEmpty
<1> QED BY <1>4, <1>5, <1>6, <1>7
     DEF Abstract!FindEmpty, Abstract!HeadPublished, Abstract!Published,
         Places, OpenPushes, GotShown

\* Filling, releasing and looking change nothing that Mailbox sees.
LEMMA FillMaps ==
  ASSUME IInv, IInv', NEW p \in Producer, Fill(p)
  PROVE  UNCHANGED <<Places, sent, OpenPushes, GotShown>>
<1> USE DEF Fill, consumerVars, SlotFree
<1>1. /\ ppos[p] \in Nat /\ SeqAt(ppos[p]) = ppos[p] /\ head_ \in Nat
  BY DEF IInv, TypeOK, SeqAt
<1>2. \A pos \in Nat : SeqAt(pos) = pos + 1 => item'[Slot(pos)] = item[Slot(pos)]
  <2> SUFFICES ASSUME NEW pos \in Nat, SeqAt(pos) = pos + 1 PROVE item'[Slot(pos)] = item[Slot(pos)]
    OBVIOUS
  <2>1. Slot(pos) # Slot(ppos[p])
    BY <1>1, RoundApart, CapAssumption DEF SeqAt
  <2> QED BY <2>1, SlotRange DEF IInv, TypeOK
<1>3. ASSUME NEW pos \in Nat, head_ <= pos, pos < tail_ PROVE PlaceAt(pos)' = PlaceAt(pos)
  <2>1. CASE Owned(pos)
    <3>1. PICK q \in Producer : Open(q) /\ ppos[q] = pos
      BY <2>1 DEF Owned
    <3>2. Open(q)' /\ ppos'[q] = pos /\ sent'[q] = sent[q]
      BY <3>1 DEF IInv, TypeOK, Open
    <3> QED BY <3>1, <3>2, PlaceKept
  <2>2. CASE ~Owned(pos)
    <3>1. ~Owned(pos)'
      BY <2>2 DEF IInv, TypeOK, Owned, Open
    <3>2. item'[Slot(pos)] = item[Slot(pos)]
      BY <1>2, <1>3, <2>2 DEF IInv, RestPublished
    <3> QED BY <2>2, <3>1, <3>2, PlaceKept
  <2> QED BY <2>1, <2>2
<1>4. Places' = Places
  BY <1>3, PlacesKept
<1>5. OpenPushes' = OpenPushes
  BY DEF IInv, TypeOK, OpenPushes
<1>6. GotShown' = GotShown
  <2>1. \A c \in Consumer : cpc[c] = "claimed" => item'[Slot(cpos[c])] = item[Slot(cpos[c])]
    BY <1>2 DEF IInv, TypeOK, PopsPlaced
  <2>2. cpc' = cpc /\ cpos' = cpos /\ got' = got
    OBVIOUS
  <2> HIDE DEF Fill
  <2> QED BY <2>1, <2>2 DEF GotShown
<1> QED BY <1>4, <1>5, <1>6

\* To release a slot changes nothing the mailbox sees.
LEMMA ReleaseMaps ==
  ASSUME IInv, IInv', NEW c \in Consumer, Release(c)
  PROVE  UNCHANGED <<Places, sent, OpenPushes, GotShown>>
<1> USE DEF Release, producerVars
<1>1. Places' = Places /\ OpenPushes' = OpenPushes
  BY DEF Places, PlaceAt, Message, OpenPushes
<1>2. GotShown' = GotShown
  BY DEF IInv, TypeOK, GotShown
<1> QED BY <1>1, <1>2

\* Neither does looking for a message.
LEMMA LookingMaps ==
  ASSUME IInv, NEW c \in Consumer, Looking(c), ~ProbeEmpty(c)
  PROVE  UNCHANGED <<Places, sent, OpenPushes, GotShown>>
<1> USE DEF Looking, LoadHead, ProbeFull, ProbePassed, ClaimFails, producerVars
<1>1. Places' = Places /\ OpenPushes' = OpenPushes
  <2>1. UNCHANGED <<item, head_, tail_, sent, ppc, ppos>>
    OBVIOUS
  <2> HIDE DEF Looking
  <2> QED BY <2>1 DEF Places, PlaceAt, Message, OpenPushes
<1>2. GotShown' = GotShown
  BY DEF IInv, TypeOK, GotShown
<1> QED BY <1>1, <1>2

\* The ring keeps the promise of Mailbox: messages come out in the order of
\* their reservations, each once and unchanged, and a pop is empty only when
\* the first place held no published message.
THEOREM PromiseKept == Spec => KeepsPromise
<1>1. Init => Abstract!Init
  <2> SUFFICES ASSUME Init PROVE Abstract!Init
    OBVIOUS
  <2>1. Places = <<>>
    BY DEF Init, Places
  <2> QED BY <2>1 DEF Init, Places, Abstract!Init
<1>2. IInv /\ IInv' /\ [Next]_vars => [Abstract!Next]_<<Places, sent, OpenPushes, GotShown>>
  <2> SUFFICES ASSUME IInv, IInv', [Next]_vars
               PROVE  Abstract!Next \/ UNCHANGED <<Places, sent, OpenPushes, GotShown>>
    OBVIOUS
  <2>1. CASE UNCHANGED vars
    BY <2>1 DEF vars, Places, PlaceAt, Message, OpenPushes, GotShown
  <2>2. ASSUME NEW p \in Producer, Reserve(p) PROVE Abstract!Next
    BY <2>2, ReserveMaps DEF Abstract!Next
  <2>3. ASSUME NEW p \in Producer, Publish(p) PROVE Abstract!Next
    BY <2>3, PublishMaps DEF Abstract!Next
  <2>4. ASSUME NEW p \in Producer, Fill(p) PROVE UNCHANGED <<Places, sent, OpenPushes, GotShown>>
    BY <2>4, FillMaps
  <2>5. ASSUME NEW c \in Consumer, Claim(c) PROVE Abstract!Next
    BY <2>5, ClaimMaps DEF Abstract!Next
  <2>6. ASSUME NEW c \in Consumer, ProbeEmpty(c) PROVE Abstract!Next
    BY <2>6, EmptyMaps DEF Abstract!Next
  <2>7. ASSUME NEW c \in Consumer, Release(c) PROVE UNCHANGED <<Places, sent, OpenPushes, GotShown>>
    BY <2>7, ReleaseMaps
  <2>8. ASSUME NEW c \in Consumer, Looking(c), ~ProbeEmpty(c)
        PROVE  UNCHANGED <<Places, sent, OpenPushes, GotShown>>
    BY <2>8, LookingMaps
  <2> QED
    BY <2>1, <2>2, <2>3, <2>4, <2>5, <2>6, <2>7, <2>8 DEF Next, Pushing, Popping, Looking
<1>3. IInv /\ IInv' /\ [Next]_vars =>
        [Abstract!Next]_<<[i \in 1..tail_ - head_ |-> PlaceAt(head_ + i - 1)], sent,
                          {p \in Producer : ppc[p] # "idle"},
                          [c \in Consumer |-> IF cpc[c] = "claimed" THEN item[Slot(cpos[c])] ELSE got[c]]>>
  BY <1>2 DEF Places, OpenPushes, GotShown
<1> QED BY <1>1, <1>3, Inductive, PTL DEF Spec, KeepsPromise, Abstract!Spec
=============================================================================
