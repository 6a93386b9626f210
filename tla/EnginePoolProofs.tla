-------------------------- MODULE EnginePoolProofs --------------------------
(***************************************************************************)
(* Proofs about EnginePool, for any number of clients, any size of the pool *)
(* and any bound on the backends.                                           *)
(***************************************************************************)
EXTENDS EnginePool, SequencesExt, SequenceTheorems, FiniteSetTheorems, TLAPS

-----------------------------------------------------------------------------
(* Sequences without repetition *)

\* A function on 1..n is a sequence of length n, and the other way round.
LEMMA FunctionIsSequence ==
  ASSUME NEW S, NEW n \in Nat, NEW f \in [1..n -> S]
  PROVE  f \in Seq(S) /\ Len(f) = n
OBVIOUS

Elems(q) == {q[i] : i \in DOMAIN q}
Distinct(q) == \A i, j \in DOMAIN q : q[i] = q[j] => i = j

\* A new element can be appended.
LEMMA AppendDistinct ==
  ASSUME NEW S, NEW q \in Seq(S), NEW x \in S, Distinct(q), x \notin Elems(q)
  PROVE  /\ Append(q, x) \in Seq(S)
         /\ Distinct(Append(q, x))
         /\ Elems(Append(q, x)) = Elems(q) \cup {x}
<1> DEFINE p == Append(q, x)
<1>1. /\ p \in Seq(S) /\ Len(p) = Len(q) + 1 /\ Len(q) \in Nat
      /\ DOMAIN p = 1..Len(p) /\ DOMAIN q = 1..Len(q)
      /\ p[Len(p)] = x /\ \A i \in 1..Len(q) : p[i] = q[i]
  OBVIOUS
<1> HIDE DEF p
<1>2. Distinct(p)
  <2> SUFFICES ASSUME NEW i \in DOMAIN p, NEW j \in DOMAIN p, p[i] = p[j] PROVE i = j
    BY DEF Distinct
  <2>1. CASE i = Len(p) \/ j = Len(p)
    BY <2>1, <1>1 DEF Elems
  <2>2. CASE i # Len(p) /\ j # Len(p)
    BY <2>2, <1>1 DEF Distinct
  <2> QED BY <2>1, <2>2
<1>3. Elems(p) = Elems(q) \cup {x}
  <2>1. ASSUME NEW y \in Elems(p) PROVE y \in Elems(q) \cup {x}
    BY <1>1 DEF Elems
  <2>2. ASSUME NEW y \in Elems(q) PROVE y \in Elems(p)
    <3>1. PICK i \in DOMAIN q : y = q[i]
      BY DEF Elems
    <3>2. i \in DOMAIN p /\ p[i] = y
      BY <3>1, <1>1
    <3> QED BY <3>2 DEF Elems
  <2>3. x \in Elems(p)
    BY <1>1 DEF Elems
  <2> QED BY <2>1, <2>2, <2>3
<1> QED BY <1>1, <1>2, <1>3 DEF p

\* A beginning of such a sequence is one.
LEMMA FrontDistinct ==
  ASSUME NEW S, NEW q \in Seq(S), Distinct(q), NEW n \in 0..Len(q)
  PROVE  /\ SubSeq(q, 1, n) \in Seq(S)
         /\ Distinct(SubSeq(q, 1, n))
         /\ Elems(SubSeq(q, 1, n)) = {q[i] : i \in 1..n}
<1> DEFINE p == SubSeq(q, 1, n)
<1>1. /\ p \in Seq(S) /\ Len(p) = n /\ n \in Nat /\ DOMAIN p = 1..n
      /\ DOMAIN q = 1..Len(q) /\ Len(q) \in Nat
      /\ \A i \in 1..n : p[i] = q[i]
  OBVIOUS
<1> HIDE DEF p
<1>2. Distinct(p)
  BY <1>1 DEF Distinct
<1>3. Elems(p) = {q[i] : i \in 1..n}
  BY <1>1 DEF Elems
<1> QED BY <1>1, <1>2, <1>3 DEF p

\* Where an element stands is where SelectInSeq finds it.
LEMMA RemoveFirstDistinct ==
  ASSUME NEW S, NEW q \in Seq(S), Distinct(q), NEW x
  PROVE  /\ RemoveFirst(q, x) \in Seq(S)
         /\ Distinct(RemoveFirst(q, x))
         /\ Elems(RemoveFirst(q, x)) = Elems(q) \ {x}
<1>0. DOMAIN q = 1..Len(q) /\ Len(q) \in Nat
  OBVIOUS
<1>1. CASE ~ \E i \in 1..Len(q) : q[i] = x
  <2>1. RemoveFirst(q, x) = q
    BY <1>1 DEF RemoveFirst
  <2>2. x \notin Elems(q)
    BY <1>0, <1>1 DEF Elems
  <2> QED BY <2>1, <2>2
<1>2. ASSUME NEW n \in 1..Len(q), q[n] = x
      PROVE  /\ RemoveFirst(q, x) \in Seq(S)
             /\ Distinct(RemoveFirst(q, x))
             /\ Elems(RemoveFirst(q, x)) = Elems(q) \ {x}
  <2> DEFINE p == SubSeq(q, 1, n - 1) \o SubSeq(q, n + 1, Len(q))
  <2>1. SelectInSeq(q, LAMBDA v : v = x) = n
    <3>1. {i \in 1..Len(q) : q[i] = x} = {n}
      BY <1>0, <1>2 DEF Distinct
    <3>2. Min({n}) = n
      BY DEF Min
    <3> QED BY <3>1, <3>2 DEF SelectInSeq
  <2>2. RemoveFirst(q, x) = p
    BY <1>2, <2>1 DEF RemoveFirst, RemoveAt
  <2>3. /\ p \in Seq(S) /\ Len(p) = Len(q) - 1 /\ DOMAIN p = 1..Len(q) - 1
        /\ \A i \in 1..Len(q) - 1 : p[i] = IF i < n THEN q[i] ELSE q[i + 1]
    <3> DEFINE u == SubSeq(q, 1, n - 1)
               v == SubSeq(q, n + 1, Len(q))
    <3>1. /\ u \in Seq(S) /\ Len(u) = n - 1 /\ \A i \in 1..n - 1 : u[i] = q[i]
      <4>1. 1 \in Int /\ n - 1 \in Int /\ \A i \in 1..n - 1 : q[i] \in S
        BY <1>0
      <4>2. /\ u \in Seq(S) /\ Len(u) = IF 1 <= n - 1 THEN (n - 1) - 1 + 1 ELSE 0
            /\ \A i \in 1..(n - 1) - 1 + 1 : u[i] = q[1 + i - 1]
        BY <4>1, SubSeqProperties
      <4> HIDE DEF u
      <4> QED BY <1>0, <4>2
    <3>2. /\ v \in Seq(S) /\ Len(v) = Len(q) - n /\ \A i \in 1..Len(q) - n : v[i] = q[i + n]
      <4>1. n + 1 \in Int /\ Len(q) \in Int /\ \A i \in n + 1..Len(q) : q[i] \in S
        BY <1>0
      <4>2. /\ v \in Seq(S) /\ Len(v) = IF n + 1 <= Len(q) THEN Len(q) - (n + 1) + 1 ELSE 0
            /\ \A i \in 1..Len(q) - (n + 1) + 1 : v[i] = q[(n + 1) + i - 1]
        BY <4>1, SubSeqProperties
      <4> HIDE DEF v
      <4>3. n \in Nat /\ n >= 1 /\ n <= Len(q)
        BY <1>0
      <4>4. ASSUME NEW i \in 1..Len(q) - n PROVE v[i] = q[i + n]
        <5>1. i \in 1..Len(q) - (n + 1) + 1 /\ (n + 1) + i - 1 = i + n
          BY <1>0, <4>3
        <5> QED BY <4>2, <5>1
      <4>5. Len(v) = Len(q) - n
        <5>1. Len(v) = IF n + 1 <= Len(q) THEN Len(q) - (n + 1) + 1 ELSE 0
          BY <4>2
        <5>2. Len(q) \in Nat
          BY <1>0
        <5>3. CASE n + 1 <= Len(q)
          BY <4>3, <5>1, <5>2, <5>3
        <5>4. CASE ~(n + 1 <= Len(q))
          BY <4>3, <5>1, <5>2, <5>4
        <5> QED BY <5>3, <5>4
      <4> QED BY <4>2, <4>4, <4>5
    <3> HIDE DEF u, v
    <3>3. /\ u \o v \in Seq(S) /\ Len(u \o v) = Len(u) + Len(v)
          /\ \A i \in 1..Len(u) + Len(v) : (u \o v)[i] = IF i <= Len(u) THEN u[i] ELSE v[i - Len(u)]
      BY <3>1, <3>2, ConcatProperties
    <3>4. /\ u \o v \in Seq(S) /\ Len(u \o v) = Len(q) - 1 /\ DOMAIN (u \o v) = 1..Len(q) - 1
      <4>1. u \o v \in Seq(S) /\ Len(u \o v) = Len(u) + Len(v) /\ Len(u) = n - 1 /\ Len(v) = Len(q) - n
        BY <3>1, <3>2, <3>3
      <4>2. Len(u \o v) = Len(q) - 1
        BY <1>0, <4>1
      <4> QED BY <4>1, <4>2, LenProperties
    <3>5. ASSUME NEW i \in 1..Len(q) - 1
          PROVE  (u \o v)[i] = IF i < n THEN q[i] ELSE q[i + 1]
      <4>1. CASE i < n
        BY <1>0, <3>1, <3>2, <3>3, <4>1
      <4>2. CASE ~(i < n)
        <5>1. (u \o v)[i] = v[i - (n - 1)] /\ i - (n - 1) \in 1..Len(q) - n
          BY <1>0, <3>1, <3>2, <3>3, <4>2
        <5>2. v[i - (n - 1)] = q[(i - (n - 1)) + n] /\ (i - (n - 1)) + n = i + 1
          BY <1>0, <3>2, <5>1
        <5> QED BY <4>2, <5>1, <5>2, <1>0
      <4> QED BY <4>1, <4>2
    <3> QED BY <3>4, <3>5 DEF u, v
  <2> HIDE DEF p
  <2>4. Distinct(p)
    <3> SUFFICES ASSUME NEW i \in 1..Len(q) - 1, NEW j \in 1..Len(q) - 1, p[i] = p[j]
                 PROVE  i = j
      BY <2>3 DEF Distinct
    <3>1. PICK k \in 1..Len(q) : p[i] = q[k] /\ k = IF i < n THEN i ELSE i + 1
      BY <1>0, <2>3
    <3>2. PICK l \in 1..Len(q) : p[j] = q[l] /\ l = IF j < n THEN j ELSE j + 1
      BY <1>0, <2>3
    <3>3. k = l
      BY <1>0, <3>1, <3>2 DEF Distinct
    <3> QED BY <1>0, <3>1, <3>2, <3>3
  <2>5. ASSUME NEW y \in Elems(p) PROVE y \in Elems(q) \ {x}
    <3>1. PICK i \in DOMAIN p : y = p[i]
      BY DEF Elems
    <3>2. PICK j \in 1..Len(q) : y = q[j] /\ j # n
      BY <1>0, <2>3, <3>1
    <3> QED BY <1>0, <1>2, <3>2 DEF Elems, Distinct
  <2>6. ASSUME NEW y \in Elems(q) \ {x} PROVE y \in Elems(p)
    <3>1. PICK j \in 1..Len(q) : y = q[j]
      BY <1>0 DEF Elems
    <3>2. CASE j < n
      <4>1. j \in DOMAIN p /\ p[j] = y
        BY <1>0, <2>3, <3>1, <3>2
      <4> QED BY <4>1 DEF Elems
    <3>3. CASE j > n
      <4>1. j - 1 \in DOMAIN p /\ p[j - 1] = y
        BY <1>0, <2>3, <3>1, <3>3
      <4> QED BY <4>1 DEF Elems
    <3> QED BY <1>2, <3>1, <3>2, <3>3
  <2> QED BY <2>2, <2>3, <2>4, <2>5, <2>6
<1> QED BY <1>1, <1>2

BackendType == [alive : BOOLEAN, in_use : BOOLEAN, piped : BOOLEAN]
Alive == {i \in Backends : Known(i)}

\* The pool by itself: its types, each idle backend once, and the count.
PoolOK ==
  /\ backs \in Seq(BackendType) /\ Len(backs) <= MaxBackends
  /\ idle \in Seq(Backends) /\ Distinct(idle)
  /\ alive_count \in 0..MaxBackends
  /\ AliveCounted

\* The types of the sessions and of the processes.
SessionsOK ==
  /\ process \in Seq({"up", "down", "reaped"}) /\ Len(process) = Len(backs)
  /\ at \in [Session -> {"away", "spawning", "claiming", "serving"}]
  /\ using \in [Session -> Backends \cup {0}]
  /\ marked \in [Session -> BOOLEAN]
  /\ unclean \subseteq Backends

Claiming(i) == \E s \in Session : at[s] = "claiming" /\ using[s] = i

\* The idle queue holds backends with pipes, and every one of those that is
\* alive.
IdleSound ==
  /\ \A i \in Elems(idle) : backs[i].piped
  /\ \A i \in Backends : Known(i) /\ backs[i].piped => i \in Elems(idle)
  /\ \A i \in Backends : backs[i].piped => ~backs[i].in_use

\* The pipes of a backend are in one place: with one client or in the pool.
PipesOnce ==
  /\ \A s \in Session : at[s] = "serving" => using[s] \in Backends /\ ~backs[using[s]].piped
  /\ \A s \in Session : at[s] = "claiming" => using[s] \in Backends
  /\ \A s, t \in Session :
       at[s] = "serving" /\ at[t] = "serving" /\ using[s] = using[t] => s = t

\* A working backend without its pipes is held by a client.
WorkersPlaced ==
  \A i \in Backends : Known(i) /\ process[i] = "up" /\ ~backs[i].piped => Held(i)

\* A reaper strikes its backend off.
ReapedStruck == \A i \in Backends : process[i] = "reaped" => ~Known(i)

\* A backend that may be unclean is not in the pool, and goes back only through
\* a session that has seen the marker.
UncleanOut ==
  /\ \A i \in unclean : ~backs[i].piped
  /\ \A s \in Session : marked[s] => at[s] = "serving" /\ using[s] \notin unclean

\* The backends nobody holds and nobody is about to claim fit into the pool.
Rest == {i \in Backends : Known(i) /\ process[i] = "up" /\ ~Held(i) /\ ~Claiming(i)}
RestFits == Cardinality(Rest) <= pool_size

IInv == /\ PoolOK /\ SessionsOK /\ IdleSound /\ PipesOnce /\ WorkersPlaced
        /\ ReapedStruck /\ UncleanOut /\ RestFits

-----------------------------------------------------------------------------
(* The pool *)

\* Backends are numbered from one.
LEMMA BackendNumbers ==
  ASSUME backs \in Seq(BackendType)
  PROVE  Len(backs) \in Nat /\ Backends = 1..Len(backs) /\ \A i \in Backends : backs[i] \in BackendType
BY LenProperties DEF Backends

\* Sets of backends are finite.
LEMMA BackendSets ==
  ASSUME backs \in Seq(BackendType), NEW T \in SUBSET Backends
  PROVE  IsFiniteSet(T) /\ Cardinality(T) \in 0..Len(backs)
<1>1. IsFiniteSet(Backends) /\ Cardinality(Backends) = Len(backs)
  BY BackendNumbers, FS_Interval
<1>2. IsFiniteSet(T) /\ Cardinality(T) <= Cardinality(Backends)
  BY <1>1, FS_Subset
<1> QED BY <1>1, <1>2, FS_CardinalityType, BackendNumbers

\* One backend is rewritten, alive or not as before.
LEMMA Rewritten ==
  ASSUME PoolOK, NEW i \in Backends, NEW b \in BackendType,
         backs' = [backs EXCEPT ![i] = b]
  PROVE  /\ backs' \in Seq(BackendType) /\ Len(backs') = Len(backs) /\ Backends' = Backends
         /\ backs'[i] = b /\ \A j \in Backends : j # i => backs'[j] = backs[j]
         /\ b.alive = Known(i) => Alive' = Alive
         /\ ~b.alive => Alive' = Alive \ {i}
<1>1. Len(backs) \in Nat /\ Backends = 1..Len(backs)
  BY BackendNumbers DEF PoolOK
<1>2. /\ backs' \in Seq(BackendType) /\ Len(backs') = Len(backs)
      /\ \A j \in 1..Len(backs) : backs'[j] = IF j = i THEN b ELSE backs[j]
  BY <1>1, ExceptSeq DEF PoolOK
<1>3. Backends' = Backends
  BY <1>1, <1>2, LenProperties DEF Backends
<1>4. \A j \in Backends : Known(j)' = IF j = i THEN b.alive ELSE Known(j)
  BY <1>1, <1>2 DEF Known
<1> QED BY <1>1, <1>2, <1>3, <1>4 DEF Alive

\* A backend struck off counts no more, and is counted off once.
LEMMA StrikeOffPool ==
  ASSUME PoolOK, NEW i \in Backends, StrikeOff(i)
  PROVE  /\ PoolOK' /\ Backends' = Backends /\ Len(backs') = Len(backs)
         /\ backs'[i] = [alive |-> FALSE, in_use |-> FALSE, piped |-> FALSE]
         /\ \A j \in Backends : j # i => backs'[j] = backs[j]
         /\ Elems(idle') = Elems(idle) \ {i}
<1> DEFINE b == [alive |-> FALSE, in_use |-> FALSE, piped |-> FALSE]
<1>1. b \in BackendType /\ ~b.alive
  BY DEF BackendType
<1>2. backs' = [backs EXCEPT ![i] = b]
  BY DEF StrikeOff
<1> HIDE DEF b
<1>3. /\ backs' \in Seq(BackendType) /\ Len(backs') = Len(backs) /\ Backends' = Backends
      /\ backs'[i] = b /\ \A j \in Backends : j # i => backs'[j] = backs[j]
      /\ Alive' = Alive \ {i}
  BY <1>1, <1>2, Rewritten
<1>4. /\ idle' \in Seq(Backends) /\ Distinct(idle') /\ Elems(idle') = Elems(idle) \ {i}
  BY RemoveFirstDistinct DEF PoolOK, StrikeOff
<1>5. IsFiniteSet(Alive) /\ Cardinality(Alive) \in Nat /\ alive_count = Cardinality(Alive)
  BY BackendSets DEF PoolOK, AliveCounted, Alive
<1>6. Cardinality(Alive \ {i}) = IF Known(i) THEN alive_count - 1 ELSE alive_count
  BY <1>5, FS_RemoveElement DEF Alive
<1>7. Known(i) => alive_count > 0
  BY <1>5, FS_EmptySet DEF Alive
<1>8. alive_count' = Cardinality(Alive \ {i}) /\ alive_count' \in 0..MaxBackends
  BY <1>5, <1>6, <1>7, SizeAssumption DEF StrikeOff, PoolOK
<1> QED BY <1>3, <1>4, <1>8 DEF b, PoolOK, AliveCounted, Alive

\* A backend without pipes goes back.
LEMMA RecyclePool ==
  ASSUME PoolOK, NEW i \in Backends, i \notin Elems(idle), Recycle(i)
  PROVE  /\ PoolOK' /\ Backends' = Backends /\ Len(backs') = Len(backs)
         /\ backs'[i] = [alive |-> Known(i), in_use |-> FALSE, piped |-> TRUE]
         /\ \A j \in Backends : j # i => backs'[j] = backs[j]
         /\ Elems(idle') = Elems(idle) \cup {i}
<1> DEFINE b == [alive |-> Known(i), in_use |-> FALSE, piped |-> TRUE]
<1>1. b \in BackendType /\ b.alive = Known(i)
  BY BackendNumbers DEF BackendType, PoolOK, Known
<1>2. backs' = [backs EXCEPT ![i] = b]
  <2>1. backs[i] \in BackendType
    BY BackendNumbers DEF PoolOK
  <2>2. [backs[i] EXCEPT !.in_use = FALSE, !.piped = TRUE] = b
    <3> DEFINE r == [backs[i] EXCEPT !.in_use = FALSE, !.piped = TRUE]
    <3>1. r \in BackendType
      BY <2>1 DEF BackendType
    <3>2. r.alive = Known(i) /\ r.in_use = FALSE /\ r.piped = TRUE
      BY <2>1 DEF BackendType, Known
    <3> HIDE DEF r
    <3>3. r = [alive |-> r.alive, in_use |-> r.in_use, piped |-> r.piped]
      BY <3>1 DEF BackendType
    <3> QED BY <3>2, <3>3 DEF r
  <2> QED BY <2>2 DEF Recycle
<1> HIDE DEF b
<1>3. /\ backs' \in Seq(BackendType) /\ Len(backs') = Len(backs) /\ Backends' = Backends
      /\ backs'[i] = b /\ \A j \in Backends : j # i => backs'[j] = backs[j]
      /\ Alive' = Alive
  BY <1>1, <1>2, Rewritten
<1>4. /\ idle' \in Seq(Backends) /\ Distinct(idle') /\ Elems(idle') = Elems(idle) \cup {i}
  BY AppendDistinct DEF PoolOK, Recycle
<1> QED BY <1>3, <1>4 DEF b, PoolOK, AliveCounted, Alive, Recycle

\* A backend is put in use, its pipes taken; the queue changes by itself.
LEMMA TakePool ==
  ASSUME PoolOK, NEW i \in Backends,
         backs' = [backs EXCEPT ![i] = [@ EXCEPT !.in_use = TRUE, !.piped = FALSE]],
         idle' \in Seq(Backends), Distinct(idle'), UNCHANGED alive_count
  PROVE  /\ PoolOK' /\ Backends' = Backends /\ Len(backs') = Len(backs)
         /\ backs'[i] = [alive |-> Known(i), in_use |-> TRUE, piped |-> FALSE]
         /\ \A j \in Backends : j # i => backs'[j] = backs[j]
<1> DEFINE b == [alive |-> Known(i), in_use |-> TRUE, piped |-> FALSE]
<1>1. b \in BackendType /\ b.alive = Known(i)
  BY BackendNumbers DEF BackendType, PoolOK, Known
<1>2. backs' = [backs EXCEPT ![i] = b]
  <2>1. backs[i] \in BackendType
    BY BackendNumbers DEF PoolOK
  <2>2. [backs[i] EXCEPT !.in_use = TRUE, !.piped = FALSE] = b
    <3> DEFINE r == [backs[i] EXCEPT !.in_use = TRUE, !.piped = FALSE]
    <3>1. r \in BackendType
      BY <2>1 DEF BackendType
    <3>2. r.alive = Known(i) /\ r.in_use = TRUE /\ r.piped = FALSE
      BY <2>1 DEF BackendType, Known
    <3> HIDE DEF r
    <3>3. r = [alive |-> r.alive, in_use |-> r.in_use, piped |-> r.piped]
      BY <3>1 DEF BackendType
    <3> QED BY <3>2, <3>3 DEF r
  <2> QED BY <2>2
<1> HIDE DEF b
<1>3. /\ backs' \in Seq(BackendType) /\ Len(backs') = Len(backs) /\ Backends' = Backends
      /\ backs'[i] = b /\ \A j \in Backends : j # i => backs'[j] = backs[j]
      /\ Alive' = Alive
  BY <1>1, <1>2, Rewritten
<1> QED BY <1>3 DEF b, PoolOK, AliveCounted, Alive

\* Fewer backends at rest fit as well.
LEMMA RestShrinks ==
  ASSUME PoolOK, RestFits, Rest' \subseteq Rest PROVE RestFits'
<1>1. IsFiniteSet(Rest) /\ Cardinality(Rest) \in Nat
  BY BackendSets, BackendNumbers DEF PoolOK, Rest
<1>2. IsFiniteSet(Rest') /\ Cardinality(Rest') <= Cardinality(Rest)
  BY <1>1, FS_Subset
<1>3. Cardinality(Rest') \in Nat
  BY <1>2, FS_CardinalityType
<1> QED BY <1>1, <1>2, <1>3, SizeAssumption DEF RestFits

-----------------------------------------------------------------------------
(* The invariant *)

\* The pool starts with pool_size backends, all at rest.
LEMMA InitInv == Init => IInv
<1> SUFFICES ASSUME Init PROVE IInv
  OBVIOUS
<1> USE SizeAssumption DEF Init, NewBackend
<1>1. /\ Backends = 1..pool_size /\ backs \in Seq(BackendType) /\ Len(backs) = pool_size
      /\ idle \in Seq(Backends) /\ process \in Seq({"up", "down", "reaped"})
      /\ Len(process) = pool_size /\ DOMAIN idle = 1..pool_size
  <2>1. /\ backs \in [1..pool_size -> BackendType] /\ Backends = 1..pool_size
        /\ idle \in [1..pool_size -> 1..pool_size] /\ DOMAIN idle = 1..pool_size
        /\ process \in [1..pool_size -> {"up", "down", "reaped"}]
    BY DEF BackendType, Backends
  <2>2. pool_size \in Nat
    OBVIOUS
  <2> HIDE DEF Init
  <2>3. backs \in Seq(BackendType) /\ Len(backs) = pool_size
    BY <2>1, <2>2, FunctionIsSequence
  <2>4. idle \in Seq(1..pool_size)
    BY <2>1, <2>2, FunctionIsSequence
  <2>5. process \in Seq({"up", "down", "reaped"}) /\ Len(process) = pool_size
    BY <2>1, <2>2, FunctionIsSequence
  <2> QED BY <2>1, <2>3, <2>4, <2>5
<1>2. Alive = 1..pool_size /\ Cardinality(1..pool_size) = pool_size
  BY <1>1, FS_Interval DEF Alive, Known
<1>3. Distinct(idle) /\ Elems(idle) = 1..pool_size
  BY <1>1 DEF Distinct, Elems
<1>4. PoolOK
  <2>1. AliveCounted
    BY <1>2 DEF AliveCounted, Alive
  <2>2. alive_count \in 0..MaxBackends /\ Len(backs) <= MaxBackends
    BY <1>1
  <2> QED BY <1>1, <1>3, <2>1, <2>2 DEF PoolOK
<1>5. SessionsOK
  BY <1>1 DEF SessionsOK
<1>6. Rest = 1..pool_size
  BY <1>1 DEF Rest, Known, Held, Claiming
<1>7. IdleSound /\ PipesOnce /\ WorkersPlaced /\ ReapedStruck /\ UncleanOut
  BY <1>1, <1>3 DEF IdleSound, PipesOnce, WorkersPlaced, ReapedStruck, UncleanOut, Known
<1> QED BY <1>2, <1>4, <1>5, <1>6, <1>7 DEF IInv, RestFits, PoolOK

\* A session takes the pipes of a backend that has them.
LEMMA ServeInv ==
  ASSUME IInv, NEW s \in Session, NEW i \in Backends,
         at[s] \in {"away", "claiming"}, at[s] = "claiming" => using[s] = i,
         backs[i].piped,
         PoolOK', Backends' = Backends, Len(backs') = Len(backs),
         backs'[i] = [alive |-> Known(i), in_use |-> TRUE, piped |-> FALSE],
         \A j \in Backends : j # i => backs'[j] = backs[j],
         Elems(idle') \subseteq Elems(idle) \ {i},
         \A j \in Backends : j # i /\ Known(j) /\ backs[j].piped => j \in Elems(idle'),
         Serves(s, i), process' = process
  PROVE  IInv'
<1> USE DEF Serves, Known
<1>1. SessionsOK'
  BY DEF IInv, SessionsOK
<1>2. IdleSound'
  <2>1. Elems(idle) \subseteq Backends
    BY LenProperties DEF IInv, PoolOK, Elems
  <2>2. \A j \in Elems(idle') : backs'[j].piped
    BY <2>1 DEF IInv, IdleSound
  <2>3. \A j \in Backends : Known(j)' /\ backs'[j].piped => j \in Elems(idle')
    OBVIOUS
  <2>4. \A j \in Backends : backs'[j].piped => ~backs'[j].in_use
    BY DEF IInv, IdleSound
  <2> QED BY <2>2, <2>3, <2>4 DEF IdleSound
<1>3. \A t \in Session : t # s => at'[t] = at[t] /\ using'[t] = using[t] /\ marked'[t] = marked[t]
  BY DEF IInv, SessionsOK
<1>4. at'[s] = "serving" /\ using'[s] = i /\ ~marked[s] /\ ~marked'[s]
  BY DEF IInv, SessionsOK, UncleanOut
<1>5. \A t \in Session : at[t] = "serving" => using[t] # i
  BY DEF IInv, PipesOnce
<1> HIDE DEF Serves
<1>6. PipesOnce'
  BY <1>3, <1>4, <1>5 DEF IInv, PipesOnce
<1>7. Held(i)' /\ \A j \in Backends : Held(j) => Held(j)'
  BY <1>3, <1>4 DEF Held
<1>8. WorkersPlaced'
  BY <1>7 DEF IInv, WorkersPlaced
<1>9. ReapedStruck'
  BY DEF IInv, ReapedStruck
<1>10. UncleanOut'
  <2>1. unclean' = unclean \cup {i} /\ unclean \subseteq Backends
    BY DEF Serves, IInv, SessionsOK
  <2> QED BY <1>3, <1>4, <1>5, <2>1 DEF IInv, UncleanOut
<1>11. RestFits'
  <2>1. \A j \in Backends : j # i => (Claiming(j) => Claiming(j)')
    BY <1>3 DEF Claiming
  <2>2. Rest' \subseteq Rest
    BY <1>7, <2>1 DEF Rest
  <2> QED BY <2>2, RestShrinks DEF IInv
<1> QED BY <1>1, <1>2, <1>6, <1>8, <1>9, <1>10, <1>11 DEF IInv

\* What is popped off beside the backend handed out is dead.
LEMMA CheckoutIdleInv ==
  ASSUME IInv, NEW s \in Session, CheckoutIdle(s) PROVE IInv'
<1>1. PICK n \in DOMAIN idle :
        /\ Usable(idle[n])
        /\ \A m \in DOMAIN idle : m > n => ~Usable(idle[m])
        /\ idle' = SubSeq(idle, 1, n - 1)
        /\ backs' = [backs EXCEPT ![idle[n]] = [@ EXCEPT !.in_use = TRUE, !.piped = FALSE]]
        /\ Serves(s, idle[n])
  BY DEF CheckoutIdle
<1> DEFINE i == idle[n]
<1>2. PoolOK /\ Len(idle) \in Nat /\ DOMAIN idle = 1..Len(idle)
  BY LenProperties DEF IInv, PoolOK
<1>3. i \in Backends /\ i \in Elems(idle) /\ Known(i) /\ backs[i].piped /\ at[s] = "away"
  BY <1>1, <1>2 DEF PoolOK, Elems, Usable, Known, CheckoutIdle
<1>4. /\ idle' \in Seq(Backends) /\ Distinct(idle')
      /\ Elems(idle') = {idle[k] : k \in 1..n - 1}
  <2>1. n - 1 \in 0..Len(idle) /\ idle \in Seq(Backends) /\ Distinct(idle)
    BY <1>2 DEF PoolOK
  <2> QED BY <1>1, <2>1, FrontDistinct
<1>5. /\ PoolOK' /\ Backends' = Backends /\ Len(backs') = Len(backs)
      /\ backs'[i] = [alive |-> Known(i), in_use |-> TRUE, piped |-> FALSE]
      /\ \A j \in Backends : j # i => backs'[j] = backs[j]
  BY <1>1, <1>2, <1>3, <1>4, TakePool DEF CheckoutIdle
<1>6. /\ at' = [at EXCEPT ![s] = "serving"] /\ using' = [using EXCEPT ![s] = i]
      /\ unclean' = unclean \cup {i} /\ marked' = marked /\ process' = process
  BY <1>1 DEF Serves, CheckoutIdle
<1>7. Elems(idle') \subseteq Elems(idle) \ {i}
  <2> SUFFICES ASSUME NEW k \in 1..n - 1 PROVE idle[k] \in Elems(idle) /\ idle[k] # idle[n]
    BY <1>4
  <2>1. k \in DOMAIN idle /\ k # n
    BY <1>2
  <2> QED BY <2>1 DEF Elems, IInv, PoolOK, Distinct
<1>8. \A j \in Backends : j # i /\ Known(j) /\ backs[j].piped => j \in Elems(idle')
  <2> SUFFICES ASSUME NEW j \in Backends, j # i, Known(j), backs[j].piped
               PROVE  j \in Elems(idle')
    OBVIOUS
  <2>1. Usable(j) /\ j \in Elems(idle)
    BY DEF IInv, IdleSound, Usable, Known
  <2>2. PICK m \in 1..Len(idle) : j = idle[m]
    BY <1>2, <2>1 DEF Elems
  <2>3. ~(m > n) /\ m # n
    BY <1>1, <1>2, <2>1, <2>2
  <2> QED BY <1>2, <1>4, <2>2, <2>3
<1>9. Serves(s, i)
  BY <1>1
<1> HIDE DEF i
<1> QED
  BY <1>3, <1>5, <1>6, <1>7, <1>8, <1>9, ServeInv

\* Nobody in the queue can be handed out: they are all dead.
LEMMA CheckoutNoneInv ==
  ASSUME IInv, NEW s \in Session, CheckoutNone(s) PROVE IInv'
<1> USE DEF CheckoutNone
<1>1. at[s] = "away" /\ ~marked[s] /\ UNCHANGED <<backs, alive_count, process, using, marked, unclean>>
  BY DEF IInv, UncleanOut
<1>2. \A t \in Session : t # s => at'[t] = at[t]
  BY DEF IInv, SessionsOK
<1>3. at'[s] = "spawning" /\ SessionsOK'
  BY DEF IInv, SessionsOK, Backends
<1>4. \A j \in Backends : ~(Known(j) /\ backs[j].piped)
  <2> SUFFICES ASSUME NEW j \in Backends, Known(j), backs[j].piped PROVE FALSE
    OBVIOUS
  <2>1. j \in Elems(idle) /\ Usable(j)
    BY DEF IInv, IdleSound, Known, Usable
  <2> QED BY <2>1 DEF Elems
<1>5. idle' = <<>> /\ idle' \in Seq(Backends) /\ Distinct(idle') /\ Elems(idle') = {}
  BY DEF Distinct, Elems
<1>6. PoolOK'
  BY <1>1, <1>5 DEF IInv, PoolOK, AliveCounted, Backends, Known
<1> HIDE DEF CheckoutNone
<1>7. IdleSound'
  BY <1>1, <1>4, <1>5 DEF IInv, IdleSound, Backends, Known
<1>8. PipesOnce' /\ UncleanOut' /\ ReapedStruck'
  BY <1>1, <1>2, <1>3 DEF IInv, PipesOnce, UncleanOut, ReapedStruck, Backends, Known
<1>9. \A j : (Held(j)' <=> Held(j)) /\ (Claiming(j)' <=> Claiming(j))
  BY <1>1, <1>2, <1>3 DEF Held, Claiming
<1>10. WorkersPlaced'
  BY <1>1, <1>9 DEF IInv, WorkersPlaced, Backends, Known
<1>11. Rest' = Rest
  BY <1>1, <1>9 DEF Rest, Backends, Known
<1> QED BY <1>3, <1>6, <1>7, <1>8, <1>10, <1>11 DEF IInv, RestFits

\* A new backend is known to the whole pool before its session claims it.
LEMMA RegisterPool ==
  ASSUME PoolOK, NEW s \in Session, Register(s)
  PROVE  /\ PoolOK' /\ Len(backs') = Len(backs) + 1 /\ Backends' = Backends \cup {Len(backs')}
         /\ Len(backs') \notin Backends
         /\ backs'[Len(backs')] = NewBackend
         /\ \A j \in Backends : backs'[j] = backs[j]
         /\ Elems(idle') = Elems(idle) \cup {Len(backs')}
<1> DEFINE n == Len(backs')
<1>1. Len(backs) \in Nat /\ Backends = 1..Len(backs) /\ Len(backs) < MaxBackends
  BY BackendNumbers, SizeAssumption DEF PoolOK, Register
<1>2. NewBackend \in BackendType
  BY DEF NewBackend, BackendType
<1>3. /\ backs' \in Seq(BackendType) /\ n = Len(backs) + 1
      /\ \A j \in 1..Len(backs) : backs'[j] = backs[j]
      /\ backs'[n] = NewBackend
  BY <1>2, AppendProperties DEF PoolOK, Register
<1>4. Backends' = Backends \cup {n} /\ n \notin Backends
  <2>1. DOMAIN backs' = 1..n
    BY <1>3, LenProperties
  <2> QED BY <1>1, <1>3, <2>1 DEF Backends
<1>5. idle \in Seq(Backends')
  BY <1>4, SeqMonotonic DEF PoolOK
<1>6. Len(idle) \in Nat /\ DOMAIN idle = 1..Len(idle) /\ n \notin Elems(idle)
  BY <1>4, LenProperties DEF PoolOK, Elems
<1>7. /\ idle' \in Seq(Backends') /\ Distinct(idle') /\ Elems(idle') = Elems(idle) \cup {n}
  BY <1>4, <1>5, <1>6, AppendDistinct DEF PoolOK, Register
<1>8. Alive' = Alive \cup {n}
  BY <1>1, <1>3, <1>4 DEF Alive, Known, NewBackend
<1>9. IsFiniteSet(Alive) /\ Cardinality(Alive) \in 0..Len(backs) /\ alive_count = Cardinality(Alive)
  BY BackendSets DEF PoolOK, AliveCounted, Alive
<1>10. Cardinality(Alive') = alive_count + 1 /\ alive_count' = alive_count + 1
  BY <1>4, <1>8, <1>9, FS_AddElement DEF Alive, Register
<1>11. AliveCounted' /\ alive_count' \in 0..MaxBackends /\ Len(backs') <= MaxBackends
  BY <1>1, <1>3, <1>9, <1>10, SizeAssumption DEF AliveCounted, Alive
<1> HIDE DEF n
<1>12. PoolOK'
  BY <1>3, <1>7, <1>11 DEF PoolOK, n
<1> QED BY <1>1, <1>3, <1>4, <1>7, <1>12 DEF n

\* A new backend joins the pool, idle, and is about to be claimed.
LEMMA RegisterInv ==
  ASSUME IInv, NEW s \in Session, Register(s) PROVE IInv'
<1> DEFINE n == Len(backs')
<1>1. /\ PoolOK' /\ n = Len(backs) + 1 /\ Backends' = Backends \cup {n} /\ n \notin Backends
      /\ backs'[n] = [alive |-> TRUE, in_use |-> FALSE, piped |-> TRUE]
      /\ \A j \in Backends : backs'[j] = backs[j]
      /\ Elems(idle') = Elems(idle) \cup {n}
  BY RegisterPool DEF IInv, NewBackend
<1>2. /\ at[s] = "spawning" /\ at' = [at EXCEPT ![s] = "claiming"]
      /\ using' = [using EXCEPT ![s] = n] /\ UNCHANGED <<marked, unclean>>
      /\ \E p \in {"up", "down"} : process' = Append(process, p)
  BY DEF Register
<1> HIDE DEF n
<1>3. /\ process' \in Seq({"up", "down", "reaped"}) /\ Len(process') = Len(backs')
      /\ process'[n] # "reaped" /\ \A j \in Backends : process'[j] = process[j]
  <2>1. PICK p \in {"up", "down"} : process' = Append(process, p)
    BY <1>2
  <2>2. process \in Seq({"up", "down", "reaped"}) /\ Len(process) = Len(backs)
    BY DEF IInv, SessionsOK
  <2>3. Backends = 1..Len(backs)
    BY BackendNumbers DEF IInv, PoolOK
  <2> QED BY <1>1, <2>1, <2>2, <2>3, AppendProperties DEF n
<1>4. SessionsOK'
  BY <1>1, <1>2, <1>3 DEF IInv, SessionsOK
<1>5. Elems(idle) \subseteq Backends
  BY LenProperties DEF IInv, PoolOK, Elems
<1>6. IdleSound'
  BY <1>1, <1>5 DEF IInv, IdleSound, Known
<1>7. /\ at'[s] = "claiming" /\ using'[s] = n
      /\ \A t \in Session : t # s => at'[t] = at[t] /\ using'[t] = using[t]
  BY <1>2 DEF IInv, SessionsOK
<1>8. PipesOnce'
  BY <1>1, <1>2, <1>7 DEF IInv, PipesOnce
<1>9. \A j : Held(j)' <=> Held(j)
  BY <1>2, <1>7 DEF Held
<1>10. WorkersPlaced' /\ ReapedStruck'
  BY <1>1, <1>3, <1>9 DEF IInv, WorkersPlaced, ReapedStruck, Known
<1>11. UncleanOut'
  <2>1. unclean \subseteq Backends
    BY DEF IInv, SessionsOK
  <2>2. \A j \in unclean' : ~backs'[j].piped
    BY <1>1, <1>2, <2>1 DEF IInv, UncleanOut
  <2>3. \A t \in Session : marked'[t] => t # s
    BY <1>2 DEF IInv, UncleanOut
  <2> QED BY <1>2, <1>7, <2>2, <2>3 DEF IInv, UncleanOut
<1>12. RestFits'
  <2>1. \A j : Claiming(j) \/ j = n => Claiming(j)'
    BY <1>2, <1>7 DEF Claiming
  <2>2. ASSUME NEW j \in Rest' PROVE j \in Rest
    <3>1. j \in Backends' /\ Known(j)' /\ process'[j] = "up" /\ ~Held(j)' /\ ~Claiming(j)'
      BY DEF Rest
    <3>2. j # n /\ j \in Backends /\ ~Claiming(j)
      BY <1>1, <2>1, <3>1
    <3> QED BY <1>1, <1>3, <1>9, <3>1, <3>2 DEF Rest, Known
  <2> QED BY <2>2, RestShrinks DEF IInv
<1> QED BY <1>1, <1>4, <1>6, <1>8, <1>10, <1>11, <1>12 DEF IInv

\* A session ends: what it held is out of work or back in the pool.
LEMMA EndInv ==
  ASSUME IInv, NEW s \in Session, Ended(s),
         PoolOK', Backends' = Backends, Len(backs') = Len(backs),
         UNCHANGED <<process, unclean>>,
         IdleSound', ReapedStruck', RestFits',
         \A j \in Backends : Known(j)' => Known(j),
         \A j \in Backends :
           IF at[s] = "serving" /\ using[s] = j
           THEN /\ backs'[j].piped \/ ~(Known(j)' /\ process[j] = "up")
                /\ backs'[j].piped => j \notin unclean
           ELSE backs'[j].piped = backs[j].piped
  PROVE  IInv'
<1>1. /\ at'[s] = "away" /\ ~marked'[s] /\ SessionsOK'
      /\ \A t \in Session : t # s => at'[t] = at[t] /\ using'[t] = using[t] /\ marked'[t] = marked[t]
  BY DEF IInv, SessionsOK, Ended
<1>2. PipesOnce'
  BY <1>1 DEF IInv, PipesOnce
<1>3. \A j \in Backends : Held(j) => Held(j)' \/ (at[s] = "serving" /\ using[s] = j)
  <2> SUFFICES ASSUME NEW j \in Backends, NEW t \in Session, at[t] = "serving", using[t] = j
               PROVE  Held(j)' \/ (at[s] = "serving" /\ using[s] = j)
    BY DEF Held
  <2>1. CASE t = s
    BY <2>1
  <2>2. CASE t # s
    <3>1. at'[t] = "serving" /\ using'[t] = j
      BY <1>1, <2>2
    <3> QED BY <3>1 DEF Held
  <2> QED BY <2>1, <2>2
<1>4. WorkersPlaced'
  BY <1>3 DEF IInv, WorkersPlaced
<1>5. UncleanOut'
  <2>1. unclean \subseteq Backends
    BY DEF IInv, SessionsOK
  <2> QED BY <1>1, <2>1 DEF IInv, UncleanOut
<1> QED BY <1>1, <1>2, <1>4, <1>5 DEF IInv

\* Nothing was started, so nothing is lost.
LEMMA SpawnFailsInv ==
  ASSUME IInv, NEW s \in Session, SpawnFails(s) PROVE IInv'
<1>1. /\ at[s] = "spawning" /\ Ended(s)
      /\ UNCHANGED <<backs, idle, alive_count, process, unclean>>
  BY DEF SpawnFails, poolVars
<1>2. /\ PoolOK' /\ Backends' = Backends /\ Len(backs') = Len(backs)
      /\ IdleSound' /\ ReapedStruck'
  BY <1>1 DEF IInv, PoolOK, IdleSound, ReapedStruck, AliveCounted, Backends, Known
<1>3. \A t \in Session : at[t] \in {"serving", "claiming"} => at'[t] = at[t] /\ using'[t] = using[t]
  BY <1>1 DEF Ended, IInv, SessionsOK
<1>4. RestFits'
  <2>1. \A j : (Held(j) => Held(j)') /\ (Claiming(j) => Claiming(j)')
    BY <1>3 DEF Held, Claiming
  <2>2. Rest' \subseteq Rest
    BY <1>1, <2>1 DEF Rest, Backends, Known
  <2> QED BY <2>2, RestShrinks DEF IInv
<1> QED BY <1>1, <1>2, <1>4, EndInv DEF Known

\* The pipes are there for the claim, or the backend has found another client
\* and the task is over.
LEMMA ClaimInv ==
  ASSUME IInv, NEW s \in Session, Claim(s) PROVE IInv'
<1> DEFINE i == using[s]
<1>1. i \in Backends /\ at[s] = "claiming"
  BY DEF Claim, IInv, PipesOnce
<1>2. idle' \in Seq(Backends) /\ Distinct(idle') /\ Elems(idle') = Elems(idle) \ {i}
  BY RemoveFirstDistinct DEF Claim, IInv, PoolOK
<1>3. /\ PoolOK' /\ Backends' = Backends /\ Len(backs') = Len(backs)
      /\ backs'[i] = [alive |-> Known(i), in_use |-> TRUE, piped |-> FALSE]
      /\ \A j \in Backends : j # i => backs'[j] = backs[j]
  BY <1>1, <1>2, TakePool DEF Claim, IInv
<1>4. \A j \in Backends : j # i /\ Known(j) /\ backs[j].piped => j \in Elems(idle')
  BY <1>2 DEF IInv, IdleSound
<1>5. CASE backs[i].piped
  <2>1. Serves(s, i) /\ process' = process
    BY <1>5 DEF Claim
  <2> HIDE DEF i
  <2>2. at[s] = "claiming" => using[s] = i
    BY DEF i
  <2> QED BY <1>1, <1>2, <1>3, <1>4, <1>5, <2>1, <2>2, ServeInv
<1>6. CASE ~backs[i].piped
  <2>1. Ended(s) /\ UNCHANGED <<process, unclean>>
    BY <1>6 DEF Claim
  <2>2. /\ \A t \in Session : t # s => at'[t] = at[t] /\ using'[t] = using[t]
    BY <2>1 DEF Ended, IInv, SessionsOK
  <2>3. \A j \in Backends : Known(j)' = Known(j) /\ backs'[j].piped = backs[j].piped
    <3>1. backs[i].piped = FALSE
      BY <1>1, <1>6, BackendNumbers DEF IInv, PoolOK, BackendType
    <3>2. backs'[i].alive = Known(i) /\ backs'[i].piped = FALSE
      BY <1>3
    <3> HIDE DEF i
    <3> QED BY <1>3, <3>1, <3>2 DEF Known
  <2>4. IdleSound'
    <3>1. Elems(idle) \subseteq Backends
      BY LenProperties DEF IInv, PoolOK, Elems
    <3>2. \A j \in Elems(idle') : backs'[j].piped
      BY <1>2, <2>3, <3>1 DEF IInv, IdleSound
    <3>3. \A j \in Backends : Known(j)' /\ backs'[j].piped => j \in Elems(idle')
      BY <1>4, <1>6, <2>3
    <3>4. \A j \in Backends : backs'[j].piped => ~backs'[j].in_use
      BY <1>3, <1>6, <2>3 DEF IInv, IdleSound
    <3> QED BY <1>3, <3>2, <3>3, <3>4 DEF IdleSound
  <2>5. ReapedStruck'
    BY <1>3, <2>1, <2>3 DEF IInv, ReapedStruck
  <2>6. RestFits'
    <3>1. \A j : (Held(j) => Held(j)') /\ (Claiming(j) => Claiming(j)' \/ j = i)
      BY <1>1, <2>2 DEF Held, Claiming
    <3>2. Known(i) /\ process[i] = "up" => Held(i)
      BY <1>1, <1>6 DEF IInv, WorkersPlaced
    <3>3. Rest' \subseteq Rest
      <4> SUFFICES ASSUME NEW j \in Rest' PROVE j \in Rest
        OBVIOUS
      <4>1. j \in Backends /\ Known(j)' /\ process[j] = "up" /\ ~Held(j)' /\ ~Claiming(j)'
        BY <1>3, <2>1 DEF Rest
      <4>2. Known(j) /\ ~Held(j) /\ (Claiming(j) => j = i)
        BY <2>3, <3>1, <4>1
      <4> HIDE DEF i
      <4> QED BY <3>2, <4>1, <4>2 DEF Rest
    <3> QED BY <3>3, RestShrinks DEF IInv
  <2> HIDE DEF i
  <2> QED BY <1>1, <1>3, <2>1, <2>3, <2>4, <2>5, <2>6, EndInv
<1> QED BY <1>5, <1>6

\* The client sends the marker, and its backend is clean again.
LEMMA MarkInv ==
  ASSUME IInv, NEW s \in Session, Mark(s) PROVE IInv'
<1> USE DEF Mark, poolVars
<1>1. PoolOK' /\ IdleSound' /\ PipesOnce' /\ WorkersPlaced' /\ ReapedStruck' /\ Rest' = Rest
  BY DEF IInv, PoolOK, IdleSound, PipesOnce, WorkersPlaced, ReapedStruck, AliveCounted,
         Backends, Known, Rest, Held, Claiming
<1>2. SessionsOK'
  BY DEF IInv, SessionsOK, Backends
<1>3. UncleanOut'
  BY DEF IInv, UncleanOut, SessionsOK
<1> QED BY <1>1, <1>2, <1>3 DEF IInv, RestFits

\* A task that ends without checkin leaves a backend that has stopped.
LEMMA WriteFailsInv ==
  ASSUME IInv, NEW s \in Session, WriteFails(s) PROVE IInv'
<1>1. /\ at[s] = "serving" /\ process[using[s]] # "up" /\ Ended(s)
      /\ UNCHANGED <<backs, idle, alive_count, process, unclean>>
  BY DEF WriteFails, poolVars
<1>2. /\ PoolOK' /\ Backends' = Backends /\ Len(backs') = Len(backs)
      /\ IdleSound' /\ ReapedStruck'
  BY <1>1 DEF IInv, PoolOK, IdleSound, ReapedStruck, AliveCounted, Backends, Known
<1>3. \A t \in Session : t # s => at'[t] = at[t] /\ using'[t] = using[t]
  BY <1>1 DEF Ended, IInv, SessionsOK
<1>4. RestFits'
  <2>1. \A j : (Held(j) => Held(j)' \/ j = using[s]) /\ (Claiming(j) => Claiming(j)')
    BY <1>1, <1>3 DEF Held, Claiming
  <2>2. Rest' \subseteq Rest
    BY <1>1, <2>1 DEF Rest, Backends, Known
  <2> QED BY <2>2, RestShrinks DEF IInv
<1>5. ~backs[using[s]].piped
  BY <1>1 DEF IInv, PipesOnce
<1> QED BY <1>1, <1>2, <1>4, <1>5, EndInv DEF Known

\* A backend comes back to the pool only when the pool is not over its size.
LEMMA CheckinInv ==
  ASSUME IInv, NEW s \in Session, Checkin(s) PROVE IInv'
<1> DEFINE i == using[s]
<1>1. /\ at[s] = "serving" /\ i \in Backends /\ ~backs[i].piped /\ i \notin Elems(idle)
      /\ Ended(s) /\ UNCHANGED <<process, unclean>> /\ PoolOK
  BY DEF Checkin, IInv, PipesOnce, IdleSound
<1>2. Elems(idle) \subseteq Backends
  BY LenProperties DEF IInv, PoolOK, Elems
<1>3. \A t \in Session : t # s => at'[t] = at[t] /\ using'[t] = using[t]
  BY <1>1 DEF Ended, IInv, SessionsOK
<1>4. \A j : (Held(j) => Held(j)' \/ j = i) /\ (Claiming(j) => Claiming(j)')
  BY <1>1, <1>3 DEF Held, Claiming
<1>5. CASE StrikeOff(i)
  <2> HIDE DEF i
  <2>1. /\ PoolOK' /\ Backends' = Backends /\ Len(backs') = Len(backs)
        /\ backs'[i] = [alive |-> FALSE, in_use |-> FALSE, piped |-> FALSE]
        /\ \A j \in Backends : j # i => backs'[j] = backs[j]
        /\ Elems(idle') = Elems(idle) \ {i}
    BY <1>1, <1>5, StrikeOffPool
  <2>2. IdleSound' /\ ReapedStruck'
    BY <1>1, <1>2, <2>1 DEF IInv, IdleSound, ReapedStruck, Known
  <2>3. Rest' \subseteq Rest
    BY <1>1, <1>4, <2>1 DEF Rest, Known
  <2>4. RestFits'
    BY <1>1, <2>3, RestShrinks DEF IInv
  <2>5. \A j \in Backends : Known(j)' => Known(j)
    BY <2>1 DEF Known
  <2>6. \A j \in Backends :
          IF at[s] = "serving" /\ using[s] = j
          THEN /\ backs'[j].piped \/ ~(Known(j)' /\ process[j] = "up")
               /\ backs'[j].piped => j \notin unclean
          ELSE backs'[j].piped = backs[j].piped
    BY <1>1, <2>1 DEF i, Known
  <2> QED BY <1>1, <2>1, <2>2, <2>4, <2>5, <2>6, EndInv
<1>6. CASE Recycle(i) /\ ~Over /\ marked[s]
  <2> HIDE DEF i
  <2>1. /\ PoolOK' /\ Backends' = Backends /\ Len(backs') = Len(backs)
        /\ backs'[i] = [alive |-> Known(i), in_use |-> FALSE, piped |-> TRUE]
        /\ \A j \in Backends : j # i => backs'[j] = backs[j]
        /\ Elems(idle') = Elems(idle) \cup {i}
    BY <1>1, <1>6, RecyclePool
  <2>2. \A j \in Backends : Known(j)' = Known(j)
    BY <2>1 DEF Known
  <2>3. IdleSound' /\ ReapedStruck'
    BY <1>1, <1>2, <2>1, <2>2 DEF IInv, IdleSound, ReapedStruck
  <2>4. RestFits'
    <3>1. Rest' \subseteq Alive
      BY <2>1, <2>2 DEF Rest, Alive
    <3>2. IsFiniteSet(Alive) /\ Cardinality(Alive) \in Nat /\ Cardinality(Alive) = alive_count
      BY <1>1, BackendSets, BackendNumbers DEF PoolOK, AliveCounted, Alive
    <3>3. Cardinality(Rest') <= Cardinality(Alive) /\ IsFiniteSet(Rest')
      BY <3>1, <3>2, FS_Subset
    <3>4. Cardinality(Rest') \in Nat
      BY <3>3, FS_CardinalityType
    <3> QED BY <1>6, <3>2, <3>3, <3>4, SizeAssumption DEF RestFits, Over
  <2>5. backs'[i].piped /\ using[s] = i /\ i \notin unclean
    BY <1>6, <2>1 DEF i, IInv, UncleanOut
  <2> QED BY <1>1, <2>1, <2>2, <2>3, <2>4, <2>5, EndInv
<1> QED BY <1>5, <1>6 DEF Checkin

\* A process that stops takes nothing along but its work.
LEMMA ExitInv ==
  ASSUME IInv, NEW i \in Backends, Exit(i) PROVE IInv'
<1>1. /\ UNCHANGED <<backs, idle, alive_count, at, using, marked, unclean>>
      /\ process' = [process EXCEPT ![i] = "down"]
  BY DEF Exit, poolVars, sessionVars
<1>2. /\ process' \in Seq({"up", "down", "reaped"}) /\ Len(process') = Len(backs)
      /\ process'[i] = "down" /\ \A j \in Backends : j # i => process'[j] = process[j]
  <2>1. process \in Seq({"up", "down", "reaped"}) /\ Len(process) = Len(backs)
    BY DEF IInv, SessionsOK
  <2>2. Backends = 1..Len(backs)
    BY BackendNumbers DEF IInv, PoolOK
  <2> QED BY <1>1, <2>1, <2>2, ExceptSeq
<1>3. PoolOK' /\ IdleSound' /\ PipesOnce' /\ UncleanOut'
  BY <1>1 DEF IInv, PoolOK, IdleSound, PipesOnce, UncleanOut, AliveCounted, Backends, Known
<1>4. SessionsOK'
  BY <1>1, <1>2 DEF IInv, SessionsOK, Backends
<1>5. Backends' = Backends /\ \A j : (Known(j)' <=> Known(j)) /\ (Held(j)' <=> Held(j)) /\ (Claiming(j)' <=> Claiming(j))
  BY <1>1 DEF Backends, Known, Held, Claiming
<1>6. WorkersPlaced' /\ ReapedStruck'
  BY <1>1, <1>2, <1>5 DEF IInv, WorkersPlaced, ReapedStruck
<1>7. Rest' \subseteq Rest
  BY <1>1, <1>2, <1>5 DEF Rest
<1>8. RestFits'
  BY <1>7, RestShrinks DEF IInv
<1> QED BY <1>3, <1>4, <1>6, <1>8 DEF IInv

\* The reaper strikes off what no checkin has.
LEMMA ReapInv ==
  ASSUME IInv, NEW i \in Backends, Reap(i) PROVE IInv'
<1>1. /\ UNCHANGED <<at, using, marked, unclean>> /\ process[i] = "down"
      /\ process' = [process EXCEPT ![i] = "reaped"] /\ PoolOK
  BY DEF Reap, sessionVars, IInv
<1>2. /\ process' \in Seq({"up", "down", "reaped"}) /\ Len(process') = Len(backs)
      /\ process'[i] = "reaped" /\ \A j \in Backends : j # i => process'[j] = process[j]
  <2>1. process \in Seq({"up", "down", "reaped"}) /\ Len(process) = Len(backs)
    BY DEF IInv, SessionsOK
  <2>2. Backends = 1..Len(backs)
    BY BackendNumbers DEF IInv, PoolOK
  <2> QED BY <1>1, <2>1, <2>2, ExceptSeq
<1>3. Elems(idle) \subseteq Backends
  BY LenProperties DEF IInv, PoolOK, Elems
<1>4. /\ PoolOK' /\ Backends' = Backends /\ Len(backs') = Len(backs) /\ ~backs'[i].alive
      /\ backs'[i].piped => backs[i].piped /\ ~backs'[i].in_use
      /\ \A j \in Backends : j # i => backs'[j] = backs[j]
      /\ Elems(idle') = Elems(idle) \ {i}
  <2>1. CASE Known(i)
    <3>1. StrikeOff(i)
      BY <2>1 DEF Reap
    <3> QED BY <1>1, <3>1, StrikeOffPool
  <2>2. CASE ~Known(i)
    <3>1. idle' = RemoveFirst(idle, i) /\ UNCHANGED <<backs, alive_count>>
      BY <2>2 DEF Reap
    <3>2. idle' \in Seq(Backends) /\ Distinct(idle') /\ Elems(idle') = Elems(idle) \ {i}
      BY <3>1, RemoveFirstDistinct DEF IInv, PoolOK
    <3>3. PoolOK' /\ Backends' = Backends
      BY <3>1, <3>2 DEF IInv, PoolOK, AliveCounted, Backends, Known
    <3>4. backs[i].piped => ~backs[i].in_use
      BY DEF IInv, IdleSound
    <3> QED BY <2>2, <3>1, <3>2, <3>3, <3>4 DEF Known
  <2> QED BY <2>1, <2>2
<1>5. SessionsOK'
  BY <1>1, <1>2, <1>4 DEF IInv, SessionsOK
<1>6. IdleSound'
  BY <1>3, <1>4 DEF IInv, IdleSound, Known
<1>7. PipesOnce'
  BY <1>1, <1>4 DEF IInv, PipesOnce
<1>8. \A j : (Held(j)' <=> Held(j)) /\ (Claiming(j)' <=> Claiming(j))
  BY <1>1 DEF Held, Claiming
<1>9. WorkersPlaced' /\ ReapedStruck'
  BY <1>2, <1>4, <1>8 DEF IInv, WorkersPlaced, ReapedStruck, Known
<1>10. UncleanOut'
  BY <1>1, <1>4 DEF IInv, UncleanOut, SessionsOK
<1>11. Rest' \subseteq Rest
  BY <1>2, <1>4, <1>8 DEF Rest, Known
<1>12. RestFits'
  BY <1>11, RestShrinks DEF IInv
<1> QED BY <1>4, <1>5, <1>6, <1>7, <1>9, <1>10, <1>12 DEF IInv

\* Every step keeps the invariant.
LEMMA NextInv == IInv /\ [Next]_vars => IInv'
<1> SUFFICES ASSUME IInv, [Next]_vars PROVE IInv'
  OBVIOUS
<1>1. CASE UNCHANGED vars
  <2>1. PoolOK' /\ SessionsOK' /\ IdleSound'
    BY <1>1 DEF vars, IInv, PoolOK, SessionsOK, IdleSound, AliveCounted, Backends, Known
  <2>2. PipesOnce' /\ WorkersPlaced' /\ ReapedStruck' /\ UncleanOut'
    BY <1>1 DEF vars, IInv, PipesOnce, WorkersPlaced, ReapedStruck, UncleanOut, Backends, Known, Held
  <2>3. Rest' = Rest
    BY <1>1 DEF vars, Rest, Backends, Known, Held, Claiming
  <2> QED BY <2>1, <2>2, <2>3 DEF IInv, RestFits
<1>2. ASSUME NEW s \in Session,
             CheckoutIdle(s) \/ CheckoutNone(s) \/ Register(s) \/ SpawnFails(s)
      PROVE  IInv'
  BY <1>2, CheckoutIdleInv, CheckoutNoneInv, RegisterInv, SpawnFailsInv
<1>3. ASSUME NEW s \in Session, Claim(s) \/ Mark(s) \/ WriteFails(s) \/ Checkin(s)
      PROVE  IInv'
  BY <1>3, ClaimInv, MarkInv, WriteFailsInv, CheckinInv
<1>4. ASSUME NEW i \in Backends, Exit(i) \/ Reap(i) PROVE IInv'
  BY <1>4, ExitInv, ReapInv
<1> QED BY <1>1, <1>2, <1>3, <1>4 DEF Next

\* The invariant holds in every reachable state.
LEMMA Inductive == Spec => []IInv
BY InitInv, NextInv, PTL DEF Spec

-----------------------------------------------------------------------------
(* Theorems *)

\* The types, with backends that are only ever added.
THEOREM TypeCorrect == Spec => []TypeOK
<1>1. IInv => TypeOK
  BY DEF IInv, PoolOK, SessionsOK, TypeOK, BackendType
<1> QED BY Inductive, <1>1, PTL

\* alive_count is the number of backends alive, whoever struck them off.
THEOREM CountExact == Spec => []AliveCounted
<1>1. IInv => AliveCounted
  BY DEF IInv, PoolOK
<1> QED BY Inductive, <1>1, PTL

\* A working backend is with a client or in the pool, where the next checkout
\* finds it.
THEOREM NoneLost == Spec => []NoneStranded
<1>1. IInv => NoneStranded
  <2> SUFFICES ASSUME IInv, NEW i \in Backends, Known(i), process[i] = "up", ~Held(i)
               PROVE  Usable(i) /\ Contains(idle, i)
    BY DEF NoneStranded
  <2>1. backs[i].piped /\ ~backs[i].in_use /\ i \in Elems(idle)
    BY DEF IInv, WorkersPlaced, IdleSound
  <2>2. DOMAIN idle = 1..Len(idle)
    BY LenProperties DEF IInv, PoolOK
  <2> QED BY <2>1, <2>2 DEF Usable, Known, Contains, Elems
<1> QED BY Inductive, <1>1, PTL

\* When nobody is served and the reapers are through, the pool has at most its
\* size.
THEOREM ShrinksBack == Spec => []SizeKept
<1>1. IInv => SizeKept
  <2> SUFFICES ASSUME IInv, \A s \in Session : at[s] = "away",
                      \A i \in Backends : process[i] # "down"
               PROVE  alive_count <= pool_size
    BY DEF SizeKept
  <2>1. \A i \in Backends : process[i] \in {"up", "down", "reaped"}
    <3>1. Backends = 1..Len(process)
      BY BackendNumbers DEF IInv, PoolOK, SessionsOK
    <3>2. process \in Seq({"up", "down", "reaped"})
      BY DEF IInv, SessionsOK
    <3> QED BY <3>1, <3>2
  <2>2. Rest = Alive
    BY <2>1 DEF IInv, ReapedStruck, Rest, Alive, Held, Claiming
  <2> QED BY <2>2 DEF IInv, RestFits, PoolOK, AliveCounted, Alive
<1> QED BY Inductive, <1>1, PTL

\* A client is never given a backend whose last client has not sent the marker.
THEOREM HandsOverClean == Spec => CleanHandover
<1>1. IInv /\ [Next]_vars =>
        [\A s \in Session : at[s] # "serving" /\ at'[s] = "serving" => using'[s] \notin unclean]_vars
  <2> SUFFICES ASSUME IInv, Next, NEW s \in Session, at[s] # "serving", at'[s] = "serving"
               PROVE  using'[s] \notin unclean
    OBVIOUS
  <2>1. ASSUME NEW t \in Session, NEW i \in Backends, Serves(t, i), backs[i].piped
        PROVE  using'[s] \notin unclean
    <3>1. s = t /\ using'[s] = i
      BY <2>1 DEF Serves, IInv, SessionsOK
    <3> QED BY <2>1, <3>1 DEF IInv, UncleanOut
  <2>2. ASSUME NEW t \in Session, CheckoutIdle(t) PROVE using'[s] \notin unclean
    <3>1. PICK n \in DOMAIN idle : Usable(idle[n]) /\ Serves(t, idle[n])
      BY <2>2 DEF CheckoutIdle
    <3>2. idle[n] \in Backends /\ backs[idle[n]].piped
      BY <3>1 DEF IInv, PoolOK, Usable
    <3> QED BY <2>1, <3>1, <3>2
  <2>3. ASSUME NEW t \in Session, Claim(t) PROVE using'[s] \notin unclean
    <3>1. CASE backs[using[t]].piped
      BY <2>1, <2>3, <3>1 DEF Claim, IInv, PipesOnce
    <3>2. CASE ~backs[using[t]].piped
      BY <2>3, <3>2 DEF Claim, Ended, IInv, SessionsOK
    <3> QED BY <3>1, <3>2
  <2>4. ASSUME NEW t \in Session,
               \/ CheckoutNone(t) \/ Register(t) \/ SpawnFails(t)
               \/ Mark(t) \/ WriteFails(t) \/ Checkin(t)
        PROVE  FALSE
    BY <2>4 DEF CheckoutNone, Register, SpawnFails, Mark, WriteFails, Checkin, Ended, IInv, SessionsOK
  <2>5. ASSUME NEW i \in Backends, Exit(i) \/ Reap(i) PROVE FALSE
    BY <2>5 DEF Exit, Reap, sessionVars
  <2> QED BY <2>2, <2>3, <2>4, <2>5 DEF Next
<1> QED BY Inductive, <1>1, PTL DEF Spec, CleanHandover
=============================================================================
