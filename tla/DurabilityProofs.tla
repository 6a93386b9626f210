-------------------------- MODULE DurabilityProofs --------------------------
(***************************************************************************)
(* Proofs about Durability, for every set of keys and values, every size of *)
(* the buffer and every bound on the records.                               *)
(***************************************************************************)
EXTENDS Durability, Integers, SequencesExt, SequenceTheorems, WellFoundedInduction, TLAPS

-----------------------------------------------------------------------------
(* Sequences and their indices *)

\* A function on 1..n is a sequence of length n, and the other way round.
LEMMA FunctionIsSequence ==
  ASSUME NEW S, NEW n \in Nat, NEW f \in [1..n -> S]
  PROVE  f \in Seq(S) /\ Len(f) = n
OBVIOUS

\* A sequence is a function on its positions.
LEMMA SequenceIsFunction ==
  ASSUME NEW S, NEW q \in Seq(S), NEW n, Len(q) = n
  PROVE  q = [i \in 1..n |-> q[i]]
OBVIOUS

\* Some indices of a sequence have a least one, and a greatest one.
LEMMA LeastIndex ==
  ASSUME NEW I \in SUBSET Nat, I # {}
  PROVE  Min(I) \in I /\ \A i \in I : Min(I) <= i
<1>1. PICK x \in I : \A y \in I : ~(<<y, x>> \in OpToRel(<, Nat))
  BY WFMin, NatLessThanWellFounded, Zenon
<1>2. \A y \in I : ~(y < x)
  BY <1>1 DEF OpToRel
<1>3. \E z \in I : \A y \in I : z =< y
  BY <1>2
<1> QED BY <1>3, Zenon DEF Min

\* A set of positions that is not empty has a last one.
LEMMA GreatestIndex ==
  ASSUME NEW n \in Nat, NEW I \in SUBSET (0..n), I # {}
  PROVE  Max(I) \in I /\ \A i \in I : i <= Max(I)
<1> DEFINE J == {n - i : i \in I}
<1>0. \A i \in I : i \in 0..n /\ n - i \in Nat
  OBVIOUS
<1>1. J \in SUBSET Nat /\ J # {}
  BY <1>0
<1>2. Min(J) \in J /\ \A j \in J : Min(J) <= j
  <2> HIDE DEF J
  <2> QED BY <1>1, LeastIndex
<1>3. PICK x \in I : Min(J) = n - x
  BY <1>2
<1>4. \E z \in I : \A i \in I : z >= i
  <2>1. ASSUME NEW i \in I PROVE x >= i
    <3>1. n - x <= n - i
      BY <1>2, <1>3
    <3> QED BY <1>0, <3>1
  <2> QED BY <2>1
<1>5. Max(I) \in I /\ \A i \in I : Max(I) >= i
  BY <1>4, Zenon DEF Max
<1>6. ASSUME NEW i \in I PROVE i <= Max(I)
  <2>1. Max(I) >= i /\ Max(I) \in 0..n /\ i \in 0..n
    BY <1>0, <1>5
  <2> QED BY <2>1
<1> QED BY <1>5, <1>6

File == Seq(Record \cup {Torn})

-----------------------------------------------------------------------------
(* What replaying records does to a map *)

\* A key no record has keeps its value; otherwise its last record decides.
LEMMA AppliedAt ==
  ASSUME NEW m, NEW r \in Seq(Record), NEW k \in Key
  PROVE  /\ (\A i \in 1..Len(r) : r[i].key # k) => Applied(m, r)[k] = m[k]
         /\ \A i \in 1..Len(r) :
              r[i].key = k /\ (\A j \in 1..Len(r) : j > i => r[j].key # k)
                => Applied(m, r)[k] = r[i].val
<1> DEFINE I == {i \in 1..Len(r) : r[i].key = k}
           last == SelectLastInSeq(r, LAMBDA rec : rec.key = k)
<1>1. last = IF I # {} THEN Max(I) ELSE 0
  BY DEF SelectLastInSeq
<1>2. Applied(m, r)[k] = IF last = 0 THEN m[k] ELSE r[last].val
  BY DEF Applied
<1> HIDE DEF last
<1>3. CASE I = {}
  BY <1>1, <1>2, <1>3
<1>4. CASE I # {}
  <2>1. Len(r) \in Nat /\ I \in SUBSET (0..Len(r))
    OBVIOUS
  <2>2. Max(I) \in I /\ \A i \in I : i <= Max(I)
    <3> HIDE DEF I
    <3> QED BY <1>4, <2>1, GreatestIndex
  <2>3. last \in 1..Len(r) /\ r[last].key = k /\ \A i \in 1..Len(r) : r[i].key = k => i <= last
    BY <1>1, <1>4, <2>2
  <2>4. Applied(m, r)[k] = r[last].val
    BY <1>2, <2>3
  <2>5. ASSUME NEW i \in 1..Len(r), r[i].key = k, \A j \in 1..Len(r) : j > i => r[j].key # k
        PROVE  i = last
    BY <2>1, <2>3, <2>5
  <2> QED BY <2>3, <2>4, <2>5
<1> QED BY <1>3, <1>4

\* The same facts, one at a time: a key without a record keeps its value, ...
LEMMA AppliedMissing ==
  ASSUME NEW m, NEW r \in Seq(Record), NEW k \in Key, \A i \in 1..Len(r) : r[i].key # k
  PROVE  Applied(m, r)[k] = m[k]
BY AppliedAt

\* ... the last record of a key gives its value.
LEMMA AppliedLast ==
  ASSUME NEW m, NEW r \in Seq(Record), NEW k \in Key, NEW i \in 1..Len(r), r[i].key = k,
         \A j \in 1..Len(r) : j > i => r[j].key # k
  PROVE  Applied(m, r)[k] = r[i].val
BY AppliedAt

\* A key some record has has a last one.
LEMMA LastExists ==
  ASSUME NEW r \in Seq(Record), NEW k, \E i \in 1..Len(r) : r[i].key = k
  PROVE  \E i \in 1..Len(r) : r[i].key = k /\ \A j \in 1..Len(r) : j > i => r[j].key # k
<1> DEFINE I == {i \in 1..Len(r) : r[i].key = k}
<1>1. Len(r) \in Nat /\ I \in SUBSET (0..Len(r)) /\ I # {}
  OBVIOUS
<1>2. Max(I) \in I /\ \A i \in I : i <= Max(I)
  <2> HIDE DEF I
  <2> QED BY <1>1, GreatestIndex
<1>3. ASSUME NEW j \in 1..Len(r), j > Max(I) PROVE r[j].key # k
  BY <1>1, <1>2, <1>3
<1> QED BY <1>2, <1>3

\* Records applied to a map give a map.
LEMMA AppliedType ==
  ASSUME NEW m \in Map, NEW r \in Seq(Record)
  PROVE  Applied(m, r) \in Map
<1>1. ASSUME NEW k \in Key PROVE Applied(m, r)[k] \in Val \cup {None}
  <2>1. CASE \E i \in 1..Len(r) : r[i].key = k
    <3>1. PICK i \in 1..Len(r) : r[i].key = k /\ \A j \in 1..Len(r) : j > i => r[j].key # k
      BY <2>1, LastExists
    <3>2. r[i].val \in Val \cup {None}
      <4>1. r[i] \in Record
        OBVIOUS
      <4> QED BY <4>1 DEF Record
    <3> QED BY <3>1, <3>2, AppliedLast
  <2>2. CASE ~ \E i \in 1..Len(r) : r[i].key = k
    BY <2>2, AppliedAt DEF Map
  <2> QED BY <2>1, <2>2
<1>2. Applied(m, r) = [k \in Key |-> Applied(m, r)[k]]
  BY DEF Applied
<1> QED BY <1>1, <1>2 DEF Map

\* Maps are equal when they agree on every key.
LEMMA MapsEqual ==
  ASSUME NEW m \in Map, NEW n \in Map, \A k \in Key : m[k] = n[k]
  PROVE  m = n
BY DEF Map

\* No records change nothing.
LEMMA AppliedNone ==
  ASSUME NEW m \in Map, NEW r \in Seq(Record), Len(r) = 0
  PROVE  Applied(m, r) = m
<1>1. \A i \in 1..Len(r) : FALSE
  OBVIOUS
<1>2. \A k \in Key : Applied(m, r)[k] = m[k]
  BY <1>1, AppliedMissing
<1>3. Applied(m, r) \in Map
  BY AppliedType
<1> QED BY <1>2, <1>3, MapsEqual

\* One sequence of records after another.
LEMMA AppliedConcat ==
  ASSUME NEW m \in Map, NEW a \in Seq(Record), NEW b \in Seq(Record)
  PROVE  Applied(m, a \o b) = Applied(Applied(m, a), b)
<1> DEFINE c == a \o b
<1>1. /\ c \in Seq(Record) /\ Len(c) = Len(a) + Len(b) /\ Len(a) \in Nat /\ Len(b) \in Nat
      /\ \A i \in 1..Len(a) : c[i] = a[i]
      /\ \A i \in 1..Len(b) : c[Len(a) + i] = b[i]
  OBVIOUS
<1>2. \A i \in 1..Len(c) : i \in 1..Len(a) \/ (i - Len(a) \in 1..Len(b) /\ c[i] = b[i - Len(a)])
  BY <1>1
<1> HIDE DEF c
<1>3. Applied(m, a) \in Map /\ Applied(m, c) \in Map /\ Applied(Applied(m, a), b) \in Map
  BY <1>1, AppliedType
<1>4. ASSUME NEW k \in Key PROVE Applied(m, c)[k] = Applied(Applied(m, a), b)[k]
  <2>1. CASE \E i \in 1..Len(b) : b[i].key = k
    <3>1. PICK i \in 1..Len(b) : b[i].key = k /\ \A j \in 1..Len(b) : j > i => b[j].key # k
      BY <2>1, LastExists
    <3>2. Applied(Applied(m, a), b)[k] = b[i].val
      BY <3>1, AppliedAt
    <3>3. Len(a) + i \in 1..Len(c) /\ c[Len(a) + i] = b[i]
      BY <1>1
    <3>4. ASSUME NEW j \in 1..Len(c), j > Len(a) + i PROVE c[j].key # k
      <4>1. j - Len(a) \in 1..Len(b) /\ j - Len(a) > i /\ c[j] = b[j - Len(a)]
        BY <1>1, <1>2, <3>4
      <4> QED BY <3>1, <4>1
    <3>5. c[Len(a) + i].key = k
      BY <3>1, <3>3
    <3>6. \A l \in 1..Len(c) : l = Len(a) + i => Applied(m, c)[k] = c[l].val
      <4> TAKE l \in 1..Len(c)
      <4> HAVE l = Len(a) + i
      <4>1. c[l].key = k /\ \A j \in 1..Len(c) : j > l => c[j].key # k
        BY <3>4, <3>5
      <4>2. c \in Seq(Record)
        BY <1>1
      <4> HIDE DEF c
      <4> QED BY <4>1, <4>2, AppliedLast
    <3> QED BY <3>2, <3>3, <3>6
  <2>2. CASE ~(\E i \in 1..Len(b) : b[i].key = k) /\ \E i \in 1..Len(a) : a[i].key = k
    <3>1. PICK i \in 1..Len(a) : a[i].key = k /\ \A j \in 1..Len(a) : j > i => a[j].key # k
      BY <2>2, LastExists
    <3>2. Applied(Applied(m, a), b)[k] = a[i].val
      <4>1. Applied(Applied(m, a), b)[k] = Applied(m, a)[k]
        BY <2>2, AppliedAt
      <4>2. Applied(m, a)[k] = a[i].val
        BY <3>1, AppliedLast
      <4> QED BY <4>1, <4>2
    <3>3. i \in 1..Len(c) /\ c[i] = a[i]
      BY <1>1
    <3>4. ASSUME NEW j \in 1..Len(c), j > i PROVE c[j].key # k
      BY <1>1, <1>2, <2>2, <3>1, <3>4
    <3>5. Applied(m, c)[k] = c[i].val
      <4>1. c[i].key = k /\ i \in 1..Len(c) /\ c \in Seq(Record)
        BY <1>1, <3>1, <3>3
      <4> QED BY <3>4, <4>1, AppliedLast
    <3> QED BY <3>2, <3>3, <3>5
  <2>3. CASE ~(\E i \in 1..Len(b) : b[i].key = k) /\ ~ \E i \in 1..Len(a) : a[i].key = k
    <3>1. \A j \in 1..Len(c) : c[j].key # k
      BY <1>1, <1>2, <2>3
    <3>2. Applied(m, c)[k] = m[k]
      BY <1>1, <3>1, AppliedAt
    <3>3. Applied(Applied(m, a), b)[k] = Applied(m, a)[k]
      BY <2>3, AppliedAt
    <3>4. Applied(m, a)[k] = m[k]
      BY <2>3, AppliedAt
    <3> QED BY <3>2, <3>3, <3>4
  <2> QED BY <2>1, <2>2, <2>3
<1>5. Applied(m, c) = Applied(Applied(m, a), b)
  BY <1>3, <1>4, MapsEqual
<1> QED BY <1>5 DEF c

\* One record more.
LEMMA AppliedAppend ==
  ASSUME NEW m \in Map, NEW r \in Seq(Record), NEW rec \in Record
  PROVE  Applied(m, Append(r, rec)) = [Applied(m, r) EXCEPT ![rec.key] = rec.val]
<1> DEFINE one == <<rec>>
           m2 == Applied(m, r)
<1>1. one \in Seq(Record) /\ Len(one) = 1 /\ one[1] = rec /\ Append(r, rec) = r \o one
  OBVIOUS
<1>2. Applied(m, r \o one) = Applied(m2, one)
  BY <1>1, AppliedConcat
<1>3. m2 \in Map
  BY AppliedType
<1> HIDE DEF one, m2
<1>4. rec.key \in Key /\ rec.val \in Val \cup {None}
  BY DEF Record
<1>5. [m2 EXCEPT ![rec.key] = rec.val] \in Map /\ Applied(m2, one) \in Map
  BY <1>1, <1>3, <1>4, AppliedType DEF Map
<1>6. ASSUME NEW k \in Key PROVE Applied(m2, one)[k] = [m2 EXCEPT ![rec.key] = rec.val][k]
  <2>1. CASE k = rec.key
    <3>1. Applied(m2, one)[k] = one[1].val
      BY <1>1, <2>1, AppliedAt
    <3> QED BY <1>1, <1>3, <2>1, <3>1 DEF Map
  <2>2. CASE k # rec.key
    <3>1. Applied(m2, one)[k] = m2[k]
      BY <1>1, <2>2, AppliedAt
    <3> QED BY <1>3, <2>2, <3>1 DEF Map
  <2> QED BY <2>1, <2>2
<1>7. Applied(m2, one) = [m2 EXCEPT ![rec.key] = rec.val]
  BY <1>5, <1>6, MapsEqual
<1> QED BY <1>1, <1>2, <1>7 DEF m2

\* Records replayed over a map that has some of them already.
LEMMA AppliedAgain ==
  ASSUME NEW m \in Map, NEW n \in Map, NEW r \in Seq(Record),
         \A k \in Key : n[k] = m[k] \/ n[k] = Applied(m, r)[k]
  PROVE  Applied(n, r) = Applied(m, r)
<1>1. Applied(m, r) \in Map /\ Applied(n, r) \in Map
  BY AppliedType
<1>2. ASSUME NEW k \in Key PROVE Applied(n, r)[k] = Applied(m, r)[k]
  <2>1. CASE \E i \in 1..Len(r) : r[i].key = k
    <3>1. PICK i \in 1..Len(r) : r[i].key = k /\ \A j \in 1..Len(r) : j > i => r[j].key # k
      BY <2>1, LastExists
    <3>2. Applied(n, r)[k] = r[i].val /\ Applied(m, r)[k] = r[i].val
      BY <3>1, AppliedAt
    <3> QED BY <3>2
  <2>2. CASE ~ \E i \in 1..Len(r) : r[i].key = k
    <3>1. Applied(n, r)[k] = n[k] /\ Applied(m, r)[k] = m[k]
      BY <2>2, AppliedAt
    <3> QED BY <3>1
  <2> QED BY <2>1, <2>2
<1> QED BY <1>1, <1>2, MapsEqual

-----------------------------------------------------------------------------
(* Files *)

\* What is read of a file is a beginning of it without torn records, ...
LEMMA ReadableType ==
  ASSUME NEW file \in File
  PROVE  /\ Readable(file) \in Seq(Record)
         /\ Len(Readable(file)) <= Len(file)
         /\ \A i \in 1..Len(Readable(file)) : Readable(file)[i] = file[i]
         /\ Len(Readable(file)) < Len(file) => file[Len(Readable(file)) + 1] = Torn
<1> DEFINE bad == {i \in DOMAIN file : file[i] = Torn}
<1>1. Len(file) \in Nat /\ DOMAIN file = 1..Len(file) /\ bad \in SUBSET Nat
      /\ \A i \in 1..Len(file) : file[i] \in Record \cup {Torn}
  BY DEF File
<1>2. CASE bad = {}
  <2>1. Readable(file) = file
    BY <1>2 DEF Readable
  <2>2. file \in Seq(Record)
    <3>1. \A i \in 1..Len(file) : file[i] \in Record
      BY <1>1, <1>2
    <3>2. file \in [1..Len(file) -> Record]
      BY <3>1 DEF File
    <3> QED BY <1>1, <3>2
  <2> QED BY <1>1, <2>1, <2>2
<1>3. CASE bad # {}
  <2> DEFINE n == Min(bad) - 1
  <2>1. Min(bad) \in bad /\ \A i \in bad : Min(bad) <= i
    <3> HIDE DEF bad
    <3> QED BY <1>1, <1>3, LeastIndex
  <2>2. Readable(file) = SubSeq(file, 1, n)
    BY <1>3 DEF Readable
  <2>3. n \in 0..Len(file) /\ n + 1 \in bad
    <3>1. Min(bad) \in 1..Len(file)
      BY <1>1, <2>1
    <3>2. n + 1 = Min(bad)
      <4> HIDE DEF bad
      <4> QED BY <3>1
    <3> QED BY <2>1, <3>1, <3>2
  <2>4. \A i \in 1..n : file[i] \in Record
    <3> SUFFICES ASSUME NEW i \in 1..n PROVE file[i] \in Record
      OBVIOUS
    <3>1. i \in 1..Len(file) /\ ~(Min(bad) <= i)
      BY <1>1, <2>1, <2>3
    <3>2. i \notin bad
      BY <2>1, <3>1
    <3> QED BY <1>1, <3>1, <3>2
  <2> HIDE DEF n, bad
  <2>5. SubSeq(file, 1, n) \in Seq(Record) /\ Len(SubSeq(file, 1, n)) = n
        /\ \A i \in 1..n : SubSeq(file, 1, n)[i] = file[i]
    <3>1. 1 \in Int /\ n \in Int /\ n \in Nat
      BY <2>3
    <3>2. SubSeq(file, 1, n) = [i \in 1..n |-> file[i]]
      BY <1>1, <2>3 DEF File
    <3>3. SubSeq(file, 1, n) \in [1..n -> Record]
      BY <2>4, <3>2
    <3> QED BY <3>1, <3>2, <3>3, FunctionIsSequence
  <2>6. file[n + 1] = Torn
    BY <2>3 DEF bad
  <2> QED BY <1>1, <2>2, <2>3, <2>5, <2>6
<1> QED BY <1>2, <1>3

\* ... up to the first torn one.
LEMMA ReadableIs ==
  ASSUME NEW file \in File, NEW r \in Seq(Record), Len(r) <= Len(file),
         \A i \in 1..Len(r) : file[i] = r[i] /\ file[i] # Torn,
         Len(r) < Len(file) => file[Len(r) + 1] = Torn
  PROVE  Readable(file) = r
<1> DEFINE bad == {i \in DOMAIN file : file[i] = Torn}
           n == Len(r)
<1>1. Len(file) \in Nat /\ n \in Nat /\ DOMAIN file = 1..Len(file) /\ bad \in SUBSET Nat
      /\ r = [i \in 1..n |-> r[i]]
  BY DEF File
<1>2. CASE n = Len(file)
  <2>1. bad = {}
    BY <1>1, <1>2
  <2>2. file = [i \in 1..n |-> file[i]]
    BY <1>2 DEF File
  <2>3. file = r
    BY <1>1, <1>2, <2>2
  <2> QED BY <2>1, <2>3 DEF Readable
<1>3. CASE n < Len(file)
  <2>1. n + 1 \in bad /\ \A i \in bad : n + 1 <= i
    BY <1>1, <1>3
  <2>2. Min(bad) \in bad /\ \A i \in bad : Min(bad) <= i
    <3> HIDE DEF bad
    <3> QED BY <1>1, <2>1, LeastIndex
  <2>3. Min(bad) = n + 1
    <3>1. Min(bad) \in Nat /\ n + 1 <= Min(bad) /\ Min(bad) <= n + 1 /\ n \in Nat
      <4> HIDE DEF bad
      <4> QED BY <1>1, <2>1, <2>2
    <3> HIDE DEF bad, n
    <3> QED BY <3>1
  <2>4. Readable(file) = SubSeq(file, 1, n)
    <3>1. Readable(file) = SubSeq(file, 1, Min(bad) - 1)
      BY <2>1 DEF Readable
    <3>2. Min(bad) - 1 = n
      <4> HIDE DEF bad, n
      <4> QED BY <1>1, <2>3
    <3> HIDE DEF bad, n
    <3> QED BY <3>1, <3>2
  <2>5. SubSeq(file, 1, n) = [i \in 1..n |-> file[i]]
    BY <1>1, <1>3 DEF File
  <2>6. \A i \in 1..n : file[i] = r[i]
    OBVIOUS
  <2> HIDE DEF n
  <2> QED BY <1>1, <2>4, <2>5, <2>6
<1>4. n = Len(file) \/ n < Len(file)
  <2>1. n <= Len(file)
    OBVIOUS
  <2> HIDE DEF n, bad
  <2> QED BY <1>1, <2>1
<1> QED BY <1>2, <1>3, <1>4

\* A flush appends a part of the buffer, and a torn record if it is not all.
LEMMA WrittenAt ==
  ASSUME wal \in File, buf \in Seq(Record), NEW n \in 0..Len(buf)
  PROVE  /\ Written(n) \in File
         /\ Len(Written(n)) = IF n < Len(buf) THEN Len(wal) + n + 1 ELSE Len(wal) + n
         /\ \A i \in 1..Len(wal) : Written(n)[i] = wal[i]
         /\ \A i \in 1..n : Written(n)[Len(wal) + i] = buf[i]
         /\ n < Len(buf) => Written(n)[Len(wal) + n + 1] = Torn
<1> DEFINE flushed == SubSeq(buf, 1, n)
           both == wal \o flushed
<1>1. flushed \in File /\ Len(flushed) = n /\ \A i \in 1..n : flushed[i] = buf[i]
  BY DEF File
<1>2. Len(wal) \in Nat /\ Len(buf) \in Nat
  BY DEF File
<1> HIDE DEF flushed
<1>3. /\ both \in File /\ Len(both) = Len(wal) + n
      /\ \A i \in 1..Len(wal) : both[i] = wal[i]
      /\ \A i \in 1..n : both[Len(wal) + i] = buf[i]
  BY <1>1, <1>2 DEF File
<1>4. Written(n) = both \o (IF n < Len(buf) THEN <<Torn>> ELSE <<>>)
  BY DEF Written, flushed
<1> HIDE DEF both
<1>5. CASE n < Len(buf)
  <2> DEFINE file == both \o <<Torn>>
  <2>1. /\ file \in File /\ Len(file) = Len(both) + 1 /\ file[Len(both) + 1] = Torn
        /\ \A i \in 1..Len(both) : file[i] = both[i]
    BY <1>3 DEF File
  <2>2. Written(n) = file
    BY <1>4, <1>5
  <2> HIDE DEF file
  <2>3. \A i \in 1..Len(wal) : file[i] = wal[i]
    BY <1>2, <1>3, <2>1
  <2>4. ASSUME NEW i \in 1..n PROVE file[Len(wal) + i] = buf[i]
    <3>1. Len(wal) + i \in 1..Len(both)
      BY <1>2, <1>3
    <3> QED BY <1>3, <2>1, <3>1
  <2>5. Len(file) = Len(wal) + n + 1 /\ file[Len(wal) + n + 1] = Torn
    BY <1>3, <2>1
  <2> QED BY <1>5, <2>1, <2>2, <2>3, <2>4, <2>5
<1>6. CASE ~(n < Len(buf))
  <2>1. Written(n) = both
    BY <1>3, <1>4, <1>6 DEF File
  <2> QED BY <1>3, <1>6, <2>1
<1> QED BY <1>5, <1>6

\* What a flush leaves is a file, no longer than log and buffer.
LEMMA WrittenType ==
  ASSUME wal \in File, buf \in Seq(Record), NEW n \in 0..Len(buf)
  PROVE  Written(n) \in File /\ Len(Written(n)) \in Nat /\ Len(Written(n)) <= Len(wal) + Len(buf)
<1>1. Len(wal) \in Nat /\ Len(buf) \in Nat
  BY DEF File
<1>2. CASE n < Len(buf)
  BY <1>1, <1>2, WrittenAt
<1>3. CASE ~(n < Len(buf))
  BY <1>1, <1>3, WrittenAt
<1> QED BY <1>2, <1>3

\* After a torn record nothing that is appended is read; otherwise it is.
LEMMA WrittenReadable ==
  ASSUME wal \in File, buf \in Seq(Record), NEW n \in 0..Len(buf)
  PROVE  IF \E i \in DOMAIN wal : wal[i] = Torn
         THEN Readable(Written(n)) = Readable(wal)
         ELSE Readable(Written(n)) = Readable(wal) \o SubSeq(buf, 1, n)
<1> DEFINE file == Written(n)
           r == Readable(wal)
<1>1. /\ file \in File
      /\ Len(file) = IF n < Len(buf) THEN Len(wal) + n + 1 ELSE Len(wal) + n
      /\ \A i \in 1..Len(wal) : file[i] = wal[i]
      /\ \A i \in 1..n : file[Len(wal) + i] = buf[i]
      /\ n < Len(buf) => file[Len(wal) + n + 1] = Torn
  BY WrittenAt
<1>2. /\ r \in Seq(Record) /\ Len(r) <= Len(wal)
      /\ \A i \in 1..Len(r) : r[i] = wal[i]
      /\ Len(r) < Len(wal) => wal[Len(r) + 1] = Torn
  BY ReadableType
<1>3. Len(wal) \in Nat /\ Len(buf) \in Nat /\ DOMAIN wal = 1..Len(wal) /\ Len(r) \in Nat
  BY <1>2 DEF File
<1>4. ASSUME NEW q \in Seq(Record), NEW i \in 1..Len(q) PROVE q[i] # Torn
  <2>1. q[i] \in Record
    OBVIOUS
  <2> QED BY <2>1, TornAssumption DEF Record
<1> HIDE DEF file, r
<1>5. Len(wal) <= Len(file)
  BY <1>1, <1>3
<1>6. ASSUME NEW i \in DOMAIN wal, wal[i] = Torn PROVE Readable(file) = r
  <2>1. Len(r) < Len(wal)
    <3>1. ~(i \in 1..Len(r))
      BY <1>2, <1>4, <1>6
    <3> QED BY <1>2, <1>3, <3>1
  <2>2. \A j \in 1..Len(r) : file[j] = r[j] /\ file[j] # Torn
    BY <1>1, <1>2, <1>3, <1>4
  <2>3. file[Len(r) + 1] = Torn
    <3>1. Len(r) + 1 \in 1..Len(wal)
      BY <1>3, <2>1
    <3> QED BY <1>1, <1>2, <2>1, <3>1
  <2>4. Len(r) <= Len(file)
    BY <1>2, <1>3, <1>5, <1>1
  <2> QED BY <1>1, <1>2, <2>2, <2>3, <2>4, ReadableIs
<1>7. CASE ~ \E i \in DOMAIN wal : wal[i] = Torn
  <2> DEFINE flushed == SubSeq(buf, 1, n)
             both == r \o flushed
  <2>1. Len(r) = Len(wal)
    <3>1. ~(Len(r) < Len(wal))
      <4>1. Len(r) < Len(wal) => Len(r) + 1 \in 1..Len(wal)
        BY <1>3
      <4> QED BY <1>2, <1>3, <1>7, <4>1
    <3> QED BY <1>2, <1>3, <3>1
  <2>2. flushed \in Seq(Record) /\ Len(flushed) = n /\ \A i \in 1..n : flushed[i] = buf[i]
    OBVIOUS
  <2> HIDE DEF flushed
  <2>3. /\ both \in Seq(Record) /\ Len(both) = Len(wal) + n
        /\ \A i \in 1..Len(wal) : both[i] = r[i]
        /\ \A i \in 1..n : both[Len(wal) + i] = buf[i]
    <3>1. /\ both \in Seq(Record) /\ Len(both) = Len(r) + Len(flushed)
          /\ \A i \in 1..Len(r) + Len(flushed) :
               both[i] = IF i <= Len(r) THEN r[i] ELSE flushed[i - Len(r)]
      BY <1>2, <2>2, ConcatProperties
    <3> HIDE DEF both
    <3>2. /\ Len(both) = Len(wal) + n /\ n \in Nat
          /\ \A i \in 1..Len(wal) + n :
               both[i] = IF i <= Len(wal) THEN r[i] ELSE flushed[i - Len(wal)]
      BY <2>1, <2>2, <3>1
    <3>3. ASSUME NEW i \in 1..Len(wal) PROVE both[i] = r[i]
      <4>1. i \in 1..Len(wal) + n /\ i <= Len(wal)
        BY <1>3, <3>2
      <4> QED BY <3>2, <4>1
    <3>4. ASSUME NEW i \in 1..n PROVE both[Len(wal) + i] = buf[i]
      <4>1. Len(wal) + i \in 1..Len(wal) + n /\ ~(Len(wal) + i <= Len(wal)) /\ (Len(wal) + i) - Len(wal) = i
        BY <1>3, <3>2
      <4>2. both[Len(wal) + i] = flushed[(Len(wal) + i) - Len(wal)]
        BY <3>2, <4>1
      <4> QED BY <2>2, <4>1, <4>2
    <3> QED BY <3>1, <3>2, <3>3, <3>4
  <2> HIDE DEF both
  <2>4. ASSUME NEW i \in 1..Len(both) PROVE file[i] = both[i] /\ file[i] # Torn
    <3>1. CASE i \in 1..Len(wal)
      BY <1>1, <1>2, <1>4, <2>1, <2>3, <3>1
    <3>2. CASE i \notin 1..Len(wal)
      <4>1. i - Len(wal) \in 1..n /\ Len(wal) + (i - Len(wal)) = i
        BY <1>3, <2>3, <3>2
      <4>2. file[i] = both[i]
        BY <1>1, <2>3, <4>1
      <4> QED BY <1>4, <2>3, <4>2
    <3> QED BY <3>1, <3>2
  <2>5. Len(both) <= Len(file) /\ (Len(both) < Len(file) => file[Len(both) + 1] = Torn)
    <3>1. CASE n < Len(buf)
      BY <1>1, <1>3, <2>3, <3>1
    <3>2. CASE ~(n < Len(buf))
      BY <1>1, <1>3, <2>3, <3>2
    <3> QED BY <3>1, <3>2
  <2>6. Readable(file) = both
    BY <1>1, <2>3, <2>4, <2>5, ReadableIs
  <2> QED BY <1>7, <2>6 DEF both, flushed, file, r
<1> QED BY <1>6, <1>7 DEF file, r

\* A flush brings the log the beginning of what was to be written, ...
LEMMA FlushApplied ==
  ASSUME wal \in File, buf \in Seq(Record), NEW n \in 0..Len(buf), NEW m \in Map
  PROVE  \E p \in 0..Len(buf) :
           Applied(m, Readable(Written(n))) = Applied(Applied(m, Readable(wal)), SubSeq(buf, 1, p))
<1> DEFINE r == Readable(wal)
<1>1. r \in Seq(Record)
  BY ReadableType
<1>2. Applied(m, r) \in Map
  BY <1>1, AppliedType
<1>3. CASE \E i \in DOMAIN wal : wal[i] = Torn
  <2> DEFINE nothing == SubSeq(buf, 1, 0)
  <2>1. nothing \in Seq(Record) /\ Len(nothing) = 0 /\ 0 \in 0..Len(buf)
    OBVIOUS
  <2>2. Readable(Written(n)) = r
    BY <1>3, WrittenReadable
  <2>3. Applied(Applied(m, r), nothing) = Applied(m, r)
    BY <1>2, <2>1, AppliedNone
  <2> QED BY <2>1, <2>2, <2>3
<1>4. CASE ~ \E i \in DOMAIN wal : wal[i] = Torn
  <2> DEFINE flushed == SubSeq(buf, 1, n)
  <2>1. flushed \in Seq(Record)
    OBVIOUS
  <2>2. Readable(Written(n)) = r \o flushed
    BY <1>4, WrittenReadable
  <2>3. Applied(m, r \o flushed) = Applied(Applied(m, r), flushed)
    BY <1>1, <2>1, AppliedConcat
  <2> QED BY <2>2, <2>3
<1> QED BY <1>3, <1>4

\* ... and all of it if there was no mishap.
LEMMA FlushComplete ==
  ASSUME wal \in File, buf \in Seq(Record), NEW n \in 0..Len(buf), FlushMishaps(n) = {}
  PROVE  \A m \in Map :
           Applied(m, Readable(Written(n))) = Applied(Applied(m, Readable(wal)), buf)
<1> DEFINE r == Readable(wal)
<1> SUFFICES ASSUME NEW m \in Map
             PROVE  Applied(m, Readable(Written(n))) = Applied(Applied(m, r), buf)
  OBVIOUS
<1>1. r \in Seq(Record) /\ Len(buf) \in Nat
  BY ReadableType
<1>2. n = Len(buf)
  <2>1. ~(n < Len(buf))
    BY DEF FlushMishaps
  <2> QED BY <1>1, <2>1
<1>3. buf = <<>> \/ ~ \E i \in DOMAIN wal : wal[i] = Torn
  BY DEF FlushMishaps
<1>4. SubSeq(buf, 1, n) = buf
  BY <1>2
<1>5. CASE ~ \E i \in DOMAIN wal : wal[i] = Torn
  <2>1. Readable(Written(n)) = r \o buf
    BY <1>4, <1>5, WrittenReadable
  <2> QED BY <1>1, <2>1, AppliedConcat
<1>6. CASE buf = <<>>
  <2>1. PICK p \in 0..Len(buf) :
          Applied(m, Readable(Written(n))) = Applied(Applied(m, r), SubSeq(buf, 1, p))
    BY FlushApplied
  <2>2. SubSeq(buf, 1, p) = buf
    BY <1>6
  <2> QED BY <2>1, <2>2
<1> QED BY <1>3, <1>5, <1>6

\* An empty file has nothing to read.
LEMMA ReadableEmpty == Readable(<<>>) = <<>>
<1>1. {i \in DOMAIN <<>> : <<>>[i] = Torn} = {}
  OBVIOUS
<1> QED BY <1>1 DEF Readable

-----------------------------------------------------------------------------
(* Segments *)

Segments(files) ==
  /\ DOMAIN files \subseteq 0..MaxRecords
  /\ \A size \in DOMAIN files : files[size] \in File

AtMostOne(files) == \A a, b \in DOMAIN files : a = b

\* Replaying segments over a map gives a map, ...
LEMMA ReplayedType ==
  ASSUME NEW m \in Map, NEW files, Segments(files)
  PROVE  Replayed(m, files) \in Map
<1> DEFINE sizes(k) == {size \in DOMAIN files :
                          \E i \in DOMAIN Readable(files[size]) : files[size][i].key = k}
<1>1. ASSUME NEW k \in Key, sizes(k) # {}
      PROVE  Applied(m, Readable(files[Max(sizes(k))]))[k] \in Val \cup {None}
  <2> DEFINE top == Max(sizes(k))
  <2>1. MaxRecords \in Nat /\ sizes(k) \in SUBSET (0..MaxRecords)
    BY LimitAssumption DEF Segments
  <2>2. top \in sizes(k)
    <3> HIDE DEF sizes
    <3> QED BY <1>1, <2>1, GreatestIndex
  <2>3. files[top] \in File
    BY <2>2 DEF Segments
  <2> HIDE DEF top
  <2>4. Applied(m, Readable(files[top])) \in Map
    BY <2>3, ReadableType, AppliedType
  <2> QED BY <2>4 DEF top, Map
<1>2. ASSUME NEW k \in Key PROVE m[k] \in Val \cup {None}
  BY DEF Map
<1>3. Replayed(m, files) =
        [k \in Key |-> IF sizes(k) = {} THEN m[k]
                       ELSE Applied(m, Readable(files[Max(sizes(k))]))[k]]
  BY DEF Replayed
<1> HIDE DEF sizes
<1> QED BY <1>1, <1>2, <1>3 DEF Map

\* ... that map, if there are none, ...
LEMMA ReplayedNone ==
  ASSUME NEW m \in Map, NEW files, DOMAIN files = {}
  PROVE  Replayed(m, files) = m
<1>1. \A k \in Key : Replayed(m, files)[k] = m[k]
  BY DEF Replayed
<1>2. Segments(files)
  BY DEF Segments
<1>3. Replayed(m, files) \in Map
  BY <1>2, ReplayedType
<1> QED BY <1>1, <1>3, MapsEqual

\* ... and what one segment's records make of it, if there is one.
LEMMA ReplayedOne ==
  ASSUME NEW m \in Map, NEW files, NEW size, DOMAIN files = {size}, Segments(files)
  PROVE  Replayed(m, files) = Applied(m, Readable(files[size]))
<1> DEFINE r == Readable(files[size])
           sizes(k) == {s \in DOMAIN files :
                          \E i \in DOMAIN Readable(files[s]) : files[s][i].key = k}
<1>1. files[size] \in File /\ size \in Nat
  BY DEF Segments
<1>2. r \in Seq(Record) /\ DOMAIN r = 1..Len(r) /\ \A i \in 1..Len(r) : r[i] = files[size][i]
  BY <1>1, ReadableType, LenProperties
<1>3. Applied(m, r) \in Map /\ Replayed(m, files) \in Map
  <2> HIDE DEF r
  <2> QED BY <1>2, AppliedType, ReplayedType
<1>4. ASSUME NEW k \in Key PROVE Replayed(m, files)[k] = Applied(m, r)[k]
  <2>1. Replayed(m, files)[k] = IF sizes(k) = {} THEN m[k]
                                ELSE Applied(m, Readable(files[Max(sizes(k))]))[k]
    BY DEF Replayed
  <2>2. sizes(k) = {} \/ sizes(k) = {size}
    OBVIOUS
  <2>3. CASE sizes(k) = {}
    <3>1. \A i \in 1..Len(r) : r[i].key # k
      BY <1>2, <2>3
    <3>2. Applied(m, r)[k] = m[k]
      <4> HIDE DEF r
      <4> QED BY <1>2, <3>1, AppliedMissing
    <3> QED BY <2>1, <2>3, <3>2
  <2>4. CASE sizes(k) = {size}
    <3>1. Max({size}) = size
      <4>1. \E x \in {size} : \A y \in {size} : x >= y
        BY <1>1
      <4>2. Max({size}) \in {size}
        BY <4>1, Zenon DEF Max
      <4> QED BY <4>2
    <3> HIDE DEF sizes
    <3> QED BY <2>1, <2>4, <3>1
  <2> QED BY <2>2, <2>3, <2>4
<1> HIDE DEF r
<1>5. Replayed(m, files) = Applied(m, r)
  BY <1>3, <1>4, MapsEqual
<1> QED BY <1>5 DEF r

\* At most one segment is so many records.
LEMMA ReplayedIs ==
  ASSUME NEW files, Segments(files), AtMostOne(files)
  PROVE  \E q \in Seq(Record) : \A m \in Map : Replayed(m, files) = Applied(m, q)
<1>1. CASE DOMAIN files = {}
  <2>1. <<>> \in Seq(Record) /\ Len(<<>>) = 0
    OBVIOUS
  <2>2. \A m \in Map : Replayed(m, files) = m /\ Applied(m, <<>>) = m
    BY <1>1, <2>1, AppliedNone, ReplayedNone
  <2> QED BY <2>1, <2>2
<1>2. ASSUME NEW size \in DOMAIN files
      PROVE  \E q \in Seq(Record) : \A m \in Map : Replayed(m, files) = Applied(m, q)
  <2>1. DOMAIN files = {size}
    BY DEF AtMostOne
  <2>2. Readable(files[size]) \in Seq(Record)
    BY ReadableType DEF Segments
  <2>3. \A m \in Map : Replayed(m, files) = Applied(m, Readable(files[size]))
    BY <2>1, ReplayedOne
  <2> QED BY <2>2, <2>3
<1> QED BY <1>1, <1>2

\* Replaying twice changes nothing.
LEMMA ReplayedAgain ==
  ASSUME NEW files, Segments(files), AtMostOne(files), NEW m \in Map, NEW r \in Seq(Record)
  PROVE  /\ Replayed(Replayed(m, files), files) = Replayed(m, files)
         /\ LET n == Applied(Replayed(m, files), r)
            IN n \in Map /\ Applied(Replayed(n, files), r) = n /\ Applied(n, r) = n
<1>1. PICK q \in Seq(Record) : \A n \in Map : Replayed(n, files) = Applied(n, q)
  BY ReplayedIs
<1> DEFINE mq == Applied(m, q)
           mqr == Applied(mq, r)
<1>2. mq \in Map /\ Replayed(m, files) = mq
  BY <1>1, AppliedType
<1>3. mqr \in Map
  <2> HIDE DEF mq
  <2> QED BY <1>2, AppliedType
<1>4. Applied(mq, q) = mq
  BY <1>2, AppliedAgain
<1>5. Applied(mqr, r) = mqr
  <2> HIDE DEF mq
  <2> QED BY <1>2, <1>3, AppliedAgain
<1>6. Applied(Applied(mqr, q), r) = mqr
  <2> DEFINE c == q \o r
  <2>1. c \in Seq(Record)
    OBVIOUS
  <2>2. \A n \in Map : Applied(n, c) = Applied(Applied(n, q), r)
    BY AppliedConcat
  <2> HIDE DEF c
  <2>3. mqr = Applied(m, c)
    BY <2>2
  <2>4. Applied(mqr, c) = Applied(m, c)
    <3> HIDE DEF mqr
    <3> QED BY <1>3, <2>1, <2>3, AppliedAgain
  <2> HIDE DEF mqr
  <2> QED BY <1>3, <2>2, <2>3, <2>4
<1> HIDE DEF mq
<1> QED BY <1>1, <1>2, <1>3, <1>4, <1>5, <1>6

-----------------------------------------------------------------------------
(* Types *)

Typed == TypeOK /\ Len(buf) + Len(wal) <= MaxRecords

\* What the types say of the files.
LEMMA Known ==
  ASSUME Typed
  PROVE  /\ wal \in File /\ Len(wal) \in Nat
         /\ buf \in Seq(Record) /\ Len(buf) \in Nat
         /\ Segments(segs)
         /\ Readable(wal) \in Seq(Record)
         /\ Replayed(snap, segs) \in Map
         /\ Rebuilt \in Map
<1>1. wal \in File /\ buf \in Seq(Record) /\ Segments(segs) /\ snap \in Map
  BY DEF Typed, TypeOK, Segments, File
<1>2. Readable(wal) \in Seq(Record) /\ Replayed(snap, segs) \in Map
  BY <1>1, ReadableType, ReplayedType
<1>3. Rebuilt \in Map
  BY <1>2, AppliedType DEF Rebuilt
<1>4. Len(wal) \in Nat /\ Len(buf) \in Nat
  BY <1>1 DEF File
<1> QED BY <1>1, <1>2, <1>3, <1>4

\* What a flush of the buffer leaves in the log.
LEMMA FlushTyped ==
  ASSUME Typed, NEW n \in 0..Len(buf)
  PROVE  /\ Written(n) \in File /\ Len(Written(n)) \in 0..MaxRecords
         /\ FlushMishaps(n) \subseteq Mishaps
<1>1. /\ Written(n) \in File
      /\ Len(Written(n)) \in Nat /\ Len(Written(n)) <= Len(wal) + Len(buf)
      /\ Len(wal) \in Nat /\ Len(buf) \in Nat
  BY Known, WrittenType
<1>2. Len(buf) + Len(wal) <= MaxRecords /\ MaxRecords \in Nat
  BY LimitAssumption DEF Typed
<1>3. Len(Written(n)) \in 0..MaxRecords
  BY <1>1, <1>2
<1>4. FlushMishaps(n) \subseteq Mishaps
  BY DEF FlushMishaps, Mishaps
<1> QED BY <1>1, <1>3, <1>4

\* Whatever becomes of a snapshot, the file has a map.
LEMMA SnapshotTyped ==
  ASSUME Typed, NEW m \in Map, WriteSnapshot(m)
  PROVE  snap' \in Map /\ spoiled' \subseteq Mishaps
<1>1. snap \in Map /\ spoiled \subseteq Mishaps
  BY DEF Typed, TypeOK
<1>2. \A k \in Key : [m EXCEPT ![k] = None] \in Map
  BY DEF Map
<1> QED BY <1>1, <1>2 DEF WriteSnapshot, Mishaps

\* What is left to do is some of the steps.
LEMMA StepsLeft ==
  ASSUME NEW steps \in Seq({"gc", "roll", "snapshot", "down"}), steps # <<>>
  PROVE  Tail(steps) \in Seq({"gc", "roll", "snapshot", "down"})
OBVIOUS

\* One conjunct of TypeOK per part of the state.
FilesTyped(b, w, files) ==
  /\ b \in Seq(Record) /\ Len(b) <= BufLimit
  /\ w \in File
  /\ DOMAIN files \subseteq 0..MaxRecords
  /\ \A size \in DOMAIN files : files[size] \in File /\ Len(files[size]) = size
  /\ Len(b) + Len(w) <= MaxRecords

RestTyped(c, f, s, ch, im, orph, steps, sp) ==
  /\ c \in Map /\ s \in Map /\ im \in Map /\ orph \subseteq Map
  /\ f \in {"open", "closed"}
  /\ ch \in {"none", "running", "exited", "killed"}
  /\ steps \in Seq({"gc", "roll", "snapshot", "down"})
  /\ sp \subseteq Mishaps

\* The types, part by part.
LEMMA TypedParts ==
  /\ Typed <=> /\ FilesTyped(buf, wal, segs)
               /\ RestTyped(contents, fd, snap, child, image, orphan, todo, spoiled)
  /\ Typed' <=> /\ FilesTyped(buf', wal', segs')
                /\ RestTyped(contents', fd', snap', child', image', orphan', todo', spoiled')
BY DEF Typed, TypeOK, FilesTyped, RestTyped, File

\* The ways the files change: records are appended to the log, ...
LEMMA FilesFlushed ==
  ASSUME Typed, buf' = <<>>, wal' \in File, Len(wal') \in 0..MaxRecords, segs' = segs
  PROVE  FilesTyped(buf', wal', segs')
<1>1. FilesTyped(buf, wal, segs)
  BY TypedParts
<1>2. Len(buf') = 0 /\ buf' \in Seq(Record) /\ BufLimit \in Nat
  BY LimitAssumption
<1> QED BY <1>1, <1>2 DEF FilesTyped

\* ... the log becomes a segment, over one that has the name, ...
LEMMA SegmentPut ==
  ASSUME Typed, NEW w \in File, Len(w) \in 0..MaxRecords
  PROVE  /\ DOMAIN Put(segs, Len(w), w) \subseteq 0..MaxRecords
         /\ \A size \in DOMAIN Put(segs, Len(w), w) :
              Put(segs, Len(w), w)[size] \in File /\ Len(Put(segs, Len(w), w)[size]) = size
<1> DEFINE files == Put(segs, Len(w), w)
<1>1. files = [z \in DOMAIN segs \cup {Len(w)} |-> IF z = Len(w) THEN w ELSE segs[z]]
  BY DEF Put
<1>2. DOMAIN segs \subseteq 0..MaxRecords
      /\ \A size \in DOMAIN segs : segs[size] \in File /\ Len(segs[size]) = size
  BY DEF Typed, TypeOK, File
<1> HIDE DEF files
<1>3. DOMAIN files \subseteq 0..MaxRecords
      /\ \A size \in DOMAIN files : files[size] \in File /\ Len(files[size]) = size
  BY <1>1, <1>2
<1> QED BY <1>3 DEF files

\* ... or a segment goes.
LEMMA SegmentDropped ==
  ASSUME Typed, NEW x
  PROVE  /\ DOMAIN Drop(segs, x) \subseteq 0..MaxRecords
         /\ \A size \in DOMAIN Drop(segs, x) :
              Drop(segs, x)[size] \in File /\ Len(Drop(segs, x)[size]) = size
<1>1. FilesTyped(buf, wal, segs)
  BY TypedParts
<1> QED BY <1>1 DEF Drop, FilesTyped

\* A roll, done or not, does some of this.
LEMMA RollTyped ==
  ASSUME Typed, Rolled \/ RollFailed \/ NoLogToRoll
  PROVE  /\ FilesTyped(buf', wal', segs')
         /\ fd' \in {"open", "closed"} /\ spoiled' \subseteq Mishaps
<1>1. /\ FilesTyped(buf, wal, segs)
      /\ RestTyped(contents, fd, snap, child, image, orphan, todo, spoiled)
  BY TypedParts
<1>2. CASE NoLogToRoll
  BY <1>1, <1>2 DEF NoLogToRoll, logVars, RestTyped
<1>3. ASSUME NEW n \in 0..Len(buf)
      PROVE  /\ Written(n) \in File /\ Len(Written(n)) \in 0..MaxRecords
             /\ spoiled \cup FlushMishaps(n) \subseteq Mishaps
  BY <1>1, FlushTyped DEF RestTyped
<1>4. /\ <<>> \in File /\ Len(<<>>) = 0 /\ 0 \in 0..MaxRecords
      /\ BufLimit \in Nat /\ <<>> \in Seq(Record)
  BY LimitAssumption DEF File
<1>5. ASSUME buf' = <<>>, wal' \in File, Len(wal') \in 0..MaxRecords,
             DOMAIN segs' \subseteq 0..MaxRecords,
             \A size \in DOMAIN segs' : segs'[size] \in File /\ Len(segs'[size]) = size
      PROVE  FilesTyped(buf', wal', segs')
  <2>1. Len(buf') + Len(wal') <= MaxRecords
    <3>1. Len(buf') = 0 /\ MaxRecords \in Nat
      BY <1>4, <1>5, LimitAssumption
    <3> QED BY <1>5, <3>1
  <2> QED BY <1>4, <1>5, <2>1 DEF FilesTyped
<1>6. /\ DOMAIN segs \subseteq 0..MaxRecords
      /\ \A size \in DOMAIN segs : segs[size] \in File /\ Len(segs[size]) = size
  BY <1>1 DEF FilesTyped
<1>7. CASE Rolled
  <2>1. PICK n \in 0..Len(buf) :
          \/ /\ segs' = Put(segs, Len(Written(n)), Written(n))
             /\ spoiled' = spoiled \cup FlushMishaps(n)
                             \cup (IF DOMAIN segs = {} THEN {} ELSE {"leftover segment"})
          \/ segs' = segs /\ spoiled' = spoiled \cup FlushMishaps(n) \cup {"failed rename"}
    BY <1>7 DEF Rolled
  <2>2. buf' = <<>> /\ wal' = <<>> /\ fd' = fd
    BY <1>7 DEF Rolled
  <2>3. spoiled' \subseteq Mishaps
    BY <1>3, <2>1 DEF Mishaps
  <2>4. /\ DOMAIN segs' \subseteq 0..MaxRecords
        /\ \A size \in DOMAIN segs' : segs'[size] \in File /\ Len(segs'[size]) = size
    BY <1>3, <1>6, <2>1, SegmentPut
  <2> QED BY <1>1, <1>4, <1>5, <2>2, <2>3, <2>4 DEF RestTyped
<1>8. CASE RollFailed
  <2> DEFINE Closed == IF fd' = "closed" THEN {"no log"} ELSE {}
  <2>1. PICK n \in 0..Len(buf) :
          LET log == Written(n)
              size == Len(log)
              left(w, s, mishaps) ==
                /\ wal' = w /\ segs' = s
                /\ spoiled' = spoiled \cup FlushMishaps(n) \cup mishaps \cup Closed
          IN \/ left(log, segs, {})
             \/ size \in DOMAIN segs /\ left(log, Drop(segs, size), {"leftover segment"})
             \/ left(<<>>, Put(segs, size, log), IF DOMAIN segs = {} THEN {} ELSE {"leftover segment"})
             \/ size \in DOMAIN segs /\ left(segs[size], Drop(segs, size), {"failed rename"})
    BY <1>8 DEF RollFailed
  <2>2. buf' = <<>> /\ fd' \in {"open", "closed"}
    BY <1>8 DEF RollFailed
  <2> DEFINE log == Written(n)
             size == Len(log)
  <2>3. log \in File /\ size \in 0..MaxRecords /\ spoiled \cup FlushMishaps(n) \subseteq Mishaps
    BY <1>3
  <2>4. Closed \subseteq {"no log"}
    OBVIOUS
  <2>5. wal' \in {log, <<>>} \/ (size \in DOMAIN segs /\ wal' = segs[size])
    BY <2>1
  <2>6. segs' \in {segs, Put(segs, size, log), Drop(segs, size)}
    BY <2>1
  <2>7. spoiled' \subseteq spoiled \cup FlushMishaps(n) \cup {"leftover segment", "failed rename"} \cup Closed
    BY <2>1
  <2> HIDE DEF log, Closed
  <2>8. spoiled' \subseteq Mishaps
    BY <2>3, <2>4, <2>7 DEF Mishaps
  <2>9. wal' \in File /\ Len(wal') \in 0..MaxRecords
    BY <1>4, <1>6, <2>3, <2>5
  <2>10. /\ DOMAIN segs' \subseteq 0..MaxRecords
         /\ \A z \in DOMAIN segs' : segs'[z] \in File /\ Len(segs'[z]) = z
    BY <1>6, <2>3, <2>6, SegmentPut, SegmentDropped
  <2> QED BY <1>5, <2>2, <2>8, <2>9, <2>10
<1> QED BY <1>2, <1>7, <1>8

\* A change appends one record, to the buffer or to an emptied one.
LEMMA WriteTyped ==
  ASSUME Typed, NEW k \in Key, NEW v \in Val \cup {None}, Write(k, v)
  PROVE  Typed'
<1> DEFINE rec == [key |-> k, val |-> v]
<1>1. /\ FilesTyped(buf, wal, segs)
      /\ RestTyped(contents, fd, snap, child, image, orphan, todo, spoiled)
  BY TypedParts
<1>2. rec \in Record
  BY DEF Record
<1>3. /\ contents' = [contents EXCEPT ![k] = v]
      /\ UNCHANGED <<fd, segs, snap, child, image, orphan, todo>>
  BY DEF Write, childVars
<1>4. contents' \in Map
  BY <1>1, <1>3 DEF RestTyped, Map
<1>5. Len(buf) + Len(wal) < MaxRecords /\ Len(buf) \in Nat /\ Len(wal) \in Nat
      /\ BufLimit \in Nat \ {0} /\ MaxRecords \in Nat
  BY Known, LimitAssumption DEF Write, Room
<1> HIDE DEF rec
<1>6. CASE fd = "closed"
  <2>1. UNCHANGED <<buf, wal, spoiled>>
    BY <1>6 DEF Write
  <2> QED BY <1>1, <1>3, <1>4, <2>1, TypedParts DEF RestTyped
<1>7. CASE fd = "open" /\ Len(buf) < BufLimit
  <2>1. buf' = Append(buf, rec) /\ UNCHANGED <<wal, spoiled>>
    <3>1. fd # "closed" /\ Len(buf) # BufLimit
      BY <1>5, <1>7
    <3> QED BY <1>7, <3>1, Zenon DEF Write, rec
  <2>2. buf' \in Seq(Record) /\ Len(buf') = Len(buf) + 1
    BY <1>1, <1>2, <2>1 DEF FilesTyped
  <2>3. Len(buf') <= BufLimit /\ Len(buf') + Len(wal') <= MaxRecords
    BY <1>5, <1>7, <2>1, <2>2
  <2>4. FilesTyped(buf', wal', segs')
    BY <1>1, <1>3, <2>1, <2>2, <2>3 DEF FilesTyped
  <2> QED BY <1>1, <1>3, <1>4, <2>1, <2>4, TypedParts DEF RestTyped
<1>8. CASE fd = "open" /\ Len(buf) = BufLimit
  <2>1. PICK n \in 0..Len(buf) :
          wal' = Written(n) /\ buf' = <<rec>> /\ spoiled' = spoiled \cup FlushMishaps(n)
    BY <1>8 DEF Write, rec
  <2>2. wal' \in File /\ spoiled' \subseteq Mishaps
    BY <1>1, <2>1, FlushTyped DEF RestTyped
  <2>3. Len(wal') \in Nat /\ Len(wal') <= Len(buf) + Len(wal)
    BY <1>5, <2>1, Known, WrittenType
  <2>4. buf' \in Seq(Record) /\ Len(buf') = 1
    BY <1>2, <2>1
  <2>5. Len(buf') <= BufLimit /\ Len(buf') + Len(wal') <= MaxRecords
    BY <1>5, <2>3, <2>4
  <2>6. FilesTyped(buf', wal', segs')
    BY <1>1, <1>3, <2>2, <2>4, <2>5 DEF FilesTyped
  <2> QED BY <1>1, <1>3, <1>4, <2>2, <2>6, TypedParts DEF RestTyped
<1>9. fd \in {"open", "closed"} /\ Len(buf) <= BufLimit
  BY <1>1 DEF RestTyped, FilesTyped
<1>10. Len(buf) < BufLimit \/ Len(buf) = BufLimit
  BY <1>5, <1>9
<1> QED BY <1>6, <1>7, <1>8, <1>9, <1>10

\* A crash leaves files of the same types.
LEMMA CrashTyped ==
  ASSUME Typed, Crash
  PROVE  Typed'
<1>1. /\ FilesTyped(buf, wal, segs)
      /\ RestTyped(contents, fd, snap, child, image, orphan, todo, spoiled)
  BY TypedParts
<1>2. /\ buf' = <<>> /\ todo' = <<>> /\ child' = "none" /\ image' = Empty
      /\ segs' = segs /\ snap' = snap /\ contents' = Rebuilt'
      /\ fd' \in {"open", "closed"} /\ spoiled' \subseteq Mishaps
  BY <1>1 DEF Crash, Opened, RestTyped, Mishaps
<1>3. wal' \in File /\ Len(wal') \in 0..MaxRecords
  <2>1. CASE wal' = wal
    <3>1. Len(buf) + Len(wal) <= MaxRecords /\ MaxRecords \in Nat
      BY LimitAssumption DEF Typed
    <3> QED BY <2>1, <3>1, Known
  <2>2. ASSUME NEW n \in 0..Len(buf), wal' = Written(n)
        PROVE  wal' \in File /\ Len(wal') \in 0..MaxRecords
    BY <2>2, FlushTyped
  <2> QED BY <2>1, <2>2 DEF Crash
<1>4. FilesTyped(buf', wal', segs')
  BY <1>2, <1>3, FilesFlushed
<1>5. orphan' \subseteq Map
  BY <1>1 DEF Crash, RestTyped
<1>6. Empty \in Map
  BY DEF Empty, Map
<1>7. contents' \in Map
  <2>1. Readable(wal') \in Seq(Record)
    BY <1>3, ReadableType
  <2>2. Replayed(snap, segs) \in Map
    BY Known
  <2>3. contents' = Applied(Replayed(snap, segs), Readable(wal'))
    BY <1>2 DEF Rebuilt
  <2> QED BY <2>1, <2>2, <2>3, AppliedType
<1>8. <<>> \in Seq({"gc", "roll", "snapshot", "down"})
  OBVIOUS
<1> QED BY <1>1, <1>2, <1>4, <1>5, <1>6, <1>7, <1>8, TypedParts DEF RestTyped

\* Unlinking takes segments only.
LEMMA GcTyped ==
  ASSUME Typed, Gc
  PROVE  Typed'
<1>1. /\ FilesTyped(buf, wal, segs)
      /\ RestTyped(contents, fd, snap, child, image, orphan, todo, spoiled)
  BY TypedParts
<1>2. UNCHANGED <<contents, buf, fd, wal, snap, child, image, orphan, spoiled>>
  BY DEF Gc, logVars, childVars
<1>3. todo' \in Seq({"gc", "roll", "snapshot", "down"})
  BY <1>1, StepsLeft DEF Gc, RestTyped
<1>4. FilesTyped(buf', wal', segs')
  BY <1>1, <1>2 DEF Gc, Drop, FilesTyped
<1> QED BY <1>1, <1>2, <1>3, <1>4, TypedParts DEF RestTyped

\* The plan of a stop is a sequence of steps.
LEMMA StopTyped ==
  ASSUME Typed, Stop
  PROVE  Typed'
<1> DEFINE Steps == {"gc", "roll", "snapshot", "down"}
           reaped == IF child = "none" THEN <<>> ELSE <<"gc">>
<1>1. /\ FilesTyped(buf, wal, segs)
      /\ RestTyped(contents, fd, snap, child, image, orphan, todo, spoiled)
  BY TypedParts
<1>2. /\ UNCHANGED <<contents, buf, fd, wal, segs, snap, image, orphan>>
      /\ child' = "none"
      /\ spoiled' = spoiled \cup (IF child = "killed" THEN {"unchecked child"} ELSE {})
      /\ todo' = reaped \o <<"roll", "snapshot", "gc", "down">>
  BY DEF Stop, Shutdown, logVars
<1>3. reaped \in Seq(Steps) /\ <<"roll", "snapshot", "gc", "down">> \in Seq(Steps)
  <2>1. <<>> \in Seq(Steps) /\ <<"gc">> \in Seq(Steps)
    OBVIOUS
  <2>2. <<"roll", "snapshot", "gc", "down">> \in Seq(Steps)
    OBVIOUS
  <2> HIDE DEF Steps
  <2> QED BY <2>1, <2>2
<1>4. todo' \in Seq(Steps)
  <2> HIDE DEF reaped, Steps
  <2> QED BY <1>2, <1>3, ConcatProperties
<1>5. spoiled' \subseteq Mishaps
  BY <1>1, <1>2 DEF RestTyped, Mishaps
<1> HIDE DEF reaped
<1> QED BY <1>1, <1>2, <1>4, <1>5, TypedParts DEF RestTyped

\* Every step keeps the types; they hold at first.
LEMMA TypedNext ==
  ASSUME Typed, [Next]_vars
  PROVE  Typed'
<1> DEFINE Steps == {"gc", "roll", "snapshot", "down"}
<1>0. /\ FilesTyped(buf, wal, segs)
      /\ RestTyped(contents, fd, snap, child, image, orphan, todo, spoiled)
  BY TypedParts
<1>1. ASSUME NEW k \in Key, NEW v \in Val \cup {None}, Write(k, v) PROVE Typed'
  BY <1>1, WriteTyped
<1>2. CASE Sync
  <2>1. PICK n \in 0..Len(buf) : wal' = Written(n) /\ spoiled' = spoiled \cup FlushMishaps(n)
    BY <1>2 DEF Sync
  <2>2. /\ wal' \in File /\ Len(wal') \in 0..MaxRecords
        /\ spoiled' \subseteq Mishaps
    BY <1>0, <2>1, FlushTyped DEF RestTyped
  <2>3. /\ buf' = <<>>
        /\ UNCHANGED <<contents, fd, segs, snap, child, image, orphan, todo>>
    BY <1>2 DEF Sync, childVars
  <2>4. FilesTyped(buf', wal', segs')
    BY <2>2, <2>3, FilesFlushed
  <2> QED BY <1>0, <2>2, <2>3, <2>4, TypedParts DEF RestTyped
<1>3. CASE Spawn
  <2>1. /\ UNCHANGED <<contents, snap, orphan, todo>>
        /\ (child' = "running" /\ image' = contents) \/ UNCHANGED <<child, image>>
        /\ Rolled
    BY <1>3 DEF Spawn, childVars
  <2> QED BY <1>0, <2>1, RollTyped, TypedParts DEF RestTyped
<1>4. CASE SpawnUnrollable
  <2>1. /\ UNCHANGED <<contents, snap, child, image, orphan>>
        /\ todo' = <<"snapshot", "gc">>
        /\ RollFailed \/ NoLogToRoll
    BY <1>4 DEF SpawnUnrollable, childVars
  <2>2. todo' \in Seq(Steps)
    BY <2>1
  <2> QED BY <1>0, <2>1, <2>2, RollTyped, TypedParts DEF RestTyped
<1>5. CASE ChildWrites
  <2>1. /\ UNCHANGED <<contents, buf, fd, wal, segs, orphan, todo>>
        /\ child' = "exited" /\ image' = Empty
        /\ WriteSnapshot(image)
    BY <1>5 DEF ChildWrites, logVars
  <2>2. Empty \in Map
    BY DEF Empty, Map
  <2>3. snap' \in Map /\ spoiled' \subseteq Mishaps
    BY <1>0, <2>1, SnapshotTyped DEF RestTyped
  <2> QED BY <1>0, <2>1, <2>2, <2>3, TypedParts DEF RestTyped
<1>6. CASE ChildKilled
  <2>1. Empty \in Map
    BY DEF Empty, Map
  <2> QED BY <1>0, <1>6, <2>1, TypedParts DEF RestTyped, ChildKilled, logVars
<1>7. CASE Reap
  <2>1. <<>> \in Seq(Steps) /\ <<"gc">> \in Seq(Steps)
    OBVIOUS
  <2>2. todo' \in Seq(Steps) /\ child' = "none"
        /\ UNCHANGED <<contents, buf, fd, wal, segs, snap, image, orphan, spoiled>>
    BY <1>7, <2>1 DEF Reap, logVars
  <2> QED BY <1>0, <2>2, TypedParts DEF RestTyped
<1>8. CASE Gc
  BY <1>8, GcTyped
<1>9. CASE SnapshotNow
  <2>1. /\ UNCHANGED <<contents, buf, fd, wal, segs, child, image, orphan>>
        /\ todo' = Tail(todo) /\ todo # <<>>
        /\ WriteSnapshot(contents)
    BY <1>9 DEF SnapshotNow, logVars, childVars
  <2>2. todo' \in Seq(Steps)
    BY <1>0, <2>1, StepsLeft DEF RestTyped
  <2>3. snap' \in Map /\ spoiled' \subseteq Mishaps
    BY <1>0, <2>1, SnapshotTyped DEF RestTyped
  <2> QED BY <1>0, <2>1, <2>2, <2>3, TypedParts DEF RestTyped
<1>10. CASE RollNow
  <2>1. /\ UNCHANGED <<contents, snap, child, image, orphan>>
        /\ todo' = Tail(todo) /\ todo # <<>>
        /\ Rolled \/ RollFailed \/ NoLogToRoll
    BY <1>10 DEF RollNow, childVars
  <2>2. todo' \in Seq(Steps)
    BY <1>0, <2>1, StepsLeft DEF RestTyped
  <2> QED BY <1>0, <2>1, <2>2, RollTyped, TypedParts DEF RestTyped
<1>11. CASE Stop
  BY <1>11, StopTyped
<1>12. CASE StartAgain
  <2>1. /\ UNCHANGED <<buf, wal, segs, snap, child, image, orphan>>
        /\ todo' = <<>> /\ contents' = Rebuilt
        /\ fd' \in {"open", "closed"} /\ spoiled' \subseteq Mishaps
    BY <1>0, <1>12 DEF StartAgain, Opened, childVars, RestTyped, Mishaps
  <2>2. contents' \in Map
    BY <2>1, Known
  <2>3. todo' \in Seq(Steps)
    BY <2>1
  <2> QED BY <1>0, <2>1, <2>2, <2>3, TypedParts DEF RestTyped
<1>13. CASE Crash
  BY <1>13, CrashTyped
<1>14. CASE OrphanWrites
  <2>1. snap' \in Map
    BY <1>0, <1>14 DEF OrphanWrites, RestTyped
  <2> QED BY <1>0, <1>14, <2>1, TypedParts DEF RestTyped, OrphanWrites, logVars, childVars
<1>15. CASE UNCHANGED vars
  BY <1>0, <1>15, TypedParts DEF vars
<1> QED BY <1>1, <1>2, <1>3, <1>4, <1>5, <1>6, <1>7, <1>8, <1>9, <1>10, <1>11, <1>12, <1>13,
           <1>14, <1>15 DEF Next

\* The types hold at the start.
LEMMA TypedInit == Init => Typed
<1> SUFFICES ASSUME Init PROVE Typed
  OBVIOUS
<1>1. Empty \in Map
  BY DEF Empty, Map
<1>2. /\ <<>> \in Seq(Record) /\ <<>> \in File /\ Len(<<>>) = 0 /\ DOMAIN <<>> = {}
      /\ <<>> \in Seq({"gc", "roll", "snapshot", "down"})
      /\ BufLimit \in Nat /\ MaxRecords \in Nat
  BY LimitAssumption DEF File
<1>3. FilesTyped(buf, wal, segs)
  BY <1>2 DEF Init, FilesTyped
<1>4. RestTyped(contents, fd, snap, child, image, orphan, todo, spoiled)
  BY <1>1, <1>2 DEF Init, RestTyped
<1> QED BY <1>3, <1>4, TypedParts

\* The buffer never holds more than its limit, a segment's name is its size, and
\* the bounds of the model are never passed.
THEOREM TypeCorrect == Spec => []TypeOK
<1>1. Typed /\ [Next]_vars => Typed'
  BY TypedNext
<1>2. Typed => TypeOK
  BY DEF Typed
<1> QED BY <1>1, <1>2, TypedInit, PTL DEF Spec

-----------------------------------------------------------------------------
(* The steps of the durable map *)

\* The durable map applies changes as replay applies records.
LEMMA SameApplied == \A m, r : Kept!Applied(m, r) = Applied(m, r)
BY Zenon DEF Kept!Applied, Applied, Kept!SelectLastInSeq, SelectLastInSeq, Kept!Max, Max

\* Nothing a client or a crash could tell.
LEMMA KeptStutters ==
  ASSUME contents' = contents, Rebuilt' = Rebuilt, buf' = buf
  PROVE  Kept!Step
BY DEF Kept!Step

\* The buffer gets to the files.
LEMMA KeptKeeps ==
  ASSUME buf \in Seq(Record), contents' = contents,
         Rebuilt' = Applied(Rebuilt, buf), buf' = <<>>
  PROVE  Kept!Step
<1>1. Len(buf) \in 0..Len(buf) /\ SubSeq(buf, 1, Len(buf)) = buf
      /\ SubSeq(buf, Len(buf) + 1, Len(buf)) = <<>>
  OBVIOUS
<1>2. Kept!First(Len(buf)) = buf /\ Kept!After(Len(buf)) = <<>>
  BY <1>1 DEF Kept!First, Kept!After
<1>3. Kept!Keep
  BY <1>1, <1>2, SameApplied DEF Kept!Keep
<1> QED BY <1>3 DEF Kept!Step, Kept!Next

\* A change is made, and pends; ...
LEMMA KeptWrites ==
  ASSUME buf \in Seq(Record), NEW rec \in Record,
         contents' = [contents EXCEPT ![rec.key] = rec.val],
         Rebuilt \in Map, Rebuilt' = Rebuilt, buf' = Append(buf, rec)
  PROVE  Kept!Step
<1>1. /\ 0 \in 0..Len(buf) /\ SubSeq(buf, 1, 0) \in Seq(Record) /\ Len(SubSeq(buf, 1, 0)) = 0
      /\ SubSeq(buf, 0 + 1, Len(buf)) = buf
  OBVIOUS
<1>2. Applied(Rebuilt, SubSeq(buf, 1, 0)) = Rebuilt
  BY <1>1, AppliedNone
<1>3. Kept!Write(rec)
  BY <1>1, <1>2, SameApplied DEF Kept!Write, Kept!First, Kept!After
<1> QED BY <1>3 DEF Kept!Step, Kept!Next, Kept!Change, Record

\* ... the changes before it may get to the files.
LEMMA KeptFlushWrites ==
  ASSUME buf \in Seq(Record), NEW rec \in Record,
         contents' = [contents EXCEPT ![rec.key] = rec.val],
         Rebuilt' = Applied(Rebuilt, buf), buf' = <<rec>>
  PROVE  Kept!Step
<1>1. Len(buf) \in 0..Len(buf) /\ SubSeq(buf, 1, Len(buf)) = buf
      /\ SubSeq(buf, Len(buf) + 1, Len(buf)) = <<>> /\ Append(<<>>, rec) = <<rec>>
  OBVIOUS
<1>2. Kept!First(Len(buf)) = buf /\ Kept!After(Len(buf)) = <<>>
  BY <1>1 DEF Kept!First, Kept!After
<1>3. Kept!Write(rec)
  BY <1>1, <1>2, SameApplied DEF Kept!Write
<1> QED BY <1>3 DEF Kept!Step, Kept!Next, Kept!Change, Record

\* A crash leaves the beginning of what was pending.
LEMMA KeptCrashes ==
  ASSUME NEW n \in 0..Len(buf), Rebuilt' = Applied(Rebuilt, SubSeq(buf, 1, n)),
         buf' = <<>>, contents' = Rebuilt'
  PROVE  Kept!Step
<1>1. Kept!Crash
  BY SameApplied DEF Kept!Crash, Kept!First
<1> QED BY <1>1 DEF Kept!Step, Kept!Next

\* The plans a thread follows, step by step.
LEMMA PlanTails ==
  /\ Tail(<<"gc">>) = <<>> /\ Tail(<<"down">>) = <<>>
  /\ Tail(<<"snapshot", "gc">>) = <<"gc">> /\ Tail(<<"gc", "down">>) = <<"down">>
  /\ Tail(<<"snapshot", "gc", "down">>) = <<"gc", "down">>
  /\ Tail(<<"roll", "snapshot", "gc", "down">>) = <<"snapshot", "gc", "down">>
  /\ Tail(<<"gc", "roll", "snapshot", "gc", "down">>) = <<"roll", "snapshot", "gc", "down">>
<1>1. Tail(<<"gc">>) = <<>> /\ Tail(<<"down">>) = <<>>
  OBVIOUS
<1>2. Tail(<<"snapshot", "gc">>) = <<"gc">> /\ Tail(<<"gc", "down">>) = <<"down">>
  OBVIOUS
<1>3. Tail(<<"snapshot", "gc", "down">>) = <<"gc", "down">>
  OBVIOUS
<1>4. Tail(<<"roll", "snapshot", "gc", "down">>) = <<"snapshot", "gc", "down">>
  OBVIOUS
<1>5. Tail(<<"gc", "roll", "snapshot", "gc", "down">>) = <<"roll", "snapshot", "gc", "down">>
  OBVIOUS
<1> QED BY <1>1, <1>2, <1>3, <1>4, <1>5, Zenon

\* What each plan begins with.
LEMMA PlanHeads ==
  /\ Head(<<"gc">>) = "gc" /\ Head(<<"down">>) = "down"
  /\ Head(<<"snapshot", "gc">>) = "snapshot" /\ Head(<<"gc", "down">>) = "gc"
  /\ Head(<<"snapshot", "gc", "down">>) = "snapshot"
  /\ Head(<<"roll", "snapshot", "gc", "down">>) = "roll"
  /\ Head(<<"gc", "roll", "snapshot", "gc", "down">>) = "gc"
OBVIOUS

\* The plans of a stop, without and with a child that was waited for.
LEMMA PlanConcat ==
  /\ <<>> \o <<"roll", "snapshot", "gc", "down">> = <<"roll", "snapshot", "gc", "down">>
  /\ <<"gc">> \o <<"roll", "snapshot", "gc", "down">> =
       <<"gc", "roll", "snapshot", "gc", "down">>
<1> DEFINE S == {"gc", "roll", "snapshot", "down"}
           rest == <<"roll", "snapshot", "gc", "down">>
           one == <<"gc">>
           all == <<"gc", "roll", "snapshot", "gc", "down">>
<1>1. /\ rest \in Seq(S) /\ Len(rest) = 4
      /\ rest[1] = "roll" /\ rest[2] = "snapshot" /\ rest[3] = "gc" /\ rest[4] = "down"
  OBVIOUS
<1>2. one \in Seq(S) /\ Len(one) = 1 /\ one[1] = "gc"
  OBVIOUS
<1>3. <<>> \o rest = rest
  <2> HIDE DEF rest
  <2> QED BY <1>1
<1>4. one \o rest = [i \in 1..5 |-> IF i = 1 THEN "gc" ELSE rest[i - 1]]
  <2>1. /\ one \o rest \in Seq(S) /\ Len(one \o rest) = 5
        /\ \A i \in 1..5 : (one \o rest)[i] = IF i <= 1 THEN one[i] ELSE rest[i - 1]
    <3> HIDE DEF rest, one, S
    <3>1. /\ one \o rest \in Seq(S) /\ Len(one \o rest) = Len(one) + Len(rest)
          /\ \A i \in 1..Len(one) + Len(rest) :
               (one \o rest)[i] = IF i <= Len(one) THEN one[i] ELSE rest[i - Len(one)]
      BY <1>1, <1>2, ConcatProperties
    <3>2. Len(one) = 1 /\ Len(rest) = 4 /\ 1 + 4 = 5
      BY <1>1, <1>2
    <3>3. Len(one) + Len(rest) = 5
      BY <3>2
    <3>4. ASSUME NEW i \in 1..5 PROVE (one \o rest)[i] = IF i <= 1 THEN one[i] ELSE rest[i - 1]
      <4>1. i \in 1..Len(one) + Len(rest)
        BY <3>3
      <4>2. (one \o rest)[i] = IF i <= Len(one) THEN one[i] ELSE rest[i - Len(one)]
        BY <3>1, <4>1, Zenon
      <4> QED BY <3>2, <4>2
    <3>5. one \o rest \in Seq(S) /\ Len(one \o rest) = 5
      BY <3>1, <3>3, Zenon
    <3> QED BY <3>4, <3>5
  <2>2. one \o rest = [i \in 1..5 |-> (one \o rest)[i]]
    <3> HIDE DEF rest, one, S
    <3> QED BY <2>1, SequenceIsFunction, Zenon
  <2>3. ASSUME NEW i \in 1..5 PROVE (one \o rest)[i] = IF i = 1 THEN "gc" ELSE rest[i - 1]
    <3>1. i <= 1 <=> i = 1
      OBVIOUS
    <3> HIDE DEF rest, one
    <3> QED BY <1>2, <2>1, <3>1
  <2> HIDE DEF rest, one
  <2> QED BY <2>2, <2>3
<1>5. all = [i \in 1..5 |-> IF i = 1 THEN "gc" ELSE rest[i - 1]]
  <2>1. all = [i \in 1..5 |-> all[i]]
    OBVIOUS
  <2>2. ASSUME NEW i \in 1..5 PROVE all[i] = IF i = 1 THEN "gc" ELSE rest[i - 1]
    <3>1. i = 1 \/ i = 2 \/ i = 3 \/ i = 4 \/ i = 5
      OBVIOUS
    <3> QED BY <1>1, <3>1
  <2> HIDE DEF all, rest
  <2> QED BY <2>1, <2>2
<1> QED BY <1>3, <1>4, <1>5

-----------------------------------------------------------------------------
(* The inductive invariant *)

Quiet == {<<"snapshot", "gc">>, <<"snapshot", "gc", "down">>, <<"gc", "down">>, <<"down">>}

\* The steps a thread has left come in these sequences only; after a roll the
\* buffer is empty until they are done, and no child runs beside them.  Without a
\* log nothing is buffered.
Planned ==
  /\ todo \in Quiet \cup {<<>>, <<"gc">>, <<"roll", "snapshot", "gc", "down">>,
                          <<"gc", "roll", "snapshot", "gc", "down">>}
  /\ todo \in Quiet => buf = <<>>
  /\ todo # <<>> => child = "none"
  /\ fd = "closed" => buf = <<>>

\* The files and the buffer together give the contents.
LiveKept == contents = Applied(Rebuilt, buf)

\* A child writes what the snapshot and the segments give, and then only the
\* snapshot is needed.
ChildSound ==
  /\ child # "none" => orphan = {}
  /\ child = "running" => DOMAIN segs # {} /\ image = Replayed(snap, segs)
  /\ child = "exited" => Replayed(snap, segs) = snap

\* So does one that outlived its parent; the segments are still there.
OrphanSound ==
  orphan # {} => DOMAIN segs # {} /\ \A m \in orphan : m = Replayed(snap, segs)

\* The segments are unlinked only when the snapshot and the log do without them.
GcSound ==
  todo # <<>> /\ Head(todo) = "gc" =>
    orphan = {} /\ Applied(snap, Readable(wal)) = Rebuilt

Sound ==
  /\ fd = "open" /\ AtMostOne(segs)
  /\ LiveKept /\ ChildSound /\ OrphanSound /\ GcSound

IInv == Typed /\ Planned /\ (spoiled = {} => Sound)

\* The plans stay plans.
LEMMA PlannedNext ==
  ASSUME Planned, [Next]_vars
  PROVE  Planned'
<1> USE DEF Planned, Quiet, Serving
<1>1. ASSUME NEW k \in Key, NEW v \in Val \cup {None}, Write(k, v) PROVE Planned'
  <2>1. fd' = fd /\ child' = child /\ todo' = todo /\ todo = <<>>
    BY <1>1 DEF Write, childVars
  <2>2. fd = "closed" => buf' = buf
    BY <1>1 DEF Write
  <2> QED BY <2>1, <2>2
<1>2. CASE Sync
  BY <1>2 DEF Sync, childVars
<1>3. CASE Spawn
  BY <1>3 DEF Spawn, Rolled, childVars
<1>4. CASE SpawnUnrollable
  <2>1. buf' = <<>>
    BY <1>4 DEF SpawnUnrollable, RollFailed, NoLogToRoll, logVars
  <2> QED BY <1>4, <2>1 DEF SpawnUnrollable, childVars
<1>5. CASE ChildWrites
  BY <1>5 DEF ChildWrites, logVars
<1>6. CASE ChildKilled
  BY <1>6 DEF ChildKilled, logVars
<1>7. CASE Reap
  BY <1>7 DEF Reap, logVars
<1>8. CASE Gc
  <2>1. /\ todo # <<>> /\ Head(todo) = "gc"
        /\ todo' = todo \/ todo' = Tail(todo)
        /\ UNCHANGED <<buf, fd, child>>
    BY <1>8 DEF Gc, logVars, childVars
  <2>2. todo \in {<<"gc">>, <<"gc", "down">>, <<"gc", "roll", "snapshot", "gc", "down">>}
    BY <2>1, PlanHeads
  <2>3. todo' = <<"down">> => todo = <<"gc", "down">> /\ buf = <<>>
    BY <2>1, <2>2, PlanTails
  <2>4. todo' = todo \/ todo' \in {<<>>, <<"down">>, <<"roll", "snapshot", "gc", "down">>}
    BY <2>1, <2>2, PlanTails
  <2>5. <<"roll", "snapshot", "gc", "down">> \notin Quiet /\ <<>> \notin Quiet
    OBVIOUS
  <2>6. todo' \in Quiet => buf' = <<>>
    BY <2>1, <2>3, <2>4, <2>5, Zenon
  <2>7. child' = "none"
    BY <2>1
  <2>8. fd' = "closed" => buf' = <<>>
    BY <2>1
  <2> QED BY <2>4, <2>6, <2>7, <2>8
<1>9. CASE SnapshotNow
  <2>1. /\ todo # <<>> /\ Head(todo) = "snapshot" /\ todo' = Tail(todo)
        /\ UNCHANGED <<buf, fd, child>>
    BY <1>9 DEF SnapshotNow, logVars, childVars
  <2>2. todo \in {<<"snapshot", "gc">>, <<"snapshot", "gc", "down">>}
    BY <2>1, PlanHeads
  <2> QED BY <2>1, <2>2, PlanTails
<1>10. CASE RollNow
  <2>1. buf' = <<>>
    BY <1>10 DEF RollNow, Rolled, RollFailed, NoLogToRoll, logVars
  <2> QED BY <1>10, <2>1, PlanTails DEF RollNow, childVars
<1>11. CASE Stop
  <2>1. /\ todo' = (IF child = "none" THEN <<>> ELSE <<"gc">>)
                     \o <<"roll", "snapshot", "gc", "down">>
        /\ child' = "none" /\ UNCHANGED <<buf, fd>>
    BY <1>11 DEF Stop, Shutdown, logVars
  <2>2. todo' \in {<<"roll", "snapshot", "gc", "down">>,
                   <<"gc", "roll", "snapshot", "gc", "down">>}
    BY <2>1, PlanConcat
  <2>3. todo' \notin Quiet
    BY <2>2
  <2> QED BY <2>1, <2>2, <2>3
<1>12. CASE StartAgain
  BY <1>12 DEF StartAgain
<1>13. CASE Crash
  BY <1>13 DEF Crash
<1>14. CASE OrphanWrites
  BY <1>14 DEF OrphanWrites, logVars, childVars
<1>15. CASE UNCHANGED vars
  BY <1>15 DEF vars
<1> QED BY <1>1, <1>2, <1>3, <1>4, <1>5, <1>6, <1>7, <1>8, <1>9, <1>10, <1>11, <1>12, <1>13,
           <1>14, <1>15 DEF Next

-----------------------------------------------------------------------------
(* What the steps do to what the files would give back *)

\* A flush without a mishap brings the whole buffer to the files.
LEMMA FlushRebuilt ==
  ASSUME Typed, NEW n \in 0..Len(buf), FlushMishaps(n) = {},
         wal' = Written(n), segs' = segs, snap' = snap
  PROVE  Rebuilt' = Applied(Rebuilt, buf)
<1>1. Rebuilt' = Applied(Replayed(snap, segs), Readable(Written(n)))
  BY DEF Rebuilt
<1>2. wal \in File /\ buf \in Seq(Record) /\ Replayed(snap, segs) \in Map
  BY Known
<1> QED BY <1>1, <1>2, FlushComplete DEF Rebuilt

\* So does a log that becomes a segment: it was the only file beside the snapshot,
\* and is the only segment.
LEMMA SegmentRebuilt ==
  ASSUME Typed, NEW n \in 0..Len(buf), FlushMishaps(n) = {}, DOMAIN segs = {},
         segs' = Put(segs, Len(Written(n)), Written(n)), wal' = <<>>, snap' = snap
  PROVE  /\ DOMAIN segs' # {} /\ AtMostOne(segs')
         /\ Rebuilt' = Applied(Rebuilt, buf)
         /\ Replayed(snap', segs') = Rebuilt'
<1> DEFINE w == Written(n)
           size == Len(w)
<1>3. /\ wal \in File /\ buf \in Seq(Record) /\ Replayed(snap, segs) \in Map
      /\ Readable(wal) \in Seq(Record) /\ Rebuilt \in Map /\ snap \in Map
  BY Known DEF Typed, TypeOK
<1>4. w \in File /\ size \in 0..MaxRecords
  BY FlushTyped
<1> HIDE DEF w
<1>5. segs' = [z \in {size} |-> w]
  BY DEF Put, w
<1>6. DOMAIN segs' = {size} /\ segs'[size] = w
  BY <1>5
<1>7. Segments(segs')
  BY <1>4, <1>6 DEF Segments
<1>8. Replayed(snap, segs') = Applied(snap, Readable(w))
  <2> HIDE DEF size
  <2> QED BY <1>3, <1>6, <1>7, ReplayedOne
<1>9. Replayed(snap, segs) = snap
  BY <1>3, ReplayedNone
<1>10. Applied(snap, Readable(w)) = Applied(Rebuilt, buf)
  <2>1. Applied(snap, Readable(w)) = Applied(Applied(snap, Readable(wal)), buf)
    BY <1>3, FlushComplete DEF w
  <2> QED BY <1>9, <2>1 DEF Rebuilt
<1>11. Rebuilt' = Replayed(snap, segs')
  <2>1. Rebuilt' = Applied(Replayed(snap, segs'), Readable(<<>>))
    BY DEF Rebuilt
  <2>2. Replayed(snap, segs') \in Map /\ <<>> \in Seq(Record) /\ Len(<<>>) = 0
    BY <1>3, <1>7, ReplayedType
  <2> QED BY <2>1, <2>2, ReadableEmpty, AppliedNone
<1> QED BY <1>6, <1>8, <1>10, <1>11 DEF AtMostOne

\* So does a roll, ...
LEMMA RolledRebuilt ==
  ASSUME Typed, Rolled, spoiled' = {}, snap' = snap
  PROVE  /\ DOMAIN segs = {} /\ DOMAIN segs' # {} /\ AtMostOne(segs')
         /\ Rebuilt' = Applied(Rebuilt, buf)
         /\ Replayed(snap', segs') = Rebuilt'
<1>1. PICK n \in 0..Len(buf) :
        \/ /\ segs' = Put(segs, Len(Written(n)), Written(n))
           /\ spoiled' = spoiled \cup FlushMishaps(n)
                           \cup (IF DOMAIN segs = {} THEN {} ELSE {"leftover segment"})
        \/ segs' = segs /\ spoiled' = spoiled \cup FlushMishaps(n) \cup {"failed rename"}
  BY DEF Rolled
<1>2. DOMAIN segs = {} /\ FlushMishaps(n) = {} /\ segs' = Put(segs, Len(Written(n)), Written(n))
  BY <1>1
<1>3. wal' = <<>>
  BY DEF Rolled
<1> QED BY <1>2, <1>3, SegmentRebuilt

\* ... and one that fails, as long as the log stays open: it is where it was, or
\* the only segment.
LEMMA RollFailedRebuilt ==
  ASSUME Typed, RollFailed, AtMostOne(segs), spoiled' = {}, snap' = snap
  PROVE  /\ fd' = "open" /\ Rebuilt' = Applied(Rebuilt, buf)
         /\ segs' = segs \/ DOMAIN segs = {}
         /\ AtMostOne(segs')
<1> DEFINE Closed == IF fd' = "closed" THEN {"no log"} ELSE {}
<1>1. PICK n \in 0..Len(buf) :
        LET log == Written(n)
            size == Len(log)
            left(w, s, mishaps) ==
              /\ wal' = w /\ segs' = s
              /\ spoiled' = spoiled \cup FlushMishaps(n) \cup mishaps \cup Closed
        IN \/ left(log, segs, {})
           \/ size \in DOMAIN segs /\ left(log, Drop(segs, size), {"leftover segment"})
           \/ left(<<>>, Put(segs, size, log), IF DOMAIN segs = {} THEN {} ELSE {"leftover segment"})
           \/ size \in DOMAIN segs /\ left(segs[size], Drop(segs, size), {"failed rename"})
  BY DEF RollFailed
<1>2. FlushMishaps(n) = {} /\ Closed = {}
  BY <1>1
<1>3. fd' = "open"
  BY <1>2 DEF RollFailed
<1>4. \/ wal' = Written(n) /\ segs' = segs
      \/ wal' = <<>> /\ segs' = Put(segs, Len(Written(n)), Written(n)) /\ DOMAIN segs = {}
  BY <1>1
<1> QED BY <1>2, <1>3, <1>4, FlushRebuilt, SegmentRebuilt

\* The buffer has got to the files.
LEMMA Emptied ==
  ASSUME Typed, LiveKept, contents' = contents, buf' = <<>>,
         Rebuilt' = Applied(Rebuilt, buf)
  PROVE  LiveKept' /\ Rebuilt' = contents /\ Kept!Step
<1>1. buf \in Seq(Record) /\ Rebuilt \in Map
  BY Known
<1>2. Rebuilt' \in Map /\ buf' \in Seq(Record) /\ Len(buf') = 0
  BY <1>1, AppliedType
<1>3. Applied(Rebuilt', buf') = Rebuilt'
  BY <1>2, AppliedNone
<1> QED BY <1>1, <1>3, KeptKeeps DEF LiveKept

\* A snapshot of what it and the segments give, and one of all the files give,
\* can both be replayed over.
LEMMA SnapshotRebuilt ==
  ASSUME Typed, AtMostOne(segs), segs' = segs, wal' = wal,
         snap' = Replayed(snap, segs) \/ snap' = Rebuilt
  PROVE  /\ Rebuilt' = Rebuilt
         /\ snap' = Replayed(snap, segs) => Replayed(snap', segs') = snap'
         /\ snap' = Rebuilt => Applied(snap', Readable(wal')) = Rebuilt'
<1> DEFINE r == Readable(wal)
           m == Replayed(snap, segs)
<1>1. Segments(segs) /\ snap \in Map /\ r \in Seq(Record) /\ Rebuilt = Applied(m, r)
  BY Known DEF Typed, TypeOK, Rebuilt
<1>2. Rebuilt' = Applied(Replayed(snap', segs), r)
  BY DEF Rebuilt
<1> HIDE DEF r
<1>3. /\ Replayed(m, segs) = m
      /\ Applied(Replayed(Rebuilt, segs), r) = Rebuilt
      /\ Applied(Rebuilt, r) = Rebuilt
  BY <1>1, ReplayedAgain
<1> HIDE DEF m
<1>4. CASE snap' = m
  <2>1. Replayed(snap', segs) = snap'
    BY <1>3, <1>4
  <2>2. Rebuilt' = Rebuilt
    BY <1>1, <1>2, <1>3, <1>4
  <2>3. snap' = Rebuilt => Applied(snap', r) = Rebuilt'
    BY <1>3, <2>2
  <2> QED BY <2>1, <2>2, <2>3 DEF m, r
<1>5. CASE snap' = Rebuilt /\ snap' # m
  <2>1. Rebuilt' = Rebuilt
    BY <1>2, <1>3, <1>5
  <2> QED BY <1>3, <1>5, <2>1 DEF m, r
<1> QED BY <1>4, <1>5 DEF m

-----------------------------------------------------------------------------
(* Every step keeps the files sound, and is a step of the durable map *)

\* A change is made.
LEMMA WriteSound ==
  ASSUME Typed, Sound, NEW k \in Key, NEW v \in Val \cup {None}, Write(k, v), spoiled' = {}
  PROVE  Sound' /\ Kept!Step
<1> DEFINE rec == [key |-> k, val |-> v]
<1>1. rec \in Record /\ rec.key = k /\ rec.val = v
  BY DEF Record
<1>2. /\ contents' = [contents EXCEPT ![k] = v] /\ todo = <<>>
      /\ UNCHANGED <<fd, segs, snap, child, image, orphan, todo>>
  BY DEF Write, childVars, Serving
<1>3. /\ buf \in Seq(Record) /\ Rebuilt \in Map /\ contents = Applied(Rebuilt, buf)
      /\ contents \in Map
  BY Known DEF Sound, LiveKept, Typed, TypeOK
<1> HIDE DEF rec
<1>4. LiveKept' /\ Kept!Step
  <2>1. CASE Len(buf) < BufLimit
    <3>1. Len(buf) # BufLimit /\ fd # "closed"
      BY <2>1, Known, LimitAssumption DEF Sound
    <3>2. buf' = Append(buf, rec) /\ wal' = wal
      BY <2>1, <3>1, Zenon DEF Write, rec, Sound
    <3>3. Rebuilt' = Rebuilt
      BY <1>2, <3>2 DEF Rebuilt
    <3>4. Kept!Step
      BY <1>1, <1>2, <1>3, <3>2, <3>3, KeptWrites
    <3>5. contents' = Applied(Rebuilt, Append(buf, rec))
      BY <1>1, <1>2, <1>3, AppliedAppend
    <3> QED BY <3>2, <3>3, <3>4, <3>5 DEF LiveKept
  <2>2. CASE ~(Len(buf) < BufLimit)
    <3>1. PICK n \in 0..Len(buf) :
            wal' = Written(n) /\ buf' = <<rec>> /\ spoiled' = spoiled \cup FlushMishaps(n)
      <4>1. Len(buf) = BufLimit
        BY <2>2, Known, LimitAssumption DEF Typed, TypeOK
      <4>2. fd = "open" /\ fd # "closed"
        BY DEF Sound
      <4> QED BY <2>2, <4>1, <4>2, Zenon DEF Write, rec
    <3>2. FlushMishaps(n) = {}
      BY <3>1
    <3>3. Rebuilt' = contents
      BY <1>2, <1>3, <3>1, <3>2, FlushRebuilt
    <3>4. Kept!Step
      BY <1>1, <1>2, <1>3, <3>1, <3>3, KeptFlushWrites
    <3>5. Applied(contents, <<rec>>) = [contents EXCEPT ![k] = v]
      <4>1. <<>> \in Seq(Record) /\ Len(<<>>) = 0 /\ Append(<<>>, rec) = <<rec>>
        OBVIOUS
      <4>2. Applied(contents, <<>>) = contents
        BY <1>3, <4>1, AppliedNone
      <4>3. Applied(contents, Append(<<>>, rec)) =
              [Applied(contents, <<>>) EXCEPT ![rec.key] = rec.val]
        <5>1. \A r \in Seq(Record) :
                Applied(contents, Append(r, rec)) = [Applied(contents, r) EXCEPT ![rec.key] = rec.val]
          BY <1>1, <1>3, AppliedAppend
        <5> QED BY <4>1, <5>1, Zenon
      <4> QED BY <1>1, <4>1, <4>2, <4>3
    <3> QED BY <1>2, <3>1, <3>3, <3>4, <3>5 DEF LiveKept
  <2> QED BY <2>1, <2>2
<1>5. ChildSound' /\ OrphanSound' /\ GcSound' /\ fd' = "open" /\ AtMostOne(segs')
  BY <1>2 DEF Sound, ChildSound, OrphanSound, GcSound
<1> QED BY <1>4, <1>5 DEF Sound

\* The buffer is written at the end of a round.
LEMMA SyncSound ==
  ASSUME Typed, Sound, Sync, spoiled' = {}
  PROVE  Sound' /\ Kept!Step
<1>1. PICK n \in 0..Len(buf) : wal' = Written(n) /\ spoiled' = spoiled \cup FlushMishaps(n)
  BY DEF Sync
<1>2. /\ buf' = <<>> /\ todo = <<>>
      /\ UNCHANGED <<contents, fd, segs, snap, child, image, orphan, todo>>
  BY DEF Sync, childVars, Serving
<1>3. Rebuilt' = Applied(Rebuilt, buf)
  BY <1>1, <1>2, FlushRebuilt
<1>4. LiveKept' /\ Kept!Step
  BY <1>2, <1>3, Emptied DEF Sound
<1>5. ChildSound' /\ OrphanSound' /\ GcSound' /\ fd' = "open" /\ AtMostOne(segs')
  BY <1>2 DEF Sound, ChildSound, OrphanSound, GcSound
<1> QED BY <1>4, <1>5 DEF Sound

\* A snapshot begins: the child takes along what snapshot and segment give.
LEMMA SpawnSound ==
  ASSUME Typed, Sound, Spawn, spoiled' = {}
  PROVE  Sound' /\ Kept!Step
<1>1. /\ UNCHANGED <<contents, snap, orphan, todo>> /\ todo = <<>> /\ child = "none"
      /\ (child' = "running" /\ image' = contents) \/ UNCHANGED <<child, image>>
      /\ Rolled /\ buf' = <<>> /\ fd' = fd
  BY DEF Spawn, childVars, Serving, Rolled
<1>2. /\ DOMAIN segs = {} /\ DOMAIN segs' # {} /\ AtMostOne(segs')
      /\ Rebuilt' = Applied(Rebuilt, buf)
      /\ Replayed(snap', segs') = Rebuilt'
  BY <1>1, RolledRebuilt
<1>3. LiveKept' /\ Rebuilt' = contents /\ Kept!Step
  BY <1>1, <1>2, Emptied DEF Sound
<1>4. orphan = {}
  BY <1>2 DEF Sound, OrphanSound
<1>5. ChildSound'
  BY <1>1, <1>2, <1>3, <1>4 DEF ChildSound
<1>6. OrphanSound' /\ GcSound'
  BY <1>1, <1>4 DEF OrphanSound, GcSound
<1> QED BY <1>1, <1>2, <1>3, <1>5, <1>6 DEF Sound

\* The log is rolled, or not, before a snapshot is written in place.
LEMMA RollSound ==
  ASSUME Typed, Sound, Rolled \/ RollFailed \/ NoLogToRoll, spoiled' = {}, child = "none",
         UNCHANGED <<contents, snap, child, image, orphan>>,
         todo' # <<>> => Head(todo') # "gc"
  PROVE  Sound' /\ Kept!Step
<1>1. ~NoLogToRoll /\ buf' = <<>>
  BY DEF Sound, Rolled, RollFailed, NoLogToRoll
<1>2. ChildSound' /\ GcSound'
  BY DEF ChildSound, GcSound
<1>3. CASE Rolled
  <2>1. /\ DOMAIN segs = {} /\ DOMAIN segs' # {} /\ AtMostOne(segs')
        /\ Rebuilt' = Applied(Rebuilt, buf)
    BY <1>3, RolledRebuilt
  <2>2. orphan = {} /\ fd' = "open"
    BY <1>3, <2>1 DEF Sound, OrphanSound, Rolled
  <2>3. OrphanSound'
    BY <2>2 DEF OrphanSound
  <2>4. LiveKept' /\ Kept!Step
    BY <1>1, <2>1, Emptied DEF Sound
  <2> QED BY <1>2, <2>1, <2>2, <2>3, <2>4 DEF Sound
<1>4. CASE RollFailed
  <2>1. /\ fd' = "open" /\ Rebuilt' = Applied(Rebuilt, buf) /\ AtMostOne(segs')
        /\ segs' = segs \/ DOMAIN segs = {}
    BY <1>4, RollFailedRebuilt DEF Sound
  <2>2. OrphanSound'
    BY <2>1 DEF Sound, OrphanSound
  <2>3. LiveKept' /\ Kept!Step
    BY <1>1, <2>1, Emptied DEF Sound
  <2> QED BY <1>2, <2>1, <2>2, <2>3 DEF Sound
<1> QED BY <1>1, <1>3, <1>4

\* The child's snapshot stands for the old one and the segments.
LEMMA ChildSoundly ==
  ASSUME Typed, Planned, Sound, ChildWrites, spoiled' = {}
  PROVE  Sound' /\ Kept!Step
<1>1. /\ UNCHANGED <<contents, buf, fd, wal, segs, orphan, todo>>
      /\ child = "running" /\ child' = "exited" /\ WriteSnapshot(image)
  BY DEF ChildWrites, logVars
<1>2. snap' = image
  BY <1>1 DEF WriteSnapshot
<1>3. orphan = {} /\ image = Replayed(snap, segs)
  BY <1>1 DEF Sound, ChildSound
<1>4. Rebuilt' = Rebuilt /\ Replayed(snap', segs') = snap'
  BY <1>1, <1>2, <1>3, SnapshotRebuilt DEF Sound
<1>5. ChildSound' /\ OrphanSound'
  BY <1>1, <1>3, <1>4 DEF ChildSound, OrphanSound
<1>6. GcSound'
  <2>1. todo = <<>>
    BY <1>1 DEF Planned
  <2> QED BY <1>1, <2>1 DEF GcSound
<1>7. LiveKept' /\ Kept!Step
  BY <1>1, <1>4, KeptStutters DEF Sound, LiveKept
<1> QED BY <1>1, <1>5, <1>6, <1>7 DEF Sound

\* So does one that outlived its parent.
LEMMA OrphanSoundly ==
  ASSUME Typed, Sound, OrphanWrites
  PROVE  Sound' /\ Kept!Step
<1>1. /\ UNCHANGED <<contents, buf, fd, wal, segs, child, image, todo>>
      /\ orphan # {} /\ orphan' = {} /\ snap' = Replayed(snap, segs)
  BY DEF OrphanWrites, logVars, childVars, Sound, OrphanSound
<1>2. Rebuilt' = Rebuilt
  BY <1>1, SnapshotRebuilt DEF Sound
<1>3. child = "none"
  BY <1>1 DEF Sound, ChildSound
<1>4. ChildSound' /\ OrphanSound' /\ GcSound'
  BY <1>1, <1>3 DEF Sound, ChildSound, OrphanSound, GcSound
<1>5. LiveKept' /\ Kept!Step
  BY <1>1, <1>2, KeptStutters DEF Sound, LiveKept
<1> QED BY <1>1, <1>4, <1>5 DEF Sound

\* A child that ends changes no file.
LEMMA ReapSound ==
  ASSUME Typed, Planned, Sound, ChildKilled \/ Reap, spoiled' = {}
  PROVE  Sound' /\ Kept!Step
<1>1. UNCHANGED <<contents, buf, fd, wal, segs, snap, orphan>>
  BY DEF ChildKilled, Reap, logVars
<1>2. Rebuilt' = Rebuilt
  BY <1>1 DEF Rebuilt
<1>3. ChildSound' /\ OrphanSound'
  BY <1>1 DEF Sound, ChildSound, OrphanSound, ChildKilled, Reap
<1>4. GcSound'
  <2>1. CASE ChildKilled
    BY <1>1, <1>2, <2>1 DEF Sound, GcSound, ChildKilled
  <2>2. CASE Reap
    <3>1. child = "none" => child \notin {"exited", "killed"}
      OBVIOUS
    <3>2. child \in {"exited", "killed"} /\ todo' = IF child = "exited" THEN <<"gc">> ELSE <<>>
      BY <2>2 DEF Reap
    <3>3. orphan = {} /\ (child = "exited" => Replayed(snap, segs) = snap)
      BY <3>2 DEF Sound, ChildSound
    <3> QED BY <1>1, <1>2, <3>2, <3>3 DEF GcSound, Rebuilt
  <2> QED BY <2>1, <2>2
<1>5. LiveKept' /\ Kept!Step
  BY <1>1, <1>2, KeptStutters DEF Sound, LiveKept
<1> QED BY <1>1, <1>3, <1>4, <1>5 DEF Sound

\* The segments go when the snapshot and the log do without them.
LEMMA GcSoundly ==
  ASSUME Typed, Planned, Sound, Gc
  PROVE  Sound' /\ Kept!Step
<1>1. /\ UNCHANGED <<contents, buf, fd, wal, snap, child, image, orphan, spoiled>>
      /\ todo # <<>> /\ Head(todo) = "gc"
  BY DEF Gc, logVars, childVars
<1>2. orphan = {} /\ Applied(snap, Readable(wal)) = Rebuilt /\ child = "none"
  BY <1>1 DEF Sound, GcSound, Planned
<1>3. CASE DOMAIN segs = {}
  <2>1. todo' = Tail(todo) /\ segs' = segs
    BY <1>3 DEF Gc
  <2>2. Rebuilt' = Rebuilt
    BY <1>1, <2>1 DEF Rebuilt
  <2>3. ChildSound' /\ OrphanSound' /\ GcSound' /\ AtMostOne(segs')
    BY <1>1, <1>2, <2>1, <2>2 DEF ChildSound, OrphanSound, GcSound, Sound
  <2> QED BY <1>1, <2>2, <2>3, KeptStutters DEF Sound, LiveKept
<1>4. CASE DOMAIN segs # {}
  <2>1. segs' = Drop(segs, Min(DOMAIN segs)) /\ todo' = todo
    BY <1>4 DEF Gc
  <2>2. Min(DOMAIN segs) \in DOMAIN segs
    <3>1. DOMAIN segs \in SUBSET Nat
      BY DEF Typed, TypeOK
    <3> QED BY <1>4, <3>1, LeastIndex
  <2>3. DOMAIN segs' = {}
    <3>1. DOMAIN segs' = DOMAIN segs \ {Min(DOMAIN segs)}
      BY <2>1 DEF Drop
    <3> QED BY <2>2, <3>1 DEF Sound, AtMostOne
  <2>4. Replayed(snap, segs') = snap
    BY <2>3, ReplayedNone DEF Typed, TypeOK
  <2>5. Rebuilt' = Rebuilt
    BY <1>1, <1>2, <2>4 DEF Rebuilt
  <2>6. ChildSound' /\ OrphanSound' /\ GcSound' /\ AtMostOne(segs')
    BY <1>1, <1>2, <2>1, <2>3, <2>5 DEF ChildSound, OrphanSound, GcSound, AtMostOne
  <2> QED BY <1>1, <2>5, <2>6, KeptStutters DEF Sound, LiveKept
<1> QED BY <1>3, <1>4

\* A snapshot written in place has all the files give.
LEMMA SnapshotSound ==
  ASSUME Typed, Planned, Sound, SnapshotNow, spoiled' = {}
  PROVE  Sound' /\ Kept!Step
<1>1. /\ UNCHANGED <<contents, buf, fd, wal, segs, child, image, orphan>>
      /\ todo # <<>> /\ Head(todo) = "snapshot" /\ todo' = Tail(todo)
      /\ WriteSnapshot(contents)
  BY DEF SnapshotNow, logVars, childVars
<1>2. snap' = contents /\ orphan = {}
  BY <1>1 DEF WriteSnapshot
<1>3. todo \in Quiet /\ child = "none"
  BY <1>1, PlanHeads DEF Planned, Quiet
<1>4. buf = <<>>
  BY <1>3 DEF Planned
<1>5. contents = Rebuilt
  <2>1. Len(buf) = 0 /\ buf \in Seq(Record) /\ Rebuilt \in Map
    BY <1>4, Known
  <2> QED BY <2>1, AppliedNone DEF Sound, LiveKept
<1>6. Rebuilt' = Rebuilt /\ Applied(snap', Readable(wal')) = Rebuilt'
  BY <1>1, <1>2, <1>5, SnapshotRebuilt DEF Sound
<1>7. ChildSound' /\ OrphanSound' /\ GcSound'
  BY <1>1, <1>2, <1>3, <1>6 DEF ChildSound, OrphanSound, GcSound
<1>8. LiveKept' /\ Kept!Step
  BY <1>1, <1>6, KeptStutters DEF Sound, LiveKept
<1> QED BY <1>1, <1>7, <1>8 DEF Sound

\* A stop begins; a child was waited for.
LEMMA StopSound ==
  ASSUME Typed, Sound, Stop, spoiled' = {}
  PROVE  Sound' /\ Kept!Step
<1>1. /\ UNCHANGED <<contents, buf, fd, wal, segs, snap, image, orphan>>
      /\ child' = "none" /\ child # "running" /\ child # "killed"
      /\ todo' = (IF child = "none" THEN <<>> ELSE <<"gc">>)
                   \o <<"roll", "snapshot", "gc", "down">>
  BY DEF Stop, Shutdown, logVars
<1>2. Rebuilt' = Rebuilt
  BY <1>1 DEF Rebuilt
<1>3. GcSound'
  <2>1. CASE child = "none"
    <3>1. Head(todo') = "roll"
      BY <1>1, <2>1, PlanConcat, PlanHeads
    <3> QED BY <3>1 DEF GcSound
  <2>2. CASE child # "none"
    <3>1. child = "exited"
      BY <1>1, <2>2 DEF Typed, TypeOK
    <3>2. orphan = {} /\ Replayed(snap, segs) = snap
      BY <3>1 DEF Sound, ChildSound
    <3> QED BY <1>1, <1>2, <3>2 DEF GcSound, Rebuilt
  <2> QED BY <2>1, <2>2
<1>4. ChildSound' /\ OrphanSound'
  BY <1>1 DEF Sound, ChildSound, OrphanSound
<1>5. LiveKept' /\ Kept!Step
  BY <1>1, <1>2, KeptStutters DEF Sound, LiveKept
<1> QED BY <1>1, <1>3, <1>4, <1>5 DEF Sound

\* The next process loads what the last one had.
LEMMA StartSound ==
  ASSUME Typed, Planned, Sound, StartAgain, spoiled' = {}
  PROVE  Sound' /\ Kept!Step
<1>1. /\ UNCHANGED <<buf, wal, segs, snap, child, image, orphan>>
      /\ todo = <<"down">> /\ todo' = <<>> /\ fd' = "open" /\ contents' = Rebuilt
  BY DEF StartAgain, Opened, childVars
<1>2. buf = <<>>
  BY <1>1 DEF Planned, Quiet
<1>3. contents = Rebuilt
  <2>1. Len(buf) = 0 /\ buf \in Seq(Record) /\ Rebuilt \in Map
    BY <1>2, Known
  <2> QED BY <2>1, AppliedNone DEF Sound, LiveKept
<1>4. Rebuilt' = Rebuilt
  BY <1>1 DEF Rebuilt
<1>5. ChildSound' /\ OrphanSound' /\ GcSound'
  BY <1>1 DEF Sound, ChildSound, OrphanSound, GcSound
<1>6. LiveKept' /\ Kept!Step
  BY <1>1, <1>3, <1>4, KeptStutters DEF Sound, LiveKept
<1> QED BY <1>1, <1>5, <1>6 DEF Sound

\* A crash takes what is in the buffer, but for a beginning.
LEMMA CrashSound ==
  ASSUME Typed, Sound, Crash, spoiled' = {}
  PROVE  Sound' /\ Kept!Step
<1>1. /\ buf' = <<>> /\ fd' = "open" /\ todo' = <<>> /\ child' = "none"
      /\ segs' = segs /\ snap' = snap /\ contents' = Rebuilt'
  BY DEF Crash, Opened
<1>2. /\ wal \in File /\ buf \in Seq(Record) /\ Len(buf) \in Nat
      /\ Replayed(snap, segs) \in Map /\ Rebuilt \in Map
  BY Known
<1>3. \E n \in 0..Len(buf) : Rebuilt' = Applied(Rebuilt, SubSeq(buf, 1, n))
  <2>1. Rebuilt' = Applied(Replayed(snap, segs), Readable(wal'))
    BY <1>1 DEF Rebuilt
  <2>2. CASE wal' = wal
    <3>1. /\ 0 \in 0..Len(buf) /\ SubSeq(buf, 1, 0) \in Seq(Record)
          /\ Len(SubSeq(buf, 1, 0)) = 0
      BY <1>2
    <3>2. Applied(Rebuilt, SubSeq(buf, 1, 0)) = Rebuilt
      BY <1>2, <3>1, AppliedNone
    <3>3. Rebuilt' = Rebuilt
      BY <2>1, <2>2 DEF Rebuilt
    <3> QED BY <3>1, <3>2, <3>3
  <2>3. ASSUME NEW n \in 0..Len(buf), wal' = Written(n)
        PROVE  \E p \in 0..Len(buf) : Rebuilt' = Applied(Rebuilt, SubSeq(buf, 1, p))
    BY <1>2, <2>1, <2>3, FlushApplied DEF Rebuilt
  <2> QED BY <2>2, <2>3 DEF Crash
<1>4. Kept!Step
  BY <1>1, <1>3, KeptCrashes
<1>5. LiveKept'
  <2>1. Rebuilt' \in Map
    <3>1. PICK n \in 0..Len(buf) : Rebuilt' = Applied(Rebuilt, SubSeq(buf, 1, n))
      BY <1>3
    <3>2. SubSeq(buf, 1, n) \in Seq(Record)
      BY <1>2
    <3> QED BY <1>2, <3>1, <3>2, AppliedType
  <2>2. Len(buf') = 0 /\ buf' \in Seq(Record)
    BY <1>1
  <2> QED BY <1>1, <2>1, <2>2, AppliedNone DEF LiveKept
<1>6. OrphanSound'
  <2>1. CASE orphan' = orphan
    BY <1>1, <2>1 DEF Sound, OrphanSound
  <2>2. CASE orphan' = {image} /\ child = "running"
    BY <1>1, <2>2 DEF Sound, ChildSound, OrphanSound
  <2> QED BY <2>1, <2>2 DEF Crash
<1>7. ChildSound' /\ GcSound' /\ AtMostOne(segs')
  BY <1>1 DEF Sound, ChildSound, GcSound
<1> QED BY <1>1, <1>4, <1>5, <1>6, <1>7 DEF Sound

-----------------------------------------------------------------------------
(* The files implement the durable map *)

\* What has gone wrong is not forgotten.
LEMMA MishapsStay ==
  ASSUME Typed, [Next]_vars
  PROVE  spoiled \subseteq spoiled'
<1>1. ASSUME NEW k \in Key, NEW v \in Val \cup {None}, Write(k, v) PROVE spoiled \subseteq spoiled'
  <2>1. \/ spoiled' = spoiled
        \/ \E n \in 0..Len(buf) : spoiled' = spoiled \cup FlushMishaps(n)
    <3>1. fd = "open" \/ fd = "closed"
      BY DEF Typed, TypeOK
    <3>2. fd = "open" => fd # "closed"
      OBVIOUS
    <3>3. /\ Len(buf) < BufLimit \/ Len(buf) = BufLimit
          /\ Len(buf) < BufLimit => Len(buf) # BufLimit
      BY Known, LimitAssumption DEF Typed, TypeOK
    <3>4. CASE fd = "closed"
      BY <1>1, <3>4 DEF Write
    <3>5. CASE fd = "open" /\ Len(buf) < BufLimit
      BY <1>1, <3>2, <3>3, <3>5, Zenon DEF Write
    <3>6. CASE fd = "open" /\ Len(buf) = BufLimit
      BY <1>1, <3>2, <3>3, <3>6, Zenon DEF Write
    <3> QED BY <3>1, <3>3, <3>4, <3>5, <3>6
  <2> QED BY <2>1
<1>2. CASE Rolled \/ RollFailed \/ NoLogToRoll
  BY <1>2 DEF Rolled, RollFailed, NoLogToRoll
<1>3. ASSUME NEW m, WriteSnapshot(m) PROVE spoiled \subseteq spoiled'
  BY <1>3 DEF WriteSnapshot
<1>4. CASE Sync \/ Spawn \/ SpawnUnrollable \/ RollNow
  BY <1>2, <1>4 DEF Sync, Spawn, SpawnUnrollable, RollNow
<1>5. CASE ChildWrites \/ SnapshotNow
  BY <1>3, <1>5 DEF ChildWrites, SnapshotNow
<1>6. CASE ChildKilled \/ Reap \/ Gc \/ Stop \/ StartAgain \/ Crash \/ OrphanWrites
  BY <1>6 DEF ChildKilled, Reap, Gc, Stop, StartAgain, Crash, Opened, OrphanWrites
<1>7. CASE UNCHANGED vars
  BY <1>7 DEF vars
<1> QED BY <1>1, <1>4, <1>5, <1>6, <1>7 DEF Next

\* Every step without a mishap keeps the files sound and is one of the durable map.
LEMMA SoundNext ==
  ASSUME IInv, [Next]_vars, spoiled' = {}
  PROVE  Sound' /\ Kept!Step
<1>1. Typed /\ Planned /\ Sound
  BY MishapsStay DEF IInv
<1>2. ASSUME NEW k \in Key, NEW v \in Val \cup {None}, Write(k, v) PROVE Sound' /\ Kept!Step
  BY <1>1, <1>2, WriteSound
<1>3. CASE Sync
  BY <1>1, <1>3, SyncSound
<1>4. CASE Spawn
  BY <1>1, <1>4, SpawnSound
<1>5. CASE SpawnUnrollable
  <2>1. /\ UNCHANGED <<contents, snap, child, image, orphan>>
        /\ RollFailed \/ NoLogToRoll
        /\ child = "none" /\ todo' = <<"snapshot", "gc">>
    BY <1>5 DEF SpawnUnrollable, childVars
  <2>2. Head(todo') # "gc"
    BY <2>1, PlanHeads
  <2> QED BY <1>1, <2>1, <2>2, RollSound
<1>6. CASE RollNow
  <2>1. /\ UNCHANGED <<contents, snap, child, image, orphan>>
        /\ Rolled \/ RollFailed \/ NoLogToRoll
        /\ todo # <<>> /\ Head(todo) = "roll" /\ todo' = Tail(todo)
    BY <1>6 DEF RollNow, childVars
  <2>2. child = "none" /\ todo = <<"roll", "snapshot", "gc", "down">>
    BY <1>1, <2>1, PlanHeads DEF Planned, Quiet
  <2>3. Head(todo') # "gc"
    BY <2>1, <2>2, PlanTails, PlanHeads
  <2> QED BY <1>1, <2>1, <2>2, <2>3, RollSound
<1>7. CASE ChildWrites
  BY <1>1, <1>7, ChildSoundly
<1>8. CASE ChildKilled \/ Reap
  BY <1>1, <1>8, ReapSound
<1>9. CASE Gc
  BY <1>1, <1>9, GcSoundly
<1>10. CASE SnapshotNow
  BY <1>1, <1>10, SnapshotSound
<1>11. CASE Stop
  BY <1>1, <1>11, StopSound
<1>12. CASE StartAgain
  BY <1>1, <1>12, StartSound
<1>13. CASE Crash
  BY <1>1, <1>13, CrashSound
<1>14. CASE OrphanWrites
  BY <1>1, <1>14, OrphanSoundly
<1>15. CASE UNCHANGED vars
  <2>1. Rebuilt' = Rebuilt
    BY <1>15 DEF vars, Rebuilt
  <2>2. Kept!Step
    BY <1>15, <2>1, KeptStutters DEF vars
  <2>3. Sound'
    BY <1>1, <1>15, <2>1 DEF vars, Sound, LiveKept, ChildSound, OrphanSound, GcSound
  <2> QED BY <2>2, <2>3
<1> QED BY <1>2, <1>3, <1>4, <1>5, <1>6, <1>7, <1>8, <1>9, <1>10, <1>11, <1>12, <1>13, <1>14,
           <1>15 DEF Next

\* At first the files are sound, and the durable map is at its beginning.
LEMMA InitSound == Init => IInv /\ Kept!Init
<1> SUFFICES ASSUME Init PROVE IInv /\ Kept!Init
  OBVIOUS
<1>1. Typed /\ Planned
  BY TypedInit DEF Init, Planned, Quiet
<1>2. /\ contents = snap /\ snap = Empty /\ Empty \in Map /\ DOMAIN segs = {}
      /\ wal = <<>> /\ buf = <<>> /\ <<>> \in Seq(Record) /\ Len(<<>>) = 0
  BY DEF Init, Empty, Map
<1>3. Replayed(snap, segs) = snap
  BY <1>2, ReplayedNone
<1>4. \A m \in Map : Applied(m, <<>>) = m
  BY <1>2, AppliedNone
<1>5. Rebuilt = contents
  BY <1>2, <1>3, <1>4, ReadableEmpty DEF Rebuilt
<1>6. LiveKept
  BY <1>2, <1>4, <1>5 DEF LiveKept
<1>7. Sound
  BY <1>2, <1>6 DEF Init, Sound, AtMostOne, ChildSound, OrphanSound, GcSound
<1>8. Kept!Init
  BY <1>2, <1>5 DEF Kept!Init, Empty
<1> QED BY <1>1, <1>7, <1>8 DEF IInv

\* The invariant is inductive.
LEMMA Inductive ==
  ASSUME IInv, [Next]_vars
  PROVE  IInv' /\ (spoiled' = {} => Kept!Step)
BY TypedNext, PlannedNext, SoundNext DEF IInv

\* As long as no mishap has happened, the process, its buffer and its files are a
\* durable map, whatever the order of changes, flushes, rolls, snapshots, unlinks,
\* stops and crashes: a queue begins as an empty one, ...
THEOREM BeginsEmpty == Init => Kept!Init
BY InitSound

\* ... and every step is one the durable map allows.
THEOREM ImplementsMap == Spec => Durable
<1>1. IInv /\ [Next]_vars => IInv' /\ (spoiled' = {} => Kept!Step)
  BY Inductive
<1> QED BY <1>1, InitSound, PTL DEF Spec, Durable

=============================================================================
