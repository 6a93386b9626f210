----------------------------- MODULE ChessProofs -----------------------------
(***************************************************************************)
(* Proofs about ChessGame, for every set of starting positions the          *)
(* sanitizer accepts and whose en passant square a push explains            *)
(* (StartsExplained), and for games of any length, passes included.         *)
(*                                                                         *)
(* The first half is about positions: the geometry of lines and leaps, what *)
(* the masks of the generator are, and that a legal move leads from a sound *)
(* position to a sound one (MoveSound).  The second half is about the key,  *)
(* about taking back and the game, about the generated moves being those of *)
(* the rules, about checks that are foretold, and about repetitions.        *)
(***************************************************************************)
EXTENDS ChessGame, FiniteSetTheorems, SequenceTheorems, WellFoundedInduction, TLAPS

----------------------------------------
(* Coordinates *)

\* A square is its file and rank.
LEMMA Coordinates ==
  ASSUME NEW s \in Square
  PROVE  FileOf(s) \in 0..7 /\ RankOf(s) \in 0..7 /\ s = FileOf(s) + 8 * RankOf(s)
BY DEF Square, FileOf, RankOf

\* A file and a rank are a square.
LEMMA SquareOf ==
  ASSUME NEW f \in 0..7, NEW r \in 0..7
  PROVE  SquareAt(f, r) \in Square /\ FileOf(SquareAt(f, r)) = f /\ RankOf(SquareAt(f, r)) = r
BY DEF Square, FileOf, RankOf, SquareAt

\* Squares of one file and one rank are one.
LEMMA SameSquare ==
  ASSUME NEW s \in Square, NEW t \in Square, FileOf(s) = FileOf(t), RankOf(s) = RankOf(t)
  PROVE  s = t
BY Coordinates

Directions == Orthogonal \cup Diagonal

\* The four steps along ranks and files, one by one.
LEMMA OrthogonalIs == Orthogonal = {<<0, 1>>, <<0, -1>>, <<1, 0>>, <<-1, 0>>}
<1>1. ASSUME NEW a \in -2..2, NEW b \in -2..2
      PROVE  {a, b} \in {{0, 1}, {0, -1}} <=> <<a, b>> \in {<<0, 1>>, <<0, -1>>, <<1, 0>>, <<-1, 0>>}
  <2>1. {a, b} = {0, 1} <=> (a = 0 /\ b = 1) \/ (a = 1 /\ b = 0)
    OBVIOUS
  <2>2. {a, b} = {0, -1} <=> (a = 0 /\ b = -1) \/ (a = -1 /\ b = 0)
    OBVIOUS
  <2> QED BY <2>1, <2>2
<1>2. ASSUME NEW d \in Orthogonal PROVE d \in {<<0, 1>>, <<0, -1>>, <<1, 0>>, <<-1, 0>>}
  BY <1>1 DEF Orthogonal, Step
<1>3. ASSUME NEW d \in {<<0, 1>>, <<0, -1>>, <<1, 0>>, <<-1, 0>>} PROVE d \in Orthogonal
  <2>1. d \in Step /\ d[1] \in -2..2 /\ d[2] \in -2..2
    BY DEF Step
  <2>2. {d[1], d[2]} \in {{0, 1}, {0, -1}}
    BY <1>1, <2>1
  <2> QED BY <2>1, <2>2 DEF Orthogonal
<1> QED BY <1>2, <1>3

\* The eight directions, one by one.
LEMMA DirectionsAre ==
  /\ Orthogonal = {<<0, 1>>, <<0, -1>>, <<1, 0>>, <<-1, 0>>}
  /\ Diagonal = {<<1, 1>>, <<1, -1>>, <<-1, 1>>, <<-1, -1>>}
  /\ Directions = {<<0, 1>>, <<0, -1>>, <<1, 0>>, <<-1, 0>>, <<1, 1>>, <<1, -1>>, <<-1, 1>>, <<-1, -1>>}
<1>1. Diagonal = {<<1, 1>>, <<1, -1>>, <<-1, 1>>, <<-1, -1>>}
  BY DEF Diagonal
<1> QED BY <1>1, OrthogonalIs DEF Directions

\* The i-th square from s in direction d is on the board.
Far(i, a) == CASE a = 0 -> 0 [] a = 1 -> i [] OTHER -> -i
On(s, d, i) == FileOf(s) + Far(i, d[1]) \in 0..7 /\ RankOf(s) + Far(i, d[2]) \in 0..7
Go(s, d, i) == SquareAt(FileOf(s) + Far(i, d[1]), RankOf(s) + Far(i, d[2]))

\* A product with -1, 0 or 1, by cases: the solver knows no other product.
LEMMA FarIs ==
  ASSUME NEW a \in {-1, 0, 1}, NEW i \in Int
  PROVE  i * a = Far(i, a) /\ Far(i, a) \in Int
<1>1. CASE a = 0
  BY <1>1 DEF Far
<1>2. CASE a = 1
  BY <1>2 DEF Far
<1>3. CASE a = -1
  BY <1>3 DEF Far
<1> QED BY <1>1, <1>2, <1>3

\* A direction has steps of at most one, not both none.
LEMMA DirectionParts ==
  ASSUME NEW d \in Directions
  PROVE  d[1] \in {-1, 0, 1} /\ d[2] \in {-1, 0, 1} /\ (d[1] # 0 \/ d[2] # 0)
BY DirectionsAre

\* What is on the board some way off is on it all the way.
LEMMA OnConvex ==
  ASSUME NEW s \in Square, NEW d \in Directions, NEW i \in Nat, NEW j \in 1..i, On(s, d, i)
  PROVE  On(s, d, j)
BY Coordinates, DirectionParts DEF On, Far

\* No line is longer than seven steps.
LEMMA OnEnds ==
  ASSUME NEW s \in Square, NEW d \in Directions
  PROVE  ~On(s, d, 8)
BY Coordinates, DirectionParts DEF On, Far

\* A jump lands on one square of the board or on none.
LEMMA JumpIs ==
  ASSUME NEW s \in Square, NEW d \in Directions, NEW i \in Nat
  PROVE  Jump(s, <<i * d[1], i * d[2]>>) = IF On(s, d, i) THEN {Go(s, d, i)} ELSE {}
<1>1. i * d[1] = Far(i, d[1]) /\ i * d[2] = Far(i, d[2])
  BY DirectionParts, FarIs
<1> QED BY <1>1 DEF Jump, On, Go, File, Rank

\* A ray is its squares in order, as many as are on the board.
LEMMA RayIs ==
  ASSUME NEW s \in Square, NEW d \in Directions
  PROVE  \E n \in 0..7 :
           /\ Ray[s][d] = [i \in 1..n |-> Go(s, d, i)]
           /\ \A i \in 1..7 : i <= n <=> On(s, d, i)
<1> DEFINE At(i) == Jump(s, <<i * d[1], i * d[2]>>)
           Ends(m) == At(m + 1) = {} /\ \A i \in 1..m : At(i) # {}
           n == CHOOSE m \in 0..7 : Ends(m)
<1>5. Ray[s][d] = [i \in 1..n |-> CHOOSE t \in At(i) : TRUE]
  BY DEF Ray, Directions
<1>1. \A i \in 1..8 : At(i) = IF On(s, d, i) THEN {Go(s, d, i)} ELSE {}
  <2> SUFFICES ASSUME NEW i \in 1..8 PROVE At(i) = IF On(s, d, i) THEN {Go(s, d, i)} ELSE {}
    OBVIOUS
  <2>1. i \in Nat
    OBVIOUS
  <2> QED BY <2>1, JumpIs
<1> HIDE DEF At
<1>2. At(8) = {}
  BY <1>1, OnEnds
<1>3. \E k \in 0..7 : Ends(k)
  <2>1. CASE At(1) = {}
    <3>1. Ends(0)
      BY <2>1
    <3> QED BY <3>1
  <2>2. CASE At(1) # {} /\ At(2) = {}
    <3>1. Ends(1)
      BY <2>2
    <3> QED BY <3>1
  <2>3. CASE At(1) # {} /\ At(2) # {} /\ At(3) = {}
    <3>1. Ends(2)
      BY <2>3
    <3> QED BY <3>1
  <2>4. CASE At(1) # {} /\ At(2) # {} /\ At(3) # {} /\ At(4) = {}
    <3>1. Ends(3)
      BY <2>4
    <3> QED BY <3>1
  <2>5. CASE At(1) # {} /\ At(2) # {} /\ At(3) # {} /\ At(4) # {} /\ At(5) = {}
    <3>1. Ends(4)
      BY <2>5
    <3> QED BY <3>1
  <2>6. CASE At(1) # {} /\ At(2) # {} /\ At(3) # {} /\ At(4) # {} /\ At(5) # {} /\ At(6) = {}
    <3>1. Ends(5)
      BY <2>6
    <3> QED BY <3>1
  <2>7. CASE At(1) # {} /\ At(2) # {} /\ At(3) # {} /\ At(4) # {} /\ At(5) # {} /\ At(6) # {} /\ At(7) = {}
    <3>1. Ends(6)
      BY <2>7
    <3> QED BY <3>1
  <2>8. CASE At(1) # {} /\ At(2) # {} /\ At(3) # {} /\ At(4) # {} /\ At(5) # {} /\ At(6) # {} /\ At(7) # {}
    <3>1. Ends(7)
      BY <1>2, <2>8
    <3> QED BY <3>1
  <2> QED BY <2>1, <2>2, <2>3, <2>4, <2>5, <2>6, <2>7, <2>8
<1>4. n \in 0..7 /\ At(n + 1) = {} /\ \A i \in 1..n : At(i) # {}
  <2>1. n \in 0..7 /\ Ends(n)
    <3> HIDE DEF Ends
    <3> QED BY <1>3
  <2> HIDE DEF n
  <2> QED BY <2>1
<1> HIDE DEF n, Ends
<1>6. ASSUME NEW i \in 1..n PROVE (CHOOSE t \in At(i) : TRUE) = Go(s, d, i)
  <2>1. i \in 1..8 /\ At(i) # {}
    BY <1>4
  <2>2. At(i) = {Go(s, d, i)}
    BY <1>1, <2>1
  <2> QED BY <2>2
<1>7. Ray[s][d] = [i \in 1..n |-> Go(s, d, i)]
  BY <1>5, <1>6
<1>8. ASSUME NEW i \in 1..7 PROVE i <= n <=> On(s, d, i)
  <2>1. CASE i <= n
    <3>1. At(i) # {} /\ i \in 1..8
      BY <1>4, <2>1
    <3> QED BY <1>1, <2>1, <3>1
  <2>2. CASE ~(i <= n)
    <3>1. At(n + 1) = {} /\ n + 1 \in 1..8 /\ n + 1 \in 1..i /\ i \in Nat
      BY <1>4, <2>2
    <3>2. ~On(s, d, n + 1)
      BY <1>1, <3>1
    <3>3. ~On(s, d, i)
      BY <3>1, <3>2, OnConvex
    <3> QED BY <2>2, <3>3
  <2> QED BY <2>1, <2>2
<1> QED BY <1>4, <1>7, <1>8

----------------------------------------
(* Lines *)

Diag(s, t) ==
  /\ s # t
  /\ \/ FileOf(t) - FileOf(s) = RankOf(t) - RankOf(s)
     \/ FileOf(t) - FileOf(s) = RankOf(s) - RankOf(t)
Orth(s, t) == s # t /\ (FileOf(s) = FileOf(t) \/ RankOf(s) = RankOf(t))

\* u is strictly between s and t on a line.
Up(x, y, z) == (x < y /\ y < z) \/ (z < y /\ y < x)
Amid(s, u, t) ==
  \/ FileOf(s) = FileOf(t) /\ FileOf(u) = FileOf(s) /\ Up(RankOf(s), RankOf(u), RankOf(t))
  \/ RankOf(s) = RankOf(t) /\ RankOf(u) = RankOf(s) /\ Up(FileOf(s), FileOf(u), FileOf(t))
  \/ /\ FileOf(t) - FileOf(s) = RankOf(t) - RankOf(s)
     /\ FileOf(u) - FileOf(s) = RankOf(u) - RankOf(s)
     /\ Up(FileOf(s), FileOf(u), FileOf(t))
  \/ /\ FileOf(t) - FileOf(s) = RankOf(s) - RankOf(t)
     /\ FileOf(u) - FileOf(s) = RankOf(s) - RankOf(u)
     /\ Up(FileOf(s), FileOf(u), FileOf(t))

\* Nothing of occ is in the way.
Clear(s, t, occ) == \A u \in occ \cap Square : ~Amid(s, u, t)

\* A set of numbers that is not empty has a smallest one.
LEMMA SmallestIn ==
  ASSUME NEW S \in SUBSET Nat, S # {}
  PROVE  Min(S) \in S /\ \A x \in S : Min(S) <= x
<1>1. PICK x \in S : \A y \in S : ~(<<y, x>> \in OpToRel(<, Nat))
  BY WFMin, NatLessThanWellFounded, Zenon
<1>2. \A y \in S : ~(y < x)
  BY <1>1 DEF OpToRel
<1>3. \E z \in S : \A y \in S : z =< y
  BY <1>2
<1> QED BY <1>3, Zenon DEF Min

\* Along a ray a slider sees as far as the first piece.
LEMMA AlongIs ==
  ASSUME NEW n \in Nat, NEW ray, DOMAIN ray = 1..n, Len(ray) = n, NEW occ, NEW t
  PROVE  t \in Along(ray, occ) <=> \E i \in 1..n : t = ray[i] /\ \A j \in 1..(i - 1) : ray[j] \notin occ
<1> DEFINE hits == {i \in DOMAIN ray : ray[i] \in occ}
           last == IF hits = {} THEN Len(ray) ELSE Min(hits)
<1>1. DOMAIN ray = 1..n
  OBVIOUS
<1>2. Along(ray, occ) = {ray[i] : i \in 1..last}
  BY DEF Along
<1>3. CASE hits = {}
  <2>1. last = n /\ \A j \in 1..n : ray[j] \notin occ
    BY <1>1, <1>3
  <2> HIDE DEF last, hits
  <2>2. ASSUME NEW i \in 1..n PROVE \A j \in 1..(i - 1) : ray[j] \notin occ
    BY <2>1
  <2> QED BY <1>2, <2>1, <2>2
<1>4. CASE hits # {}
  <2>1. hits \in SUBSET Nat
    BY <1>1
  <2>2. last \in hits /\ \A x \in hits : last <= x
    <3>1. Min(hits) \in hits /\ \A x \in hits : Min(hits) <= x
      <4> HIDE DEF hits
      <4> QED BY <1>4, <2>1, SmallestIn
    <3> QED BY <1>4, <3>1
  <2>3. last \in 1..n /\ ray[last] \in occ /\ \A j \in 1..n : ray[j] \in occ => last <= j
    BY <1>1, <2>2
  <2> HIDE DEF last, hits
  <2>4. \A i \in 1..n : i <= last <=> \A j \in 1..(i - 1) : ray[j] \notin occ
    <3> SUFFICES ASSUME NEW i \in 1..n PROVE i <= last <=> \A j \in 1..(i - 1) : ray[j] \notin occ
      OBVIOUS
    <3>1. CASE i <= last
      BY <2>3, <3>1
    <3>2. CASE ~(i <= last)
      <4>1. last \in 1..(i - 1)
        BY <2>3, <3>2
      <4> QED BY <2>3, <3>2, <4>1
    <3> QED BY <3>1, <3>2
  <2>5. t \in Along(ray, occ) <=> \E i \in 1..last : t = ray[i]
    BY <1>2
  <2>6. (\E i \in 1..last : t = ray[i]) <=> \E i \in 1..n : t = ray[i] /\ i <= last
    BY <2>3
  <2> QED BY <2>4, <2>5, <2>6
<1> QED BY <1>3, <1>4

\* The squares of a ray, by their coordinates.
LEMMA GoIs ==
  ASSUME NEW s \in Square, NEW d \in Directions, NEW i \in 1..7, On(s, d, i)
  PROVE  /\ Go(s, d, i) \in Square
         /\ FileOf(Go(s, d, i)) = FileOf(s) + Far(i, d[1])
         /\ RankOf(Go(s, d, i)) = RankOf(s) + Far(i, d[2])
<1>1. FileOf(s) + Far(i, d[1]) \in 0..7 /\ RankOf(s) + Far(i, d[2]) \in 0..7
  BY DEF On
<1> QED BY <1>1, SquareOf DEF Go

\* t is the i-th square from s in direction d.
At(s, d, i, t) == FileOf(t) = FileOf(s) + Far(i, d[1]) /\ RankOf(t) = RankOf(s) + Far(i, d[2])

\* Between two squares of a ray are those with the numbers between theirs.
LEMMA AmidRay ==
  ASSUME NEW s \in Square, NEW t \in Square, NEW u \in Square, NEW d \in Directions, NEW i \in 1..7,
         At(s, d, i, t)
  PROVE  Amid(s, u, t) <=> \E j \in 1..(i - 1) : At(s, d, j, u)
<1>1. /\ FileOf(s) \in Int /\ FileOf(t) \in Int /\ FileOf(u) \in Int
      /\ RankOf(s) \in Int /\ RankOf(t) \in Int /\ RankOf(u) \in Int
  BY Coordinates
<1>2. d[1] \in {-1, 0, 1} /\ d[2] \in {-1, 0, 1} /\ (d[1] # 0 \/ d[2] # 0)
  BY DirectionParts
<1>3. ASSUME NEW j \in 1..(i - 1), At(s, d, j, u)
      PROVE  Amid(s, u, t)
  BY <1>1, <1>2, <1>3 DEF At, Amid, Up, Far
<1>4. ASSUME Amid(s, u, t)
      PROVE  \E j \in 1..(i - 1) : At(s, d, j, u)
  <2>1. CASE d[1] = 0 /\ d[2] = 1
    <3>1. RankOf(u) - RankOf(s) \in 1..(i - 1)
      BY <1>1, <1>4, <2>1 DEF At, Amid, Up, Far
    <3>2. At(s, d, RankOf(u) - RankOf(s), u)
      BY <1>1, <1>4, <2>1 DEF At, Amid, Up, Far
    <3> QED BY <3>1, <3>2
  <2>2. CASE d[1] = 0 /\ d[2] = -1
    <3>1. RankOf(s) - RankOf(u) \in 1..(i - 1)
      BY <1>1, <1>4, <2>2 DEF At, Amid, Up, Far
    <3>2. At(s, d, RankOf(s) - RankOf(u), u)
      BY <1>1, <1>4, <2>2 DEF At, Amid, Up, Far
    <3> QED BY <3>1, <3>2
  <2>3. CASE d[1] = 1 /\ d[2] = 0
    <3>1. FileOf(u) - FileOf(s) \in 1..(i - 1)
      BY <1>1, <1>4, <2>3 DEF At, Amid, Up, Far
    <3>2. At(s, d, FileOf(u) - FileOf(s), u)
      BY <1>1, <1>4, <2>3 DEF At, Amid, Up, Far
    <3> QED BY <3>1, <3>2
  <2>4. CASE d[1] = -1 /\ d[2] = 0
    <3>1. FileOf(s) - FileOf(u) \in 1..(i - 1)
      BY <1>1, <1>4, <2>4 DEF At, Amid, Up, Far
    <3>2. At(s, d, FileOf(s) - FileOf(u), u)
      BY <1>1, <1>4, <2>4, <3>1, SMTT(30) DEF At, Amid, Up, Far
    <3> QED BY <3>1, <3>2
  <2>5. CASE d[1] = 1 /\ d[2] = 1
    <3>1. FileOf(u) - FileOf(s) \in 1..(i - 1)
      BY <1>1, <1>4, <2>5 DEF At, Amid, Up, Far
    <3>2. At(s, d, FileOf(u) - FileOf(s), u)
      BY <1>1, <1>4, <2>5 DEF At, Amid, Up, Far
    <3> QED BY <3>1, <3>2
  <2>6. CASE d[1] = -1 /\ d[2] = 1
    <3>1. FileOf(s) - FileOf(u) \in 1..(i - 1)
      BY <1>1, <1>4, <2>6 DEF At, Amid, Up, Far
    <3>2. At(s, d, FileOf(s) - FileOf(u), u)
      BY <1>1, <1>4, <2>6 DEF At, Amid, Up, Far
    <3> QED BY <3>1, <3>2
  <2>7. CASE d[1] = 1 /\ d[2] = -1
    <3>1. FileOf(u) - FileOf(s) \in 1..(i - 1)
      BY <1>1, <1>4, <2>7 DEF At, Amid, Up, Far
    <3>2. At(s, d, FileOf(u) - FileOf(s), u)
      BY <1>1, <1>4, <2>7 DEF At, Amid, Up, Far
    <3> QED BY <3>1, <3>2
  <2>8. CASE d[1] = -1 /\ d[2] = -1
    <3>1. FileOf(s) - FileOf(u) \in 1..(i - 1)
      BY <1>1, <1>4, <2>8 DEF At, Amid, Up, Far
    <3>2. At(s, d, FileOf(s) - FileOf(u), u)
      BY <1>1, <1>4, <2>8, <3>1, SMTT(30) DEF At, Amid, Up, Far
    <3> QED BY <3>1, <3>2
  <2> QED BY <1>2, <2>1, <2>2, <2>3, <2>4, <2>5, <2>6, <2>7, <2>8
<1> QED BY <1>3, <1>4

\* The squares of a ray by number.
LEMMA RayAt ==
  ASSUME NEW s \in Square, NEW d \in Directions
  PROVE  \E n \in 0..7 :
           /\ Ray[s][d] = [i \in 1..n |-> Ray[s][d][i]] /\ Len(Ray[s][d]) = n
           /\ \A i \in 1..n : Ray[s][d][i] \in Square /\ At(s, d, i, Ray[s][d][i])
           /\ \A i \in 1..7, t \in Square : At(s, d, i, t) => i \in 1..n /\ t = Ray[s][d][i]
<1>1. PICK n \in 0..7 : /\ Ray[s][d] = [i \in 1..n |-> Go(s, d, i)]
                        /\ \A i \in 1..7 : i <= n <=> On(s, d, i)
  BY RayIs
<1>2. /\ Ray[s][d] = [i \in 1..n |-> Ray[s][d][i]] /\ Len(Ray[s][d]) = n
      /\ \A i \in 1..n : Ray[s][d][i] = Go(s, d, i)
  BY <1>1
<1>3. ASSUME NEW i \in 1..n PROVE Ray[s][d][i] \in Square /\ At(s, d, i, Ray[s][d][i])
  <2>1. i \in 1..7 /\ On(s, d, i)
    BY <1>1
  <2> QED BY <1>2, <2>1, GoIs DEF At
<1>4. ASSUME NEW i \in 1..7, NEW t \in Square, At(s, d, i, t)
      PROVE  i \in 1..n /\ t = Ray[s][d][i]
  <2>1. On(s, d, i)
    BY <1>4, Coordinates DEF At, On
  <2>2. i \in 1..n
    BY <1>1, <2>1
  <2>3. /\ Ray[s][d][i] \in Square /\ FileOf(t) = FileOf(Ray[s][d][i])
        /\ RankOf(t) = RankOf(Ray[s][d][i])
    BY <1>3, <1>4, <2>2 DEF At
  <2> QED BY <2>2, <2>3, SameSquare
<1> QED BY <1>2, <1>3, <1>4

\* A slider sees along a ray the squares with nothing in between.
LEMMA RaySees ==
  ASSUME NEW s \in Square, NEW d \in Directions, NEW occ, NEW t
  PROVE  t \in Along(Ray[s][d], occ)
         <=> t \in Square /\ (\E i \in 1..7 : At(s, d, i, t)) /\ Clear(s, t, occ)
<1> DEFINE ray == Ray[s][d]
<1>1. PICK n \in 0..7 :
           /\ ray = [i \in 1..n |-> ray[i]] /\ Len(ray) = n
           /\ \A i \in 1..n : ray[i] \in Square /\ At(s, d, i, ray[i])
           /\ \A i \in 1..7, u \in Square : At(s, d, i, u) => i \in 1..n /\ u = ray[i]
  BY RayAt
<1> HIDE DEF ray
<1>2. t \in Along(ray, occ) <=> \E i \in 1..n : t = ray[i] /\ \A j \in 1..(i - 1) : ray[j] \notin occ
  <2>1. n \in Nat /\ DOMAIN ray = 1..n /\ Len(ray) = n
    BY <1>1
  <2> QED BY <2>1, AlongIs
<1>3. ASSUME NEW i \in 1..n, t = ray[i]
      PROVE  (\A j \in 1..(i - 1) : ray[j] \notin occ) <=> Clear(s, t, occ)
  <2>1. i \in 1..7 /\ t \in Square /\ At(s, d, i, t)
    BY <1>1, <1>3
  <2>2. \A u \in Square : Amid(s, u, t) <=> \E j \in 1..(i - 1) : At(s, d, j, u)
    BY <2>1, AmidRay
  <2>3. \A j \in 1..(i - 1) : j \in 1..n /\ j \in 1..7
    BY <2>1
  <2>4. \A j \in 1..(i - 1), u \in Square : At(s, d, j, u) <=> u = ray[j]
    BY <1>1, <2>3
  <2>5. \A j \in 1..(i - 1) : ray[j] \in Square
    BY <1>1, <2>3
  <2> QED BY <2>2, <2>4, <2>5 DEF Clear
<1>4. (\E i \in 1..n : t = ray[i]) <=> t \in Square /\ \E i \in 1..7 : At(s, d, i, t)
  <2>1. \A i \in 1..n : i \in 1..7
    BY <1>1
  <2> QED BY <1>1, <2>1
<1>5. (\E i \in 1..n : t = ray[i] /\ \A j \in 1..(i - 1) : ray[j] \notin occ)
      <=> (\E i \in 1..n : t = ray[i]) /\ Clear(s, t, occ)
  BY <1>3
<1> QED BY <1>2, <1>4, <1>5 DEF ray

\* Squares on one diagonal lie on a ray of each other.
LEMMA DiagonalRay ==
  ASSUME NEW s \in Square, NEW t \in Square
  PROVE  Diag(s, t) <=> \E d \in Diagonal, i \in 1..7 : At(s, d, i, t)
<1>1. /\ FileOf(s) \in 0..7 /\ FileOf(t) \in 0..7 /\ RankOf(s) \in 0..7 /\ RankOf(t) \in 0..7
      /\ (s = t <=> FileOf(s) = FileOf(t) /\ RankOf(s) = RankOf(t))
  BY Coordinates, SameSquare
<1>2. ASSUME NEW d \in Diagonal, NEW i \in 1..7, At(s, d, i, t) PROVE Diag(s, t)
  <2>1. d[1] \in {-1, 1} /\ d[2] \in {-1, 1}
    BY DEF Diagonal
  <2> QED BY <1>1, <1>2, <2>1 DEF At, Diag, Far
<1>3. ASSUME Diag(s, t) PROVE \E d \in Diagonal, i \in 1..7 : At(s, d, i, t)
  <2>0. FileOf(s) # FileOf(t)
    BY <1>1, <1>3 DEF Diag
  <2>1. CASE FileOf(t) > FileOf(s) /\ RankOf(t) - RankOf(s) = FileOf(t) - FileOf(s)
    <3>1. FileOf(t) - FileOf(s) \in 1..7 /\ At(s, <<1, 1>>, FileOf(t) - FileOf(s), t)
      BY <1>1, <2>1 DEF At, Far
    <3> QED BY <3>1, DirectionsAre
  <2>2. CASE FileOf(t) > FileOf(s) /\ RankOf(s) - RankOf(t) = FileOf(t) - FileOf(s)
    <3>1. FileOf(t) - FileOf(s) \in 1..7 /\ At(s, <<1, -1>>, FileOf(t) - FileOf(s), t)
      BY <1>1, <2>2 DEF At, Far
    <3> QED BY <3>1, DirectionsAre
  <2>3. CASE FileOf(s) > FileOf(t) /\ RankOf(t) - RankOf(s) = FileOf(t) - FileOf(s)
    <3>1. FileOf(s) - FileOf(t) \in 1..7 /\ At(s, <<-1, -1>>, FileOf(s) - FileOf(t), t)
      BY <1>1, <2>3 DEF At, Far
    <3> QED BY <3>1, DirectionsAre
  <2>4. CASE FileOf(s) > FileOf(t) /\ RankOf(s) - RankOf(t) = FileOf(t) - FileOf(s)
    <3>1. FileOf(s) - FileOf(t) \in 1..7 /\ At(s, <<-1, 1>>, FileOf(s) - FileOf(t), t)
      BY <1>1, <2>4 DEF At, Far
    <3> QED BY <3>1, DirectionsAre
  <2> QED BY <1>1, <1>3, <2>0, <2>1, <2>2, <2>3, <2>4 DEF Diag
<1> QED BY <1>2, <1>3

\* Squares on one rank or file lie on a ray of each other.
LEMMA OrthogonalRay ==
  ASSUME NEW s \in Square, NEW t \in Square
  PROVE  Orth(s, t) <=> \E d \in Orthogonal, i \in 1..7 : At(s, d, i, t)
<1>1. /\ FileOf(s) \in 0..7 /\ FileOf(t) \in 0..7 /\ RankOf(s) \in 0..7 /\ RankOf(t) \in 0..7
      /\ (s = t <=> FileOf(s) = FileOf(t) /\ RankOf(s) = RankOf(t))
  BY Coordinates, SameSquare
<1>2. ASSUME NEW d \in Orthogonal, NEW i \in 1..7, At(s, d, i, t) PROVE Orth(s, t)
  <2>1. \/ d[1] = 0 /\ d[2] \in {-1, 1}
        \/ d[2] = 0 /\ d[1] \in {-1, 1}
    BY OrthogonalIs
  <2> QED BY <1>1, <1>2, <2>1 DEF At, Orth, Far
<1>3. ASSUME Orth(s, t) PROVE \E d \in Orthogonal, i \in 1..7 : At(s, d, i, t)
  <2>1. CASE FileOf(t) > FileOf(s) /\ RankOf(t) = RankOf(s)
    <3>1. FileOf(t) - FileOf(s) \in 1..7 /\ At(s, <<1, 0>>, FileOf(t) - FileOf(s), t)
      BY <1>1, <2>1 DEF At, Far
    <3> QED BY <3>1, OrthogonalIs
  <2>2. CASE FileOf(s) > FileOf(t) /\ RankOf(t) = RankOf(s)
    <3>1. FileOf(s) - FileOf(t) \in 1..7 /\ At(s, <<-1, 0>>, FileOf(s) - FileOf(t), t)
      BY <1>1, <2>2 DEF At, Far
    <3> QED BY <3>1, OrthogonalIs
  <2>3. CASE FileOf(s) = FileOf(t) /\ RankOf(t) > RankOf(s)
    <3>1. RankOf(t) - RankOf(s) \in 1..7 /\ At(s, <<0, 1>>, RankOf(t) - RankOf(s), t)
      BY <1>1, <2>3 DEF At, Far
    <3> QED BY <3>1, OrthogonalIs
  <2>4. CASE FileOf(s) = FileOf(t) /\ RankOf(s) > RankOf(t)
    <3>1. RankOf(s) - RankOf(t) \in 1..7 /\ At(s, <<0, -1>>, RankOf(s) - RankOf(t), t)
      BY <1>1, <2>4 DEF At, Far
    <3> QED BY <3>1, OrthogonalIs
  <2> QED BY <1>1, <1>3, <2>1, <2>2, <2>3, <2>4 DEF Orth
<1> QED BY <1>2, <1>3

\* What a bishop and a rook see.
LEMMA BishopSees ==
  ASSUME NEW s \in Square, NEW occ, NEW t
  PROVE  t \in BishopAttacks(s, occ) <=> t \in Square /\ Diag(s, t) /\ Clear(s, t, occ)
<1>1. t \in BishopAttacks(s, occ) <=> \E d \in Diagonal : t \in Along(Ray[s][d], occ)
  BY DEF BishopAttacks, SliderAttacks
<1>2. \A d \in Diagonal : t \in Along(Ray[s][d], occ)
        <=> t \in Square /\ (\E i \in 1..7 : At(s, d, i, t)) /\ Clear(s, t, occ)
  BY RaySees DEF Directions
<1> QED BY <1>1, <1>2, DiagonalRay

\* A rook sees the squares of its rank and file with nothing in between.
LEMMA RookSees ==
  ASSUME NEW s \in Square, NEW occ, NEW t
  PROVE  t \in RookAttacks(s, occ) <=> t \in Square /\ Orth(s, t) /\ Clear(s, t, occ)
<1>1. t \in RookAttacks(s, occ) <=> \E d \in Orthogonal : t \in Along(Ray[s][d], occ)
  BY DEF RookAttacks, SliderAttacks
<1>2. \A d \in Orthogonal : t \in Along(Ray[s][d], occ)
        <=> t \in Square /\ (\E i \in 1..7 : At(s, d, i, t)) /\ Clear(s, t, occ)
  BY RaySees DEF Directions
<1> QED BY <1>1, <1>2, OrthogonalRay

Aligned(s, t) == Diag(s, t) \/ Orth(s, t)

\* What it means for the lines between them that u is between s and t.
LEMMA AmidFacts ==
  ASSUME NEW s \in Square, NEW u \in Square, NEW t \in Square, Amid(s, u, t)
  PROVE  /\ s # u /\ u # t /\ s # t /\ Amid(t, u, s) /\ ~Amid(s, t, u) /\ ~Amid(u, s, t)
         /\ Diag(s, t) <=> Diag(s, u) /\ Diag(u, t)
         /\ Orth(s, t) <=> Orth(s, u) /\ Orth(u, t)
         /\ Aligned(s, t)
         /\ Diag(s, t) => ~Orth(s, t) /\ ~Orth(s, u)
         /\ Orth(s, t) => ~Diag(s, t) /\ ~Diag(s, u)
BY Coordinates, SMTT(60) DEF Amid, Up, Diag, Orth, Aligned

\* The squares between two, the second one included, as the source has it.
LEMMA BetweenIs ==
  ASSUME NEW a \in Square, NEW b \in Square, NEW u
  PROVE  u \in Between[a][b] <=> u = b \/ (u \in Square /\ Amid(a, u, b))
<1> DEFINE Lines == {e \in Orthogonal \cup Diagonal : b \in Range(Ray[a][e])}
<1>1. u \in Between[a][b] <=> u = b \/ \E d \in Lines : u \in Along(Ray[a][d], {b})
  BY DEF Between
<1>2. ASSUME NEW d \in Directions
      PROVE  d \in Lines <=> \E i \in 1..7 : At(a, d, i, b)
  <2> DEFINE ray == Ray[a][d]
  <2>1. PICK n \in 0..7 :
           /\ Ray[a][d] = [i \in 1..n |-> Ray[a][d][i]] /\ Len(Ray[a][d]) = n
           /\ \A i \in 1..n : Ray[a][d][i] \in Square /\ At(a, d, i, Ray[a][d][i])
           /\ \A i \in 1..7, t \in Square : At(a, d, i, t) => i \in 1..n /\ t = Ray[a][d][i]
    BY RayAt
  <2>2. b \in Range(Ray[a][d]) <=> \E i \in 1..n : b = Ray[a][d][i]
    BY <2>1 DEF Range
  <2>3. \A i \in 1..n : i \in 1..7
    BY <2>1
  <2> QED BY <2>1, <2>2, <2>3 DEF Directions
<1>3. ASSUME NEW d \in Lines, u \in Along(Ray[a][d], {b})
      PROVE  u = b \/ (u \in Square /\ Amid(a, u, b))
  <2>0. d \in Directions
    BY DEF Directions
  <2>1. PICK i \in 1..7 : At(a, d, i, b)
    BY <1>2, <2>0
  <2>2. u \in Square /\ Clear(a, u, {b}) /\ \E j \in 1..7 : At(a, d, j, u)
    BY <1>3, <2>0, RaySees
  <2>3. PICK j \in 1..7 : At(a, d, j, u)
    BY <2>2
  <2>4. ~Amid(a, b, u)
    BY <2>2 DEF Clear
  <2>5. i \notin 1..(j - 1)
    BY <2>0, <2>1, <2>2, <2>3, <2>4, AmidRay
  <2>6. CASE j = i
    <3>1. u = b
      BY <2>1, <2>2, <2>3, <2>6, SameSquare DEF At
    <3> QED BY <3>1
  <2>7. CASE j \in 1..(i - 1)
    BY <2>0, <2>1, <2>2, <2>3, <2>7, AmidRay
  <2> QED BY <2>5, <2>6, <2>7
<1>4. ASSUME u \in Square, Amid(a, u, b)
      PROVE  \E d \in Lines : u \in Along(Ray[a][d], {b})
  <2>1. Aligned(a, b) /\ ~Amid(a, b, u)
    BY <1>4, AmidFacts
  <2>2. \E d \in Directions, i \in 1..7 : At(a, d, i, b)
    BY <2>1, DiagonalRay, OrthogonalRay DEF Aligned, Directions
  <2>3. PICK d \in Directions, i \in 1..7 : At(a, d, i, b)
    BY <2>2
  <2>4. d \in Lines
    BY <1>2, <2>3
  <2>5. \E j \in 1..(i - 1) : At(a, d, j, u)
    BY <1>4, <2>3, AmidRay
  <2>6. \E j \in 1..7 : At(a, d, j, u)
    BY <2>5
  <2>7. Clear(a, u, {b})
    BY <2>1 DEF Clear
  <2> QED BY <1>4, <2>4, <2>6, <2>7, RaySees
<1> QED BY <1>1, <1>3, <1>4

KnightStep(s, t) ==
  \/ FileOf(t) - FileOf(s) \in {-1, 1} /\ RankOf(t) - RankOf(s) \in {-2, 2}
  \/ FileOf(t) - FileOf(s) \in {-2, 2} /\ RankOf(t) - RankOf(s) \in {-1, 1}
KingStep(s, t) ==
  /\ FileOf(t) - FileOf(s) \in {-1, 0, 1} /\ RankOf(t) - RankOf(s) \in {-1, 0, 1}
  /\ (FileOf(t) # FileOf(s) \/ RankOf(t) # RankOf(s))
Up1(c) == IF c = White THEN 1 ELSE -1
PawnStep(c, s, t) ==
  FileOf(t) - FileOf(s) \in {-1, 1} /\ RankOf(t) - RankOf(s) = Up1(c)

\* A leaper reaches the squares that are one of its steps away.
LEMMA LeapIs ==
  ASSUME NEW s \in Square, NEW steps \in SUBSET (Int \X Int), NEW t
  PROVE  t \in Leaps(s, steps)
         <=> t \in Square /\ <<FileOf(t) - FileOf(s), RankOf(t) - RankOf(s)>> \in steps
<1>1. ASSUME NEW d \in steps
      PROVE  t \in Jump(s, d)
             <=> t \in Square /\ FileOf(t) - FileOf(s) = d[1] /\ RankOf(t) - RankOf(s) = d[2]
  <2>1. d[1] \in Int /\ d[2] \in Int /\ FileOf(s) \in 0..7 /\ RankOf(s) \in 0..7
    BY Coordinates
  <2>2. CASE FileOf(s) + d[1] \in 0..7 /\ RankOf(s) + d[2] \in 0..7
    <3>1. Jump(s, d) = {SquareAt(FileOf(s) + d[1], RankOf(s) + d[2])}
      BY <2>2 DEF Jump, File, Rank
    <3> DEFINE x == SquareAt(FileOf(s) + d[1], RankOf(s) + d[2])
    <3>2. x \in Square /\ FileOf(x) = FileOf(s) + d[1] /\ RankOf(x) = RankOf(s) + d[2]
      BY <2>2, SquareOf
    <3> HIDE DEF x
    <3>3. t \in Square /\ FileOf(t) - FileOf(s) = d[1] /\ RankOf(t) - RankOf(s) = d[2] => t = x
      <4> SUFFICES ASSUME t \in Square, FileOf(t) - FileOf(s) = d[1], RankOf(t) - RankOf(s) = d[2]
                   PROVE  t = x
        OBVIOUS
      <4>1. FileOf(t) = FileOf(x) /\ RankOf(t) = RankOf(x)
        BY <2>1, <3>2, Coordinates
      <4> QED BY <3>2, <4>1, SameSquare
    <3>4. FileOf(x) - FileOf(s) = d[1] /\ RankOf(x) - RankOf(s) = d[2]
      BY <2>1, <3>2
    <3> QED BY <3>1, <3>2, <3>3, <3>4 DEF x
  <2>3. CASE ~(FileOf(s) + d[1] \in 0..7 /\ RankOf(s) + d[2] \in 0..7)
    <3>1. Jump(s, d) = {}
      BY <2>3 DEF Jump, File, Rank
    <3> QED BY <2>1, <2>3, <3>1, Coordinates
  <2> QED BY <2>2, <2>3
<1>2. \A d \in steps : d = <<d[1], d[2]>>
  OBVIOUS
<1>3. t \in Leaps(s, steps) <=> \E d \in steps : t \in Jump(s, d)
  BY DEF Leaps
<1>4. ASSUME NEW x, NEW y, <<x, y>> \in steps PROVE <<x, y>>[1] = x /\ <<x, y>>[2] = y
  OBVIOUS
<1> QED
  <2>1. ASSUME NEW d \in steps, t \in Jump(s, d)
        PROVE  t \in Square /\ <<FileOf(t) - FileOf(s), RankOf(t) - RankOf(s)>> \in steps
    BY <1>1, <1>2, <2>1
  <2>2. ASSUME t \in Square, <<FileOf(t) - FileOf(s), RankOf(t) - RankOf(s)>> \in steps
        PROVE  \E d \in steps : t \in Jump(s, d)
    BY <1>1, <2>2
  <2> QED BY <1>3, <2>1, <2>2

\* The squares a pawn attacks.
LEMMA PawnSees ==
  ASSUME NEW c \in Color, NEW s \in Square, NEW t
  PROVE  t \in PawnAttacks[c][s] <=> t \in Square /\ PawnStep(c, s, t)
<1>1. PawnSteps(c) \in SUBSET (Int \X Int)
  BY DEF PawnSteps, Color, White, Black
<1>2. PawnAttacks[c][s] = Leaps(s, PawnSteps(c))
  BY DEF PawnAttacks
<1>3. \A x, y \in Int : <<x, y>> \in PawnSteps(c) <=> x \in {-1, 1} /\ y = Up1(c)
  BY DEF PawnSteps, Up1
<1>4. t \in Leaps(s, PawnSteps(c))
        <=> t \in Square /\ <<FileOf(t) - FileOf(s), RankOf(t) - RankOf(s)>> \in PawnSteps(c)
  BY <1>1, LeapIs
<1>5. t \in Square => FileOf(t) - FileOf(s) \in Int /\ RankOf(t) - RankOf(s) \in Int
  BY Coordinates
<1> QED BY <1>2, <1>3, <1>4, <1>5 DEF PawnStep

\* The squares a knight attacks.
LEMMA KnightSees ==
  ASSUME NEW s \in Square, NEW t
  PROVE  t \in KnightAttacks[s] <=> t \in Square /\ KnightStep(s, t)
<1> DEFINE steps == {d \in Step : Size(d[1]) + Size(d[2]) = 3}
<1>1. steps \in SUBSET (Int \X Int)
  BY DEF Step
<1>2. KnightAttacks[s] = Leaps(s, steps)
  BY DEF KnightAttacks
<1>3. ASSUME NEW x \in Int, NEW y \in Int
      PROVE  <<x, y>> \in steps <=> (x \in {-1, 1} /\ y \in {-2, 2}) \/ (x \in {-2, 2} /\ y \in {-1, 1})
  BY DEF Step, Size
<1> HIDE DEF steps
<1>4. t \in Leaps(s, steps)
        <=> t \in Square /\ <<FileOf(t) - FileOf(s), RankOf(t) - RankOf(s)>> \in steps
  BY <1>1, LeapIs
<1>5. t \in Square => FileOf(t) - FileOf(s) \in Int /\ RankOf(t) - RankOf(s) \in Int
  BY Coordinates
<1> QED BY <1>2, <1>3, <1>4, <1>5 DEF KnightStep

\* The squares a king attacks.
LEMMA KingSees ==
  ASSUME NEW s \in Square, NEW t
  PROVE  t \in KingAttacks[s] <=> t \in Square /\ KingStep(s, t)
<1>1. Directions \in SUBSET (Int \X Int)
  BY DirectionsAre
<1>2. KingAttacks[s] = Leaps(s, Directions)
  BY DEF KingAttacks, Directions
<1>3. ASSUME NEW x \in Int, NEW y \in Int
      PROVE  <<x, y>> \in Directions <=> x \in {-1, 0, 1} /\ y \in {-1, 0, 1} /\ (x # 0 \/ y # 0)
  BY DirectionsAre
<1>4. t \in Leaps(s, Directions)
        <=> t \in Square /\ <<FileOf(t) - FileOf(s), RankOf(t) - RankOf(s)>> \in Directions
  BY <1>1, LeapIs
<1>5. t \in Square => FileOf(t) - FileOf(s) \in Int /\ RankOf(t) - RankOf(s) \in Int
  BY Coordinates
<1>6. t \in Square => /\ (FileOf(t) - FileOf(s) # 0 <=> FileOf(t) # FileOf(s))
                      /\ (RankOf(t) - RankOf(s) # 0 <=> RankOf(t) # RankOf(s))
  BY Coordinates
<1> QED BY <1>2, <1>3, <1>4, <1>5, <1>6 DEF KingStep

\* There are two colors.
LEMMA OtherColor ==
  ASSUME NEW c \in Color
  PROVE  Other(c) \in Color /\ Other(Other(c)) = c /\ Other(c) # c /\ Color = {c, Other(c)}
BY DEF Color, Other, White, Black

\* Who attacks is attacked, by the same kind of piece: steps go both ways.
LEMMA StepsBack ==
  ASSUME NEW s \in Square, NEW t \in Square
  PROVE  /\ KnightStep(s, t) <=> KnightStep(t, s)
         /\ KingStep(s, t) <=> KingStep(t, s)
         /\ \A c \in Color : PawnStep(Other(c), s, t) <=> PawnStep(c, t, s)
         /\ Diag(s, t) <=> Diag(t, s)
         /\ Orth(s, t) <=> Orth(t, s)
         /\ \A u \in Square : Amid(s, u, t) <=> Amid(t, u, s)
<1>1. FileOf(s) \in 0..7 /\ RankOf(s) \in 0..7 /\ FileOf(t) \in 0..7 /\ RankOf(t) \in 0..7
  BY Coordinates
<1>2. KnightStep(s, t) <=> KnightStep(t, s)
  BY <1>1 DEF KnightStep
<1>3. KingStep(s, t) <=> KingStep(t, s)
  BY <1>1 DEF KingStep
<1>4. ASSUME NEW c \in Color PROVE PawnStep(Other(c), s, t) <=> PawnStep(c, t, s)
  BY <1>1 DEF PawnStep, Up1, Other, Color, White, Black
<1>5. (Diag(s, t) <=> Diag(t, s)) /\ (Orth(s, t) <=> Orth(t, s))
  BY <1>1 DEF Diag, Orth
<1> QED BY <1>2, <1>3, <1>4, <1>5, AmidFacts

\* A line is clear from both ends.
LEMMA ClearBack ==
  ASSUME NEW s \in Square, NEW t \in Square, NEW occ
  PROVE  Clear(s, t, occ) <=> Clear(t, s, occ)
BY StepsBack DEF Clear

----------------------------------------
(* Positions *)

Boards == UNION {[squares -> Piece] : squares \in SUBSET Square}
Position ==
  [board : Boards, stm : Color, ep : Square \cup {NoSq}, frc : BOOLEAN,
   cr : [Right -> File \cup {NoFile}], path : [Right -> SUBSET Square]]

\* a, a piece of color c, hits s.
Hits(p, c, a, s) ==
  \/ a \in Pieces(p, {"p"}, c) /\ PawnStep(c, a, s)
  \/ a \in Pieces(p, {"n"}, c) /\ KnightStep(a, s)
  \/ a \in Pieces(p, {"k"}, c) /\ KingStep(a, s)
  \/ a \in Pieces(p, {"b", "q"}, c) /\ Diag(s, a) /\ Clear(s, a, Occ(p))
  \/ a \in Pieces(p, {"r", "q"}, c) /\ Orth(s, a) /\ Clear(s, a, Occ(p))

\* The attackers of a square are the pieces that hit it.
LEMMA AttackersHit ==
  ASSUME NEW p, Occ(p) \subseteq Square, NEW c \in Color, NEW s \in Square, NEW a
  PROVE  a \in Attackers(p, c, s) <=> Hits(p, c, a, s)
<1>1. \A types : Pieces(p, types, c) \subseteq Square
  BY DEF Pieces
<1>2. a \in Square => (a \in PawnAttacks[Other(c)][s] <=> PawnStep(c, a, s))
  BY PawnSees, OtherColor, StepsBack
<1>3. a \in Square => (a \in KnightAttacks[s] <=> KnightStep(a, s))
  BY KnightSees, StepsBack
<1>4. a \in Square => (a \in KingAttacks[s] <=> KingStep(a, s))
  BY KingSees, StepsBack
<1>5. a \in BishopAttacks(s, Occ(p)) <=> a \in Square /\ Diag(s, a) /\ Clear(s, a, Occ(p))
  BY BishopSees
<1>6. a \in RookAttacks(s, Occ(p)) <=> a \in Square /\ Orth(s, a) /\ Clear(s, a, Occ(p))
  BY RookSees
<1>7. a \in Attackers(p, c, s) <=>
        \/ a \in PawnAttacks[Other(c)][s] /\ a \in Pieces(p, {"p"}, c)
        \/ a \in KnightAttacks[s] /\ a \in Pieces(p, {"n"}, c)
        \/ a \in BishopAttacks(s, Occ(p)) /\ a \in Pieces(p, {"b", "q"}, c)
        \/ a \in RookAttacks(s, Occ(p)) /\ a \in Pieces(p, {"r", "q"}, c)
        \/ a \in KingAttacks[s] /\ a \in Pieces(p, {"k"}, c)
  BY DEF Attackers
<1>8. \A types : a \in Pieces(p, types, c) => a \in Square
  BY <1>1
<1> HIDE DEF Pieces
<1> QED BY <1>2, <1>3, <1>4, <1>5, <1>6, <1>7, <1>8 DEF Hits

\* A square is attacked when a piece hits it.
LEMMA AttackedHit ==
  ASSUME NEW p, Occ(p) \subseteq Square, NEW c \in Color, NEW s \in Square
  PROVE  IsAttacked(p, s, c) <=> \E a \in Square : Hits(p, c, a, s)
<1>1. \A a : a \in Attackers(p, c, s) <=> Hits(p, c, a, s)
  BY AttackersHit
<1>2. \A a : Hits(p, c, a, s) => a \in Square
  BY DEF Hits, Pieces
<1> QED BY <1>1, <1>2 DEF IsAttacked

----------------------------------------
(* Small sets *)

\* The smallest of one.
LEMMA SmallestOne ==
  ASSUME NEW x
  PROVE  Min({x}) = x
BY DEF Min

\* Counting to two, said without cardinalities.
LEMMA CardinalityOne ==
  ASSUME NEW S, IsFiniteSet(S)
  PROVE  /\ Cardinality(S) = 1 <=> \E x : S = {x}
         /\ Cardinality(S) <= 1 <=> \A x, y \in S : x = y
         /\ Cardinality(S) > 1 <=> \E x, y \in S : x # y
         /\ Cardinality(S) = 0 <=> S = {}
<1>0. Cardinality(S) \in Nat /\ (Cardinality(S) = 0 <=> S = {})
  BY FS_CardinalityType, FS_EmptySet
<1>1. (\E x : S = {x}) => Cardinality(S) = 1
  BY FS_Singleton
<1>2. Cardinality(S) = 1 => \E x : S = {x}
  BY FS_Singleton
<1>3. (\A x, y \in S : x = y) <=> S = {} \/ \E x : S = {x}
  OBVIOUS
<1>4. Cardinality(S) <= 1 <=> Cardinality(S) = 0 \/ Cardinality(S) = 1
  BY <1>0
<1> QED BY <1>0, <1>1, <1>2, <1>3, <1>4

\* Sets of squares are finite.
LEMMA SquaresFinite ==
  ASSUME NEW S \in SUBSET Square
  PROVE  IsFiniteSet(S)
<1>1. 0 \in Int /\ 63 \in Int
  OBVIOUS
<1>2. IsFiniteSet(0..63)
  BY <1>1, FS_Interval, Zenon
<1> QED BY <1>2, FS_Subset, Zenon DEF Square

\* A set of squares that is not empty has a largest one.
LEMMA LargestIn ==
  ASSUME NEW S \in SUBSET Square, S # {}
  PROVE  Max(S) \in S /\ \A x \in S : x <= Max(S)
<1> DEFINE T == {63 - x : x \in S}
<1>1. T \in SUBSET Nat /\ T # {}
  <2>1. \A x \in S : 63 - x \in Nat
    BY DEF Square
  <2>2. PICK x \in S : TRUE
    OBVIOUS
  <2>3. 63 - x \in T
    OBVIOUS
  <2> QED BY <2>1, <2>3
<1>2. PICK y \in T : \A z \in T : y <= z
  <2> HIDE DEF T
  <2> QED BY <1>1, SmallestIn
<1>3. PICK x \in S : y = 63 - x
  BY <1>2
<1>4. \A z \in S : z <= x
  BY <1>2, <1>3 DEF Square
<1>5. \E x1 \in S : \A z \in S : x1 >= z
  BY <1>4 DEF Square
<1>6. Max(S) = CHOOSE x1 \in S : \A z \in S : x1 >= z
  BY DEF Max
<1>7. Max(S) \in S /\ \A z \in S : Max(S) >= z
  BY <1>5, <1>6, Zenon
<1> QED BY <1>7 DEF Square

\* The king of the side to move, the checks it is in, the lines its pieces are
\* pinned on, and the squares the other side sees.
OwnKing(p) == KingSq(p, p.stm)
Check(p) == CheckMask(p, p.stm, OwnKing(p))
LinePins(p) == PinHV(p, p.stm)
DiagPins(p) == PinD(p, p.stm)
Seen(p) == SeenSquares(p, Other(p.stm), Square \ Us(p, p.stm))

KingMove(p, m) ==
  \E t \in KingAttacks[OwnKing(p)] :
    m = Normal(OwnKing(p), t) /\ t \in Square \ Us(p, p.stm) /\ t \notin Seen(p)

CastlingMove(p, m) ==
  \E t \in CastleMoves(p, p.stm, Seen(p), LinePins(p)) :
    m = Move(OwnKing(p), t, "castling", "n") /\ Check(p).checks = 0

\* A knight, bishop, rook or queen on s goes to t.
PieceTo(p, s, t) ==
  \/ s \in Pieces(p, {"n"}, p.stm) \ (DiagPins(p) \cup LinePins(p)) /\ t \in KnightAttacks[s]
  \/ s \in Pieces(p, {"b"}, p.stm) \ LinePins(p) /\ t \in BishopMoves(p, s, DiagPins(p))
  \/ s \in Pieces(p, {"r"}, p.stm) \ DiagPins(p) /\ t \in RookMoves(p, s, LinePins(p))
  \/ /\ s \in Pieces(p, {"q"}, p.stm) \ (DiagPins(p) \cap LinePins(p))
     /\ t \in QueenMoves(p, s, DiagPins(p), LinePins(p))

PieceMove(p, m) ==
  \E s, t : m = Normal(s, t) /\ PieceTo(p, s, t) /\ t \in Square \ Us(p, p.stm) /\ t \in Check(p).mask

Forward(c) == IF c = White THEN 8 ELSE -8

PawnTakes(p, s, t) ==
  /\ t \in PawnAttacks[p.stm][s] /\ t \in Us(p, Other(p.stm))
  /\ s \notin LinePins(p) /\ (s \in DiagPins(p) => t \in DiagPins(p))
PawnPush(p, s, t) ==
  /\ t = s + Forward(p.stm) /\ t \notin Occ(p) /\ s \notin DiagPins(p)
  /\ (s \in LinePins(p) => t \in LinePins(p))
PawnPush2(p, s, t) ==
  /\ \E u : PawnPush(p, s, u) /\ RankOf(u) = RelRank(2, p.stm) /\ t = u + Forward(p.stm)
  /\ t \notin Occ(p)
PawnTo(p, s, t) ==
  (PawnTakes(p, s, t) \/ PawnPush(p, s, t) \/ PawnPush2(p, s, t)) /\ t \in Check(p).mask

PawnMove(p, m) ==
  \E s \in Pieces(p, {"p"}, p.stm) : \E t :
    /\ PawnTo(p, s, t)
    /\ m \in IF RankOf(t) = RelRank(7, p.stm) THEN Promotions(s, t) ELSE {Normal(s, t)}

EpPawn(p) == IF p.stm = White THEN p.ep - 8 ELSE p.ep + 8
EpMove(p, m) ==
  \E s \in Pieces(p, {"p"}, p.stm) :
    /\ p.ep # NoSq /\ m = Move(s, p.ep, "enpassant", "n")
    /\ s \in PawnAttacks[Other(p.stm)][p.ep] /\ s \notin LinePins(p)
    /\ (s \in DiagPins(p) => p.ep \in DiagPins(p))
    /\ ~Bared(p, OwnKing(p), EpPawn(p), s)
    /\ Check(p).mask \cap {EpPawn(p), p.ep} # {}

OtherMove(p, m) == PieceMove(p, m) \/ PawnMove(p, m) \/ EpMove(p, m)

\* What a move of the en passant generator is.
LEMMA EpShape ==
  ASSUME NEW p, p.ep \in Int, p.stm \in Color, Pieces(p, {"p"}, p.stm) \in SUBSET Int,
         NEW m \in EPMoves(p, Check(p).mask, DiagPins(p), Pieces(p, {"p"}, p.stm) \ LinePins(p), p.ep, p.stm),
         p.ep # NoSq
  PROVE  EpMove(p, m)
BY DEF EPMoves, EpMove, EpPawn, OwnKing

\* What a move of the pawn generator is.
LEMMA PawnShape ==
  ASSUME NEW p, p.ep \in Int, p.stm \in Color, Pieces(p, {"p"}, p.stm) \in SUBSET Int,
         NEW m \in PawnMoves(p, p.stm, DiagPins(p), LinePins(p), Check(p).mask)
  PROVE  PawnMove(p, m) \/ EpMove(p, m)
<1> DEFINE to(s) == PawnTargets(p, s, p.stm, DiagPins(p), LinePins(p), Check(p).mask)
           moves(s, t) == IF RankOf(t) = RelRank(7, p.stm) THEN Promotions(s, t) ELSE {Normal(s, t)}
<1>1. \/ \E s \in Pieces(p, {"p"}, p.stm) : \E t \in to(s) : m \in moves(s, t)
      \/ /\ p.ep # NoSq
         /\ m \in EPMoves(p, Check(p).mask, DiagPins(p), Pieces(p, {"p"}, p.stm) \ LinePins(p), p.ep, p.stm)
  <2> DEFINE A == UNION {UNION {moves(s, t) : t \in to(s)} : s \in Pieces(p, {"p"}, p.stm)}
             B == EPMoves(p, Check(p).mask, DiagPins(p), Pieces(p, {"p"}, p.stm) \ LinePins(p), p.ep, p.stm)
  <2> HIDE DEF B, to
  <2>1. m \in A \cup IF p.ep = NoSq THEN {} ELSE B
    BY DEF PawnMoves, B, to
  <2>2. CASE m \in A
    BY <2>2
  <2>3. CASE m \notin A
    <3> HIDE DEF A
    <3> QED BY <2>1, <2>3 DEF B
  <2> QED BY <2>2, <2>3
<1>2. CASE \E s \in Pieces(p, {"p"}, p.stm) : \E t \in to(s) : m \in moves(s, t)
  <2>1. PICK s \in Pieces(p, {"p"}, p.stm) : \E t \in to(s) : m \in moves(s, t)
    BY <1>2
  <2>2. PICK t \in to(s) : m \in moves(s, t)
    BY <2>1
  <2>3. PawnTo(p, s, t)
    BY <2>2 DEF PawnTargets, PawnTo, PawnTakes, PawnPush, PawnPush2, Forward
  <2> QED BY <2>2, <2>3 DEF PawnMove
<1>3. CASE /\ p.ep # NoSq
           /\ m \in EPMoves(p, Check(p).mask, DiagPins(p), Pieces(p, {"p"}, p.stm) \ LinePins(p), p.ep, p.stm)
  BY <1>3, EpShape
<1> QED BY <1>1, <1>2, <1>3

\* A generated move is one of the king, a castling or, with no double check, another.
LEMMA LegalShape ==
  ASSUME NEW p, p.ep \in Int, p.stm \in Color, Pieces(p, {"p"}, p.stm) \in SUBSET Int,
         NEW m \in LegalMoves(p)
  PROVE  KingMove(p, m) \/ CastlingMove(p, m) \/ (Check(p).checks # 2 /\ OtherMove(p, m))
<1> DEFINE c == p.stm
           k == OwnKing(p)
           empty == Square \ Us(p, c)
           Q(s) == QueenMoves(p, s, DiagPins(p), LinePins(p))
<1>1. \/ m \in {Normal(k, t) : t \in (KingAttacks[k] \cap empty) \ Seen(p)}
      \/ Check(p).checks = 0 /\ m \in {Move(k, t, "castling", "n") : t \in CastleMoves(p, c, Seen(p), LinePins(p))}
      \/ /\ Check(p).checks # 2
         /\ \/ m \in PawnMoves(p, c, DiagPins(p), LinePins(p), Check(p).mask)
            \/ m \in UNION {{Normal(s, t) : t \in KnightAttacks[s] \cap empty \cap Check(p).mask}
                            : s \in Pieces(p, {"n"}, c) \ (DiagPins(p) \cup LinePins(p))}
            \/ m \in UNION {{Normal(s, t) : t \in BishopMoves(p, s, DiagPins(p)) \cap empty \cap Check(p).mask}
                            : s \in Pieces(p, {"b"}, c) \ LinePins(p)}
            \/ m \in UNION {{Normal(s, t) : t \in RookMoves(p, s, LinePins(p)) \cap empty \cap Check(p).mask}
                            : s \in Pieces(p, {"r"}, c) \ DiagPins(p)}
            \/ m \in UNION {{Normal(s, t) : t \in Q(s) \cap empty \cap Check(p).mask}
                            : s \in Pieces(p, {"q"}, c) \ (DiagPins(p) \cap LinePins(p))}
  BY DEF LegalMoves, MovesWithin, OwnKing, Check, LinePins, DiagPins, Seen
<1> QED BY <1>1, PawnShape DEF KingMove, CastlingMove, OtherMove, PieceMove, PieceTo

\* A piece that alone stands between its king and a slider is in the pin mask, and so is the line.
LEMMA PinLine ==
  ASSUME NEW p, Occ(p) \subseteq Square, NEW c \in Color, NEW k \in Square, NEW types,
         NEW a \in Pieces(p, types, Other(c)), Clear(k, a, Us(p, Other(c))),
         NEW s \in Us(p, c), Amid(k, s, a),
         \A u \in Us(p, c) : Amid(k, u, a) => u = s
  PROVE  /\ Diag(k, a) => Between[k][a] \subseteq PinMask(p, c, k, Diagonal, types)
         /\ Orth(k, a) => Between[k][a] \subseteq PinMask(p, c, k, Orthogonal, types)
         /\ s \in Between[k][a]
<1>1. a \in Square /\ s \in Square /\ a \notin Us(p, c) /\ Us(p, c) \subseteq Square
  BY OtherColor DEF Pieces, Us
<1>2. s \in Between[k][a]
  BY <1>1, BetweenIs
<1>3. Between[k][a] \cap Us(p, c) = {s}
  <2>1. \A u : u \in Between[k][a] <=> u = a \/ (u \in Square /\ Amid(k, u, a))
    BY <1>1, BetweenIs
  <2> QED BY <1>1, <1>2, <2>1
<1>4. Cardinality(Between[k][a] \cap Us(p, c)) = 1
  BY <1>3, FS_Singleton
<1>5. ASSUME NEW dirs, a \in SliderAttacks(k, dirs, Us(p, Other(c)))
      PROVE  Between[k][a] \subseteq PinMask(p, c, k, dirs, types)
  <2> DEFINE snipers == SliderAttacks(k, dirs, Us(p, Other(c))) \cap Pieces(p, types, Other(c))
             lines == {Between[k][x] : x \in snipers}
  <2>1. a \in snipers
    BY <1>5
  <2>2. Between[k][a] \in {line \in lines : Cardinality(line \cap Us(p, c)) = 1}
    <3> HIDE DEF snipers
    <3> QED BY <1>4, <2>1
  <2>3. PinMask(p, c, k, dirs, types) = UNION {line \in lines : Cardinality(line \cap Us(p, c)) = 1}
    BY DEF PinMask
  <2> HIDE DEF lines
  <2> QED BY <2>2, <2>3
<1>6. Diag(k, a) => a \in SliderAttacks(k, Diagonal, Us(p, Other(c)))
  BY <1>1, BishopSees DEF BishopAttacks
<1>7. Orth(k, a) => a \in SliderAttacks(k, Orthogonal, Us(p, Other(c)))
  BY <1>1, RookSees DEF RookAttacks
<1> QED BY <1>2, <1>5, <1>6, <1>7

\* A pin mask lies on the lines of the king.
LEMMA PinInside ==
  ASSUME NEW p, Occ(p) \subseteq Square, NEW c \in Color, NEW k \in Square, NEW types, NEW t
  PROVE  /\ t \in PinMask(p, c, k, Diagonal, types) => t \in Square /\ Diag(k, t)
         /\ t \in PinMask(p, c, k, Orthogonal, types) => t \in Square /\ Orth(k, t)
<1>1. ASSUME NEW dirs, t \in PinMask(p, c, k, dirs, types)
      PROVE  \E b \in Square : b \in SliderAttacks(k, dirs, Us(p, Other(c))) /\ t \in Between[k][b]
  <2> DEFINE snipers == SliderAttacks(k, dirs, Us(p, Other(c))) \cap Pieces(p, types, Other(c))
  <2>1. snipers \subseteq Square
    BY DEF Pieces
  <2>2. \E b \in snipers : t \in Between[k][b]
    <3> HIDE DEF snipers
    <3> QED BY <1>1 DEF PinMask, snipers
  <2> QED BY <2>1, <2>2
<1>2. ASSUME t \in PinMask(p, c, k, Diagonal, types) PROVE t \in Square /\ Diag(k, t)
  <2>1. PICK b \in Square : b \in BishopAttacks(k, Us(p, Other(c))) /\ t \in Between[k][b]
    BY <1>1, <1>2 DEF BishopAttacks
  <2>2. Diag(k, b) /\ (t = b \/ (t \in Square /\ Amid(k, t, b)))
    BY <2>1, BishopSees, BetweenIs
  <2> QED BY <2>2, AmidFacts
<1>3. ASSUME t \in PinMask(p, c, k, Orthogonal, types) PROVE t \in Square /\ Orth(k, t)
  <2>1. PICK b \in Square : b \in RookAttacks(k, Us(p, Other(c))) /\ t \in Between[k][b]
    BY <1>1, <1>3 DEF RookAttacks
  <2>2. Orth(k, b) /\ (t = b \/ (t \in Square /\ Amid(k, t, b)))
    BY <2>1, RookSees, BetweenIs
  <2> QED BY <2>2, AmidFacts
<1> QED BY <1>2, <1>3

\* At most one check from near and one along a diagonal, and with both none along
\* a line.
FewOf(leapers, bishops, rooks) ==
  /\ \A a, b \in leapers : a = b
  /\ \A a, b \in bishops : a = b
  /\ leapers = {} \/ bishops = {} \/ rooks = {}

\* With a single check the mask holds what meets it: the checker and the squares before it.
LEMMA MaskMeets ==
  ASSUME NEW k \in Square,
         NEW knights, NEW pawns, NEW bishops, NEW rooks,
         knights \subseteq Square, pawns \subseteq Square, bishops \subseteq Square, rooks \subseteq Square,
         FewOf(knights \cup pawns, bishops, rooks), knights \cap pawns = {},
         MetBy(k, knights, pawns, bishops, rooks).checks # 2
  PROVE  LET mask == MetBy(k, knights, pawns, bishops, rooks).mask
         IN /\ \A a \in knights \cup pawns : mask = {a}
            /\ \A a \in bishops \cup rooks, u \in Square : u \in mask <=> u = a \/ Amid(k, u, a)
            /\ knights \cup pawns \cup bishops \cup rooks = {} => mask = Square
<1> DEFINE several == Cardinality(rooks) > 1
           checks == IF several THEN 2
                     ELSE One(knights # {}) + One(pawns # {}) + One(bishops # {}) + One(rooks # {})
           lines == (IF several THEN {bishops} ELSE {bishops, rooks}) \ {{}}
           met == knights \cup pawns \cup UNION {Between[k][Min(bb)] : bb \in lines}
           mask == MetBy(k, knights, pawns, bishops, rooks).mask
<1>1. checks # 2
  BY DEF MetBy
<1>2. mask = IF met = {} /\ ~several THEN Square ELSE met
  BY DEF MetBy
<1>3. ~several
  BY <1>1
<1>4. IsFiniteSet(rooks)
  BY SquaresFinite
<1>5. \A a, b \in rooks : a = b
  BY <1>3, <1>4, CardinalityOne
<1>6. One(knights # {}) + One(pawns # {}) + One(bishops # {}) + One(rooks # {}) # 2
  BY <1>1, <1>3
<1>0. /\ \A a, b \in knights \cup pawns : a = b
      /\ \A a, b \in bishops : a = b
      /\ knights \cup pawns = {} \/ bishops = {} \/ rooks = {}
  BY DEF FewOf
<1>7. \/ knights # {} /\ pawns = {} /\ bishops = {} /\ rooks = {}
      \/ knights = {} /\ pawns # {} /\ bishops = {} /\ rooks = {}
      \/ knights = {} /\ pawns = {} /\ bishops # {} /\ rooks = {}
      \/ knights = {} /\ pawns = {} /\ bishops = {} /\ rooks # {}
      \/ knights = {} /\ pawns = {} /\ bishops = {} /\ rooks = {}
  <2>1. knights = {} \/ pawns = {}
    BY <1>0
  <2> QED BY <1>0, <1>6, <2>1 DEF One
<1>8. lines = {bishops, rooks} \ {{}}
  BY <1>3
<1> HIDE DEF several, mask
<1>9. CASE knights # {} /\ pawns = {} /\ bishops = {} /\ rooks = {}
  <2>1. lines = {} /\ met = knights /\ mask = knights
    BY <1>2, <1>8, <1>9
  <2> QED BY <1>0, <1>9, <2>1 DEF mask
<1>10. CASE knights = {} /\ pawns # {} /\ bishops = {} /\ rooks = {}
  <2>1. lines = {} /\ met = pawns /\ mask = pawns
    BY <1>2, <1>8, <1>10
  <2> QED BY <1>0, <1>10, <2>1 DEF mask
<1>11. CASE knights = {} /\ pawns = {} /\ bishops # {} /\ rooks = {}
  <2>1. PICK a : bishops = {a}
    BY <1>0, <1>11
  <2>2. lines = {{a}}
    BY <1>8, <1>11, <2>1
  <2>3. met = Between[k][a]
    <3>1. met = UNION {Between[k][Min(bb)] : bb \in lines}
      BY <1>11
    <3> HIDE DEF lines, met
    <3> QED BY <2>2, <3>1, SmallestOne
  <2>4. a \in Between[k][a]
    BY <2>1, BetweenIs
  <2>5. mask = Between[k][a]
    BY <1>2, <2>3, <2>4
  <2>6. \A u \in Square : u \in mask <=> u = a \/ Amid(k, u, a)
    BY <2>1, <2>5, BetweenIs
  <2> QED BY <1>11, <2>1, <2>6 DEF mask
<1>12. CASE knights = {} /\ pawns = {} /\ bishops = {} /\ rooks # {}
  <2>1. PICK a : rooks = {a}
    BY <1>5, <1>12
  <2>2. lines = {{a}}
    BY <1>8, <1>12, <2>1
  <2>3. met = Between[k][a]
    <3>1. met = UNION {Between[k][Min(bb)] : bb \in lines}
      BY <1>12
    <3> HIDE DEF lines, met
    <3> QED BY <2>2, <3>1, SmallestOne
  <2>4. a \in Between[k][a]
    BY <2>1, BetweenIs
  <2>5. mask = Between[k][a]
    BY <1>2, <2>3, <2>4
  <2>6. \A u \in Square : u \in mask <=> u = a \/ Amid(k, u, a)
    BY <2>1, <2>5, BetweenIs
  <2> QED BY <1>12, <2>1, <2>6 DEF mask
<1>13. CASE knights = {} /\ pawns = {} /\ bishops = {} /\ rooks = {}
  <2>1. lines = {} /\ met = {} /\ mask = Square
    BY <1>2, <1>3, <1>8, <1>13
  <2> QED BY <1>13, <2>1 DEF mask
<1> QED BY <1>7, <1>9, <1>10, <1>11, <1>12, <1>13

OneKing(p) == \A c \in Color : Pieces(p, {"k"}, c) = {KingSq(p, c)}
PawnsInside(p) == \A s \in Occ(p) : TypeOf(p.board[s]) = "p" => RankOf(s) \notin {0, 7}

\* The side to move does not attack the other king.
Calm(p) == \A a \in Square : ~Hits(p, p.stm, a, KingSq(p, Other(p.stm)))

\* The checks a legal move can bring about: one from near, one along a diagonal,
\* and not both with one along a line.
ByLeap(p) == ByPawn(p, p.stm) \cup ByKnight(p, p.stm)
ByDiagonal(p) == OnDiagonals(p, p.stm)
ByLine(p) == OnLines(p, p.stm)
FewChecks(p) == FewOf(ByLeap(p), ByDiagonal(p), ByLine(p))

\* The pawn that was pushed hides no slider on a diagonal of the king.
EpQuiet(p) ==
  \A a \in Pieces(p, {"b", "q"}, Other(p.stm)) :
    Diag(OwnKing(p), a) /\ Clear(OwnKing(p), a, Occ(p) \ {EpSquare(p.ep)})
    => Clear(OwnKing(p), a, Occ(p))
EpHeld(p) ==
  p.ep # NoSq =>
    /\ RankOf(p.ep) = RelRank(5, p.stm) /\ p.ep \notin Occ(p)
    /\ EpSquare(p.ep) \in Pieces(p, {"p"}, Other(p.stm))
    /\ EpQuiet(p)

\* The king and the rook of a right stand where the right has them.
RightHeld(p, right) ==
  LET king == KingSq(p, right[1])
      rook == SquareAt(p.cr[right], RankOf(king))
  IN /\ BackRank(king, right[1])
     /\ rook \in Pieces(p, {"r"}, right[1])
     /\ (rook > king) <=> (right[2] = "king")
     /\ p.path[right] = PathOf(p, right)
     /\ ~p.frc => FileOf(king) = 4 /\ p.cr[right] = Corner(right[2])
RightsHeld(p) ==
  \A right \in Right : p.cr[right] # NoFile => RightHeld(p, right)

Sound(p) ==
  /\ p \in Position /\ OneKing(p) /\ PawnsInside(p) /\ Calm(p)
  /\ FewChecks(p) /\ EpHeld(p) /\ RightsHeld(p)

\* The sets of squares that a position is taken apart into.
LEMMA PositionTypes ==
  ASSUME NEW p \in Position
  PROVE  /\ Occ(p) \in SUBSET Square /\ p.board \in [Occ(p) -> Piece]
         /\ p.stm \in Color /\ Other(p.stm) \in Color /\ p.ep \in Int /\ p.ep \in Square \cup {NoSq}
         /\ \A types, c : Pieces(p, types, c) \in SUBSET Square /\ Pieces(p, types, c) \in SUBSET Us(p, c)
         /\ \A c : Us(p, c) \in SUBSET Square /\ Us(p, c) \in SUBSET Occ(p)
         /\ Occ(p) = Us(p, p.stm) \cup Us(p, Other(p.stm))
         /\ Us(p, p.stm) \cap Us(p, Other(p.stm)) = {}
<1>1. PICK squares \in SUBSET Square : p.board \in [squares -> Piece]
  BY DEF Position, Boards
<1>2. Occ(p) = squares
  BY <1>1 DEF Occ
<1>3. p.stm \in Color /\ p.ep \in Square \cup {NoSq}
  BY DEF Position
<1>4. \A s \in Occ(p) : ColorOf(p.board[s]) \in Color
  BY <1>1, <1>2 DEF Piece, ColorOf
<1>5. \A types, c : Pieces(p, types, c) \in SUBSET Occ(p) /\ Pieces(p, types, c) \in SUBSET Us(p, c)
  BY DEF Pieces, Us
<1>6. \A c : Us(p, c) \in SUBSET Occ(p)
  BY DEF Us
<1>7. Occ(p) = Us(p, p.stm) \cup Us(p, Other(p.stm)) /\ Us(p, p.stm) \cap Us(p, Other(p.stm)) = {}
  BY <1>3, <1>4, OtherColor DEF Us
<1> HIDE DEF Pieces, Us
<1> QED BY <1>1, <1>2, <1>3, <1>5, <1>6, <1>7, OtherColor DEF Square, NoSq

\* Each king stands where KingSq says, and nothing else does.
LEMMA KingStands ==
  ASSUME NEW p \in Position, OneKing(p), NEW c \in Color
  PROVE  /\ KingSq(p, c) \in Square /\ KingSq(p, c) \in Occ(p) /\ KingSq(p, c) \in Us(p, c)
         /\ p.board[KingSq(p, c)] = <<c, "k">>
         /\ \A types : "k" \notin types => KingSq(p, c) \notin Pieces(p, types, c)
         /\ \A s \in Occ(p) : p.board[s] = <<c, "k">> => s = KingSq(p, c)
<1> DEFINE k == KingSq(p, c)
<1>1. k \in Pieces(p, {"k"}, c) /\ Pieces(p, {"k"}, c) = {k}
  BY DEF OneKing
<1> HIDE DEF k
<1>2. k \in Occ(p) /\ ColorOf(p.board[k]) = c /\ TypeOf(p.board[k]) = "k"
  BY <1>1 DEF Pieces
<1>3. p.board[k] \in Piece
  BY <1>2, PositionTypes
<1>4. p.board[k] = <<c, "k">>
  BY <1>2, <1>3 DEF Piece, ColorOf, TypeOf
<1>5. ASSUME NEW s \in Occ(p), p.board[s] = <<c, "k">> PROVE s = k
  BY <1>1, <1>5 DEF Pieces, ColorOf, TypeOf
<1> QED BY <1>1, <1>2, <1>4, <1>5, PositionTypes DEF k, Pieces, Us

\* The checkers of each kind.
LEMMA ChecksAre ==
  ASSUME NEW p \in Position, OneKing(p), NEW a
  PROVE  LET k == OwnKing(p)
             e == Other(p.stm)
         IN /\ a \in ByPawn(p, p.stm) <=> a \in Pieces(p, {"p"}, e) /\ PawnStep(e, a, k)
            /\ a \in ByKnight(p, p.stm) <=> a \in Pieces(p, {"n"}, e) /\ KnightStep(a, k)
            /\ a \in ByDiagonal(p) <=> a \in Pieces(p, {"b", "q"}, e) /\ Diag(k, a) /\ Clear(k, a, Occ(p))
            /\ a \in ByLine(p) <=> a \in Pieces(p, {"r", "q"}, e) /\ Orth(k, a) /\ Clear(k, a, Occ(p))
            /\ a \in ByLeap(p) <=> a \in ByPawn(p, p.stm) \/ a \in ByKnight(p, p.stm)
<1> DEFINE k == OwnKing(p)
           e == Other(p.stm)
<1>1. k \in Square /\ p.stm \in Color /\ e \in Color /\ Other(e) = p.stm
  BY PositionTypes, KingStands, OtherColor DEF OwnKing
<1>2. \A types : Pieces(p, types, e) \subseteq Square
  BY PositionTypes
<1> HIDE DEF k
<1>3. a \in Square => (a \in PawnAttacks[p.stm][k] <=> PawnStep(e, a, k))
  BY <1>1, PawnSees, StepsBack
<1>4. a \in Square => (a \in KnightAttacks[k] <=> KnightStep(a, k))
  BY <1>1, KnightSees, StepsBack
<1>5. a \in BishopAttacks(k, Occ(p)) <=> a \in Square /\ Diag(k, a) /\ Clear(k, a, Occ(p))
  BY <1>1, BishopSees
<1>6. a \in RookAttacks(k, Occ(p)) <=> a \in Square /\ Orth(k, a) /\ Clear(k, a, Occ(p))
  BY <1>1, RookSees
<1>7. /\ ByPawn(p, p.stm) = PawnAttacks[p.stm][k] \cap Pieces(p, {"p"}, e)
      /\ ByKnight(p, p.stm) = KnightAttacks[k] \cap Pieces(p, {"n"}, e)
      /\ ByDiagonal(p) = BishopAttacks(k, Occ(p)) \cap Pieces(p, {"b", "q"}, e)
      /\ ByLine(p) = RookAttacks(k, Occ(p)) \cap Pieces(p, {"r", "q"}, e)
  BY DEF ByPawn, ByKnight, ByDiagonal, ByLine, OnDiagonals, OnLines, k, OwnKing
<1> QED BY <1>2, <1>3, <1>4, <1>5, <1>6, <1>7 DEF ByLeap, k

\* The check mask of a position with at most one checker of each kind.
LEMMA MaskIs ==
  ASSUME NEW p \in Position, OneKing(p), FewChecks(p), Check(p).checks # 2
  PROVE  /\ \A a \in ByLeap(p) : Check(p).mask = {a}
         /\ \A a \in ByDiagonal(p) \cup ByLine(p), u \in Square :
              u \in Check(p).mask <=> u = a \/ Amid(OwnKing(p), u, a)
<1> DEFINE k == OwnKing(p)
           knights == ByKnight(p, p.stm)
           pawns == ByPawn(p, p.stm)
<1>1. Check(p) = MetBy(k, knights, pawns, ByDiagonal(p), ByLine(p))
  BY DEF Check, CheckMask, OwnKing, ByKnight, ByPawn, ByDiagonal, ByLine, OnDiagonals, OnLines
<1>2. k \in Square
  BY PositionTypes, KingStands DEF OwnKing
<1>3. /\ knights \in SUBSET Square /\ pawns \in SUBSET Square
      /\ ByDiagonal(p) \in SUBSET Square /\ ByLine(p) \in SUBSET Square
  <2>1. \A types, c : Pieces(p, types, c) \subseteq Square
    BY PositionTypes
  <2> QED BY <2>1 DEF ByKnight, ByPawn, ByDiagonal, ByLine, OnDiagonals, OnLines
<1>4. knights \cap pawns = {}
  BY DEF ByKnight, ByPawn, Pieces
<1>5. ByLeap(p) = knights \cup pawns
  BY DEF ByLeap
<1> DEFINE D == ByDiagonal(p)
           L == ByLine(p)
<1>6. FewOf(knights \cup pawns, D, L)
  BY <1>5 DEF FewChecks
<1>9. knights \subseteq Square /\ pawns \subseteq Square /\ D \subseteq Square /\ L \subseteq Square
  BY <1>3
<1> HIDE DEF k, knights, pawns, D, L
<1>7. MetBy(k, knights, pawns, D, L).checks # 2
  BY <1>1 DEF D, L
<1> DEFINE mask == MetBy(k, knights, pawns, D, L).mask
<1>8. \A a \in knights \cup pawns : mask = {a}
  BY <1>2, <1>4, <1>6, <1>7, <1>9, MaskMeets
<1>10. \A a \in D \cup L, u \in Square : u \in mask <=> u = a \/ Amid(k, u, a)
  BY <1>2, <1>4, <1>6, <1>7, <1>9, MaskMeets
<1>11. Check(p).mask = mask
  BY <1>1 DEF D, L
<1> HIDE DEF mask
<1> QED BY <1>5, <1>8, <1>10, <1>11 DEF k, D, L

----------------------------------------
(* The board after a move *)

Plain == {"normal", "promotion", "enpassant"}
Gone(m) == IF m.kind = "enpassant" THEN {m.from, EpSquare(m.to)} ELSE {m.from}
Became(p, m) == IF m.kind = "promotion" THEN <<p.stm, m.promo>> ELSE p.board[m.from]

\* What a move other than castling may be.
Ordinary(p, m) ==
  /\ m.kind \in Plain /\ m.from \in Us(p, p.stm) /\ m.to \in Square /\ m.to \notin Us(p, p.stm)
  /\ m.promo \in {"q", "r", "b", "n"}
  /\ m.kind = "promotion" => TypeOf(p.board[m.from]) = "p"
  /\ m.kind = "enpassant" => m.to \notin Occ(p) /\ TypeOf(p.board[m.from]) = "p"
                             /\ EpSquare(m.to) \in Us(p, Other(p.stm))

\* Replacing fields of a position leaves the others.
LEMMA Refielded ==
  ASSUME NEW p \in Position, NEW b, NEW s, NEW e, NEW r
  PROVE  LET q == [p EXCEPT !.board = b, !.stm = s, !.ep = e, !.cr = r]
         IN /\ q.board = b /\ q.stm = s /\ q.ep = e /\ q.cr = r /\ q.frc = p.frc /\ q.path = p.path
            /\ q \in [board : {q.board}, stm : {q.stm}, ep : {q.ep}, frc : {q.frc}, cr : {q.cr}, path : {q.path}]
BY DEF Position

\* The position after a move that is no castling, field by field.
LEMMA MadeBoard ==
  ASSUME NEW p \in Position, NEW m, Ordinary(p, m)
  PROVE  LET q == MakeMove(p, m)
         IN /\ q.board \in Boards /\ q.stm = Other(p.stm)
            /\ Occ(q) = (Occ(p) \ Gone(m)) \cup {m.to}
            /\ q.board[m.to] = Became(p, m)
            /\ \A u \in Occ(p) : u \notin Gone(m) /\ u # m.to => q.board[u] = p.board[u]
            /\ q.ep = EpAfter(p, m) /\ q.frc = p.frc /\ q.path = p.path
            /\ q.cr = [right \in Right |-> IF right \in RightsLost(p, m) THEN NoFile ELSE p.cr[right]]
            /\ q \in [board : {q.board}, stm : {q.stm}, ep : {q.ep}, frc : {q.frc}, cr : {q.cr}, path : {q.path}]
<1> DEFINE q == MakeMove(p, m)
           new == Moved(p, m)
           squares == Occ(p) \ Left(p, m)
<1>1. /\ q.board = Placed(new, p.board, squares) /\ q.stm = Other(p.stm)
      /\ q.ep = EpAfter(p, m) /\ q.frc = p.frc /\ q.path = p.path
      /\ q.cr = [right \in Right |-> IF right \in RightsLost(p, m) THEN NoFile ELSE p.cr[right]]
      /\ q \in [board : {q.board}, stm : {q.stm}, ep : {q.ep}, frc : {q.frc}, cr : {q.cr}, path : {q.path}]
  <2> DEFINE r == [right \in Right |-> IF right \in RightsLost(p, m) THEN NoFile ELSE p.cr[right]]
             b == Placed(new, p.board, squares)
  <2>1. q = [p EXCEPT !.board = b, !.stm = Other(p.stm), !.ep = EpAfter(p, m), !.cr = r]
    BY DEF MakeMove
  <2> HIDE DEF q, b, r
  <2>2. q.board = b /\ q.stm = Other(p.stm) /\ q.ep = EpAfter(p, m) /\ q.cr = r /\ q.frc = p.frc /\ q.path = p.path
    BY <2>1, Refielded
  <2>3. q \in [board : {q.board}, stm : {q.stm}, ep : {q.ep}, frc : {q.frc}, cr : {q.cr}, path : {q.path}]
    BY <2>1, Refielded
  <2> QED BY <2>2, <2>3 DEF b, r
<1>2. m.kind \in Plain /\ m.from \in Us(p, p.stm) /\ m.to \in Square /\ m.to \notin Us(p, p.stm)
  BY DEF Ordinary
<1>3. new = [s \in {m.to} |-> Became(p, m)]
  BY <1>2 DEF Moved, Became, Plain
<1>4. m.from \in Occ(p) /\ Occ(p) \in SUBSET Square /\ p.board \in [Occ(p) -> Piece]
  BY <1>2, PositionTypes
<1>5. {m.to} \cup squares = (Occ(p) \ Gone(m)) \cup {m.to}
  BY <1>2, <1>4 DEF Left, Gone
<1>6. Became(p, m) \in Piece
  BY <1>4, PositionTypes DEF Became, Ordinary, Piece, Type
<1>7. q.board = [s \in {m.to} \cup squares |-> IF s \in {m.to} THEN Became(p, m) ELSE p.board[s]]
  <2> HIDE DEF q, squares
  <2> QED BY <1>1, <1>3 DEF Placed
<1>8. Occ(q) = (Occ(p) \ Gone(m)) \cup {m.to}
  BY <1>5, <1>7 DEF Occ
<1>9. q.board \in [Occ(q) -> Piece] /\ Occ(q) \in SUBSET Square
  <2>1. \A s \in squares : p.board[s] \in Piece
    BY <1>4
  <2>2. q.board \in [{m.to} \cup squares -> Piece]
    <3> HIDE DEF q, squares
    <3> QED BY <1>6, <1>7, <2>1
  <2> HIDE DEF q, squares
  <2> QED BY <1>2, <1>4, <1>5, <1>8, <2>2
<1>10. q.board \in Boards
  BY <1>9 DEF Boards
<1>11. q.board[m.to] = Became(p, m)
  <2> HIDE DEF q, squares
  <2> QED BY <1>7
<1>12. ASSUME NEW u \in Occ(p), u \notin Gone(m), u # m.to PROVE q.board[u] = p.board[u]
  <2>1. u \in squares
    BY <1>5, <1>12
  <2> HIDE DEF q, squares
  <2> QED BY <1>7, <1>12, <2>1
<1> HIDE DEF q
<1> QED BY <1>1, <1>8, <1>10, <1>11, <1>12 DEF q

\* The pieces of each kind after a move that is no castling.
LEMMA MadePieces ==
  ASSUME NEW p \in Position, NEW m, Ordinary(p, m), NEW types
  PROVE  LET q == MakeMove(p, m)
         IN /\ Pieces(q, types, Other(p.stm)) = Pieces(p, types, Other(p.stm)) \ (Gone(m) \cup {m.to})
            /\ Pieces(q, types, p.stm) = (Pieces(p, types, p.stm) \ {m.from})
                                         \cup {t \in {m.to} : TypeOf(Became(p, m)) \in types}
<1> DEFINE q == MakeMove(p, m)
           c == p.stm
           e == Other(p.stm)
<1>1. /\ Occ(q) = (Occ(p) \ Gone(m)) \cup {m.to}
      /\ q.board[m.to] = Became(p, m)
      /\ \A u \in Occ(p) : u \notin Gone(m) /\ u # m.to => q.board[u] = p.board[u]
  BY MadeBoard
<1>2. m.from \in Us(p, c) /\ m.to \notin Us(p, c) /\ c # e /\ c \in Color
  BY PositionTypes, OtherColor DEF Ordinary
<1>3. Gone(m) \ {m.from} \subseteq Us(p, e) /\ m.from \in Gone(m)
  BY DEF Gone, Ordinary
<1>4. ColorOf(Became(p, m)) = c
  BY <1>2 DEF Became, Us, ColorOf
<1> HIDE DEF q, e
<1>5. \A s : s \in Pieces(q, types, e) <=> s \in Pieces(p, types, e) /\ s \notin Gone(m) /\ s # m.to
  BY <1>1, <1>2, <1>4 DEF Pieces
<1>6. \A s : s \in Pieces(q, types, c) <=>
        \/ s = m.to /\ TypeOf(Became(p, m)) \in types
        \/ s \in Pieces(p, types, c) /\ s # m.from
  BY <1>1, <1>2, <1>3, <1>4 DEF Pieces, Us
<1>7. Pieces(q, types, e) = Pieces(p, types, e) \ (Gone(m) \cup {m.to})
  BY <1>5
<1>8. Pieces(q, types, c) = (Pieces(p, types, c) \ {m.from}) \cup {t \in {m.to} : TypeOf(Became(p, m)) \in types}
  BY <1>6
<1> QED BY <1>7, <1>8 DEF q, e

\* How a push changes coordinates.
LEMMA PushIs ==
  ASSUME NEW c \in Color, NEW s \in Square, RankOf(s) \notin {0, 7}
  PROVE  /\ s + Forward(c) \in Square /\ FileOf(s + Forward(c)) = FileOf(s)
         /\ RankOf(s + Forward(c)) = RankOf(s) + Up1(c)
BY DEF Square, FileOf, RankOf, Forward, Up1, Color, White, Black

\* The square behind a pawn that was pushed, and the pawn before that square.
LEMMA EpSquareIs ==
  ASSUME NEW s \in Square, RankOf(s) \in 2..5
  PROVE  /\ EpSquare(s) \in Square /\ FileOf(EpSquare(s)) = FileOf(s)
         /\ RankOf(EpSquare(s)) = IF RankOf(s) % 2 = 0 THEN RankOf(s) + 1 ELSE RankOf(s) - 1
         /\ EpSquare(EpSquare(s)) = s
BY DEF Square, FileOf, RankOf, EpSquare

\* What a sound position says of its en passant square.
LEMMA EpFacts ==
  ASSUME NEW p, Sound(p), p.ep # NoSq
  PROVE  /\ p.ep \in Square /\ p.ep \notin Occ(p) /\ RankOf(p.ep) = RelRank(5, p.stm)
         /\ EpPawn(p) = EpSquare(p.ep) /\ EpPawn(p) \in Pieces(p, {"p"}, Other(p.stm))
         /\ EpPawn(p) \in Square /\ FileOf(EpPawn(p)) = FileOf(p.ep)
         /\ RankOf(EpPawn(p)) = RankOf(p.ep) - Up1(p.stm)
         /\ EpQuiet(p)
<1>1. p \in Position /\ EpHeld(p)
  BY DEF Sound
<1>2. p.ep \in Square /\ p.stm \in Color
  BY <1>1, PositionTypes
<1>3. /\ RankOf(p.ep) = RelRank(5, p.stm) /\ p.ep \notin Occ(p)
      /\ EpSquare(p.ep) \in Pieces(p, {"p"}, Other(p.stm)) /\ EpQuiet(p)
  BY <1>1 DEF EpHeld
<1>4. (p.stm = White /\ RankOf(p.ep) = 5) \/ (p.stm = Black /\ RankOf(p.ep) = 2)
  BY <1>2, <1>3 DEF RelRank, Color, White, Black
<1>5. EpPawn(p) = EpSquare(p.ep)
  BY <1>4 DEF EpPawn, EpSquare, White, Black
<1>6. /\ EpSquare(p.ep) \in Square /\ FileOf(EpSquare(p.ep)) = FileOf(p.ep)
      /\ RankOf(EpSquare(p.ep)) = RankOf(p.ep) - Up1(p.stm)
  <2>1. RankOf(p.ep) \in 2..5
    BY <1>4
  <2> QED BY <1>2, <1>4, <2>1, EpSquareIs DEF Up1, White, Black
<1> QED BY <1>2, <1>3, <1>5, <1>6

----------------------------------------
(* Where a piece other than the king goes *)

PieceMoves(p, m) ==
  /\ m.kind = "normal" /\ PieceTo(p, m.from, m.to) /\ m.promo = "n"
  /\ m.to \in Square /\ m.to \notin Us(p, p.stm) /\ m.to \in Check(p).mask
PawnMoves1(p, m) ==
  /\ m.from \in Pieces(p, {"p"}, p.stm) /\ PawnTo(p, m.from, m.to)
  /\ m.kind = IF RankOf(m.to) = RelRank(7, p.stm) THEN "promotion" ELSE "normal"
  /\ m.promo \in {"q", "r", "b", "n"}
EpMoves1(p, m) ==
  /\ m.kind = "enpassant" /\ p.ep # NoSq /\ m.to = p.ep /\ m.promo = "n"
  /\ m.from \in Pieces(p, {"p"}, p.stm) /\ PawnStep(p.stm, m.from, p.ep)
  /\ m.from \notin LinePins(p) /\ (m.from \in DiagPins(p) => p.ep \in DiagPins(p))
  /\ ~Bared(p, OwnKing(p), EpPawn(p), m.from)
  /\ Check(p).mask \cap {EpPawn(p), p.ep} # {}

\* A move neither of the king nor a castling is one of a piece, of a pawn or en passant.
LEMMA OtherIs ==
  ASSUME NEW p, Sound(p), NEW m, OtherMove(p, m)
  PROVE  PieceMoves(p, m) \/ PawnMoves1(p, m) \/ EpMoves1(p, m)
<1>1. CASE PieceMove(p, m)
  BY <1>1 DEF PieceMove, PieceMoves, Normal, Move
<1>2. CASE PawnMove(p, m)
  <2>0. PICK s \in Pieces(p, {"p"}, p.stm) : \E t :
          /\ PawnTo(p, s, t)
          /\ m \in IF RankOf(t) = RelRank(7, p.stm) THEN Promotions(s, t) ELSE {Normal(s, t)}
    BY <1>2 DEF PawnMove
  <2>1. PICK t :
          /\ PawnTo(p, s, t)
          /\ m \in IF RankOf(t) = RelRank(7, p.stm) THEN Promotions(s, t) ELSE {Normal(s, t)}
    BY <2>0
  <2>2. m.from = s /\ m.to = t /\ m.promo \in {"q", "r", "b", "n"}
        /\ m.kind = IF RankOf(t) = RelRank(7, p.stm) THEN "promotion" ELSE "normal"
    BY <2>1 DEF Promotions, Normal, Move
  <2> QED BY <2>1, <2>2 DEF PawnMoves1
<1>3. CASE EpMove(p, m)
  <2>1. PICK s \in Pieces(p, {"p"}, p.stm) :
          /\ p.ep # NoSq /\ m = Move(s, p.ep, "enpassant", "n")
          /\ s \in PawnAttacks[Other(p.stm)][p.ep] /\ s \notin LinePins(p)
          /\ (s \in DiagPins(p) => p.ep \in DiagPins(p))
          /\ ~Bared(p, OwnKing(p), EpPawn(p), s)
          /\ Check(p).mask \cap {EpPawn(p), p.ep} # {}
    BY <1>3 DEF EpMove
  <2>2. m.kind = "enpassant" /\ m.from = s /\ m.to = p.ep /\ m.promo = "n"
    BY <2>1 DEF Move
  <2>3. p.ep \in Square /\ p.stm \in Color /\ s \in Square
    BY <2>1, EpFacts, PositionTypes DEF Sound
  <2>4. PawnStep(p.stm, s, p.ep)
    BY <2>1, <2>3, PawnSees, StepsBack, OtherColor
  <2> QED BY <2>1, <2>2, <2>4 DEF EpMoves1
<1> QED BY <1>1, <1>2, <1>3 DEF OtherMove

\* The squares a pawn reaches.
LEMMA PawnReach ==
  ASSUME NEW p, Sound(p), NEW s \in Pieces(p, {"p"}, p.stm), NEW t, PawnTo(p, s, t)
  PROVE  /\ s \in Square /\ t \in Square /\ t \notin Us(p, p.stm) /\ t \in Check(p).mask
         /\ \/ PawnTakes(p, s, t) /\ PawnStep(p.stm, s, t) /\ t \in Us(p, Other(p.stm))
            \/ /\ PawnPush(p, s, t) /\ FileOf(t) = FileOf(s) /\ RankOf(t) = RankOf(s) + Up1(p.stm)
               /\ t \notin Occ(p)
            \/ /\ FileOf(t) = FileOf(s) /\ RankOf(t) = RankOf(s) + 2 * Up1(p.stm)
               /\ RankOf(s) = RelRank(1, p.stm) /\ t \notin Occ(p)
               /\ \E u \in Square : /\ PawnPush(p, s, u) /\ u \notin Occ(p) /\ FileOf(u) = FileOf(s)
                                    /\ RankOf(u) = RankOf(s) + Up1(p.stm)
<1>1. p \in Position /\ PawnsInside(p)
  BY DEF Sound
<1>2. s \in Square /\ p.stm \in Color /\ s \in Occ(p) /\ TypeOf(p.board[s]) = "p"
  BY <1>1, PositionTypes DEF Pieces
<1>3. RankOf(s) \notin {0, 7} /\ RankOf(s) \in 0..7
  BY <1>1, <1>2, Coordinates DEF PawnsInside
<1>4. t \in Check(p).mask
  BY DEF PawnTo
<1>5. Us(p, p.stm) \subseteq Occ(p) /\ Us(p, Other(p.stm)) \cap Us(p, p.stm) = {}
      /\ Us(p, Other(p.stm)) \subseteq Square
  BY <1>1, PositionTypes
<1>6. CASE PawnTakes(p, s, t)
  <2>1. t \in Us(p, Other(p.stm)) /\ PawnStep(p.stm, s, t)
    BY <1>2, <1>6, PawnSees DEF PawnTakes
  <2> QED BY <1>2, <1>4, <1>5, <1>6, <2>1
<1>7. ASSUME NEW u, PawnPush(p, s, u)
      PROVE  u \in Square /\ u \notin Occ(p) /\ FileOf(u) = FileOf(s) /\ RankOf(u) = RankOf(s) + Up1(p.stm)
  BY <1>2, <1>3, <1>7, PushIs DEF PawnPush
<1>8. CASE PawnPush(p, s, t)
  BY <1>2, <1>4, <1>5, <1>7, <1>8
<1>9. CASE PawnPush2(p, s, t)
  <2>1. PICK u : PawnPush(p, s, u) /\ RankOf(u) = RelRank(2, p.stm) /\ t = u + Forward(p.stm)
    BY <1>9 DEF PawnPush2
  <2>2. u \in Square /\ u \notin Occ(p) /\ FileOf(u) = FileOf(s) /\ RankOf(u) = RankOf(s) + Up1(p.stm)
    BY <1>7, <2>1
  <2>3. RankOf(u) \notin {0, 7}
    BY <1>2, <2>1 DEF RelRank, Color, White, Black
  <2>4. t \in Square /\ FileOf(t) = FileOf(u) /\ RankOf(t) = RankOf(u) + Up1(p.stm)
    BY <1>2, <2>1, <2>2, <2>3, PushIs
  <2>5. RankOf(s) = RelRank(1, p.stm) /\ RankOf(t) = RankOf(s) + 2 * Up1(p.stm)
    BY <1>2, <1>3, <2>1, <2>2, <2>4 DEF RelRank, Up1, Color, White, Black
  <2>6. t \notin Occ(p)
    BY <1>9 DEF PawnPush2
  <2> QED BY <1>2, <1>4, <1>5, <2>1, <2>2, <2>4, <2>5, <2>6
<1> QED BY <1>6, <1>8, <1>9 DEF PawnTo

\* Such a move starts on a square of its own and, but for en passant, meets the check.
LEMMA OtherOrdinary ==
  ASSUME NEW p, Sound(p), NEW m, OtherMove(p, m)
  PROVE  /\ Ordinary(p, m) /\ m.from \in Square /\ m.from # OwnKing(p)
         /\ m.kind # "enpassant" => m.to \in Check(p).mask
<1>1. p \in Position /\ OneKing(p) /\ p.stm \in Color
  BY PositionTypes DEF Sound
<1>2. \A types, c : Pieces(p, types, c) \subseteq Us(p, c) /\ Pieces(p, types, c) \subseteq Square
  BY <1>1, PositionTypes
<1>3. \A types : "k" \notin types => OwnKing(p) \notin Pieces(p, types, p.stm)
  BY <1>1, KingStands DEF OwnKing
<1>4. CASE PieceMoves(p, m)
  <2>1. PICK types \in {{"n"}, {"b"}, {"r"}, {"q"}} : m.from \in Pieces(p, types, p.stm)
    BY <1>4 DEF PieceMoves, PieceTo
  <2>2. m.from \in Us(p, p.stm) /\ m.from \in Square /\ m.from # OwnKing(p)
    BY <1>2, <1>3, <2>1
  <2> QED BY <1>4, <2>2 DEF PieceMoves, Ordinary, Plain
<1>5. CASE PawnMoves1(p, m)
  <2>1. m.from \in Us(p, p.stm) /\ m.from \in Square /\ m.from # OwnKing(p) /\ TypeOf(p.board[m.from]) = "p"
    BY <1>2, <1>3, <1>5 DEF PawnMoves1, Pieces
  <2>2. m.to \in Square /\ m.to \notin Us(p, p.stm) /\ m.to \in Check(p).mask
    BY <1>5, PawnReach DEF PawnMoves1
  <2> QED BY <1>5, <2>1, <2>2 DEF PawnMoves1, Ordinary, Plain
<1>6. CASE EpMoves1(p, m)
  <2>1. m.from \in Us(p, p.stm) /\ m.from \in Square /\ m.from # OwnKing(p) /\ TypeOf(p.board[m.from]) = "p"
    BY <1>2, <1>3, <1>6 DEF EpMoves1, Pieces
  <2>2. m.to \in Square /\ m.to \notin Occ(p) /\ EpSquare(m.to) \in Us(p, Other(p.stm))
    BY <1>2, <1>6, EpFacts DEF EpMoves1
  <2>3. m.to \notin Us(p, p.stm)
    BY <1>1, <2>2, PositionTypes
  <2> QED BY <1>6, <2>1, <2>2, <2>3 DEF EpMoves1, Ordinary, Plain
<1> QED BY <1>4, <1>5, <1>6, OtherIs

----------------------------------------
(* Pinned pieces *)

\* A piece between the king and an attacker that stays on the lines of both and
\* jumps over neither stays between them or takes the attacker.
LEMMA PinGeometry ==
  ASSUME NEW k \in Square, NEW s \in Square, NEW a \in Square, NEW t \in Square, Amid(k, s, a),
         \/ Diag(k, a) /\ Diag(s, t) /\ Diag(k, t)
         \/ Orth(k, a) /\ Orth(s, t) /\ Orth(k, t)
  PROVE  t = a \/ Amid(k, t, a) \/ Amid(s, k, t) \/ Amid(s, a, t)
<1>1. ASSUME FileOf(t) = FileOf(a), RankOf(t) = RankOf(a) PROVE t = a
  BY <1>1, SameSquare
<1>2. /\ FileOf(k) \in 0..7 /\ FileOf(s) \in 0..7 /\ FileOf(a) \in 0..7 /\ FileOf(t) \in 0..7
      /\ RankOf(k) \in 0..7 /\ RankOf(s) \in 0..7 /\ RankOf(a) \in 0..7 /\ RankOf(t) \in 0..7
  BY Coordinates
<1>3. FileOf(k) = FileOf(t) /\ RankOf(k) = RankOf(t) => k = t
  BY SameSquare
<1>4. FileOf(k) = FileOf(a) /\ RankOf(k) = RankOf(a) => k = a
  BY SameSquare
<1>5. FileOf(s) = FileOf(t) /\ RankOf(s) = RankOf(t) => s = t
  BY SameSquare
<1>6. CASE Diag(k, a) /\ Diag(s, t) /\ Diag(k, t)
  BY <1>1, <1>2, <1>3, <1>4, <1>5, <1>6, SMTT(60) DEF Diag, Amid, Up
<1>7. CASE Orth(k, a) /\ Orth(s, t) /\ Orth(k, t)
  BY <1>1, <1>2, <1>3, <1>4, <1>5, <1>7, SMTT(60) DEF Orth, Amid, Up
<1> QED BY <1>6, <1>7

\* Next to each other, or two apart on a file.
LEMMA Near ==
  ASSUME NEW s \in Square, NEW t \in Square
  PROVE  /\ \A c \in Color : PawnStep(c, s, t) => Diag(s, t) /\ \A u \in Square : ~Amid(s, u, t)
         /\ \A c \in Color : FileOf(t) = FileOf(s) /\ RankOf(t) = RankOf(s) + Up1(c)
                               => Orth(s, t) /\ \A u \in Square : ~Amid(s, u, t)
         /\ \A c \in Color, v \in Square :
              /\ FileOf(t) = FileOf(s) /\ RankOf(t) = RankOf(s) + 2 * Up1(c)
              /\ FileOf(v) = FileOf(s) /\ RankOf(v) = RankOf(s) + Up1(c)
              => Orth(s, t) /\ \A u \in Square : Amid(s, u, t) => u = v
<1>1. FileOf(s) \in 0..7 /\ RankOf(s) \in 0..7 /\ FileOf(t) \in 0..7 /\ RankOf(t) \in 0..7
  BY Coordinates
<1>2. \A u \in Square : FileOf(u) \in 0..7 /\ RankOf(u) \in 0..7
  BY Coordinates
<1>3. \A u, v \in Square : FileOf(u) = FileOf(v) /\ RankOf(u) = RankOf(v) => u = v
  BY SameSquare
<1>4. \A c \in Color : Up1(c) \in {1, -1}
  BY DEF Up1
<1>5. ASSUME NEW c \in Color, PawnStep(c, s, t)
      PROVE  Diag(s, t) /\ \A u \in Square : ~Amid(s, u, t)
  BY <1>1, <1>2, <1>4, <1>5, SMTT(60) DEF PawnStep, Diag, Amid, Up
<1>6. ASSUME NEW c \in Color, FileOf(t) = FileOf(s), RankOf(t) = RankOf(s) + Up1(c)
      PROVE  Orth(s, t) /\ \A u \in Square : ~Amid(s, u, t)
  BY <1>1, <1>2, <1>4, <1>6, SMTT(60) DEF Orth, Amid, Up
<1>7. ASSUME NEW c \in Color, NEW v \in Square, FileOf(t) = FileOf(s), RankOf(t) = RankOf(s) + 2 * Up1(c),
             FileOf(v) = FileOf(s), RankOf(v) = RankOf(s) + Up1(c)
      PROVE  Orth(s, t) /\ \A u \in Square : Amid(s, u, t) => u = v
  <2>1. Orth(s, t)
    BY <1>1, <1>4, <1>7 DEF Orth
  <2>2. ASSUME NEW u \in Square, Amid(s, u, t) PROVE FileOf(u) = FileOf(v) /\ RankOf(u) = RankOf(v)
    BY <1>1, <1>2, <1>4, <1>7, <2>2, SMTT(60) DEF Amid, Up
  <2> QED BY <1>3, <2>1, <2>2
<1> QED BY <1>5, <1>6, <1>7

\* What is known of both kings and both colors in a sound position.
LEMMA Sides ==
  ASSUME NEW p, Sound(p)
  PROVE  /\ p \in Position /\ OneKing(p) /\ p.stm \in Color /\ Other(p.stm) \in Color /\ Other(Other(p.stm)) = p.stm
         /\ p.stm # Other(p.stm)
         /\ OwnKing(p) \in Square /\ OwnKing(p) \in Us(p, p.stm) /\ OwnKing(p) \in Occ(p)
         /\ KingSq(p, Other(p.stm)) \in Square /\ KingSq(p, Other(p.stm)) \in Us(p, Other(p.stm))
         /\ Occ(p) \subseteq Square /\ Us(p, p.stm) \cap Us(p, Other(p.stm)) = {}
         /\ Us(p, p.stm) \subseteq Occ(p) /\ Us(p, Other(p.stm)) \subseteq Occ(p)
         /\ Occ(p) = Us(p, p.stm) \cup Us(p, Other(p.stm))
         /\ \A types, c : Pieces(p, types, c) \subseteq Us(p, c) /\ Pieces(p, types, c) \subseteq Square
<1>1. p \in Position /\ OneKing(p)
  BY DEF Sound
<1>2. p.stm \in Color /\ Other(p.stm) \in Color
  BY <1>1, PositionTypes
<1> QED BY <1>1, <1>2, KingStands, PositionTypes, OtherColor DEF OwnKing

\* A slider of color c, where it can see along the line to s.
Aims(p, c, a, s) ==
  \/ a \in Pieces(p, {"b", "q"}, c) /\ Diag(s, a)
  \/ a \in Pieces(p, {"r", "q"}, c) /\ Orth(s, a)

\* A pinned piece moves along the line of its pin.
LEMMA PinsKept ==
  ASSUME NEW p, Sound(p), NEW m, PieceMoves(p, m) \/ PawnMoves1(p, m)
  PROVE  /\ m.from \in DiagPins(p) =>
              Diag(m.from, m.to) /\ Diag(OwnKing(p), m.to) /\ Clear(m.from, m.to, Occ(p))
         /\ m.from \in LinePins(p) =>
              Orth(m.from, m.to) /\ Orth(OwnKing(p), m.to) /\ Clear(m.from, m.to, Occ(p))
<1> DEFINE k == OwnKing(p)
           s == m.from
           t == m.to
<1>1. /\ k \in Square /\ p.stm \in Color /\ Occ(p) \subseteq Square /\ k \in Occ(p)
      /\ \A types, c : Pieces(p, types, c) \subseteq Square
  BY Sides
<1>2. \A u : u \in DiagPins(p) => u \in Square /\ Diag(k, u)
  BY <1>1, PinInside DEF DiagPins, PinD, OwnKing
<1>3. \A u : u \in LinePins(p) => u \in Square /\ Orth(k, u)
  BY <1>1, PinInside DEF LinePins, PinHV, OwnKing
<1> HIDE DEF k
<1>5. CASE PieceMoves(p, m)
  <2>1. PieceTo(p, s, t) /\ t \in Square
    BY <1>5 DEF PieceMoves
  <2> HIDE DEF s, t
  <2>2. CASE s \in Pieces(p, {"n"}, p.stm) \ (DiagPins(p) \cup LinePins(p))
    BY <2>2 DEF s, t
  <2>3. CASE s \in Pieces(p, {"b"}, p.stm) \ LinePins(p) /\ t \in BishopMoves(p, s, DiagPins(p))
    <3>1. s \in Square
      BY <1>1, <2>3
    <3>2. s \in DiagPins(p) => t \in BishopAttacks(s, Occ(p)) /\ t \in DiagPins(p)
      BY <2>3 DEF BishopMoves
    <3>3. s \in DiagPins(p) => Diag(s, t) /\ Clear(s, t, Occ(p)) /\ Diag(k, t)
      BY <1>2, <3>1, <3>2, BishopSees
    <3> QED BY <2>3, <3>3 DEF s, t, k
  <2>4. CASE s \in Pieces(p, {"r"}, p.stm) \ DiagPins(p) /\ t \in RookMoves(p, s, LinePins(p))
    <3>1. s \in Square
      BY <1>1, <2>4
    <3>2. s \in LinePins(p) => t \in RookAttacks(s, Occ(p)) /\ t \in LinePins(p)
      BY <2>4 DEF RookMoves
    <3>3. s \in LinePins(p) => Orth(s, t) /\ Clear(s, t, Occ(p)) /\ Orth(k, t)
      BY <1>3, <3>1, <3>2, RookSees
    <3> QED BY <2>4, <3>3 DEF s, t, k
  <2>5. CASE /\ s \in Pieces(p, {"q"}, p.stm) \ (DiagPins(p) \cap LinePins(p))
             /\ t \in QueenMoves(p, s, DiagPins(p), LinePins(p))
    <3>1. s \in Square
      BY <1>1, <2>5
    <3>2. s \in DiagPins(p) => t \in BishopAttacks(s, Occ(p)) /\ t \in DiagPins(p)
      <4>1. SUFFICES ASSUME s \in DiagPins(p) PROVE t \in BishopAttacks(s, Occ(p)) /\ t \in DiagPins(p)
        OBVIOUS
      <4>2. QueenMoves(p, s, DiagPins(p), LinePins(p)) = BishopAttacks(s, Occ(p)) \cap DiagPins(p)
        BY <4>1 DEF QueenMoves
      <4> QED BY <2>5, <4>2
    <3>3. s \in LinePins(p) => t \in RookAttacks(s, Occ(p)) /\ t \in LinePins(p)
      <4>1. SUFFICES ASSUME s \in LinePins(p) PROVE t \in RookAttacks(s, Occ(p)) /\ t \in LinePins(p)
        OBVIOUS
      <4>2. s \in LinePins(p) \ DiagPins(p)
        BY <2>5, <4>1
      <4>3. QueenMoves(p, s, DiagPins(p), LinePins(p)) = RookAttacks(s, Occ(p)) \cap LinePins(p)
        BY <4>2 DEF QueenMoves
      <4> QED BY <2>5, <4>3
    <3>4. s \in DiagPins(p) => Diag(s, t) /\ Clear(s, t, Occ(p)) /\ Diag(k, t)
      BY <1>2, <3>1, <3>2, BishopSees
    <3>5. s \in LinePins(p) => Orth(s, t) /\ Clear(s, t, Occ(p)) /\ Orth(k, t)
      BY <1>3, <3>1, <3>3, RookSees
    <3> QED BY <3>4, <3>5 DEF s, t, k
  <2> QED BY <2>1, <2>2, <2>3, <2>4, <2>5 DEF PieceTo
<1>6. CASE PawnMoves1(p, m)
  <2>1. s \in Pieces(p, {"p"}, p.stm) /\ PawnTo(p, s, t)
    BY <1>6 DEF PawnMoves1
  <2> HIDE DEF s, t
  <2>2. s \in Square /\ t \in Square
    BY <2>1, PawnReach
  <2>3. \A u \in Square : FileOf(u) \in 0..7 /\ RankOf(u) \in 0..7
    BY Coordinates
  <2>4. \/ PawnTakes(p, s, t) /\ PawnStep(p.stm, s, t) /\ t \in Us(p, Other(p.stm))
        \/ /\ PawnPush(p, s, t) /\ FileOf(t) = FileOf(s) /\ RankOf(t) = RankOf(s) + Up1(p.stm)
           /\ t \notin Occ(p)
        \/ /\ FileOf(t) = FileOf(s) /\ RankOf(t) = RankOf(s) + 2 * Up1(p.stm)
           /\ RankOf(s) = RelRank(1, p.stm) /\ t \notin Occ(p)
           /\ \E u \in Square : /\ PawnPush(p, s, u) /\ u \notin Occ(p) /\ FileOf(u) = FileOf(s)
                                /\ RankOf(u) = RankOf(s) + Up1(p.stm)
    BY <2>1, PawnReach
  <2>5. CASE PawnTakes(p, s, t) /\ PawnStep(p.stm, s, t)
    <3>1. s \notin LinePins(p) /\ (s \in DiagPins(p) => t \in DiagPins(p))
      BY <2>5 DEF PawnTakes
    <3>2. Diag(s, t) /\ Clear(s, t, Occ(p))
      BY <1>1, <2>2, <2>5, Near DEF Clear
    <3> QED BY <1>2, <3>1, <3>2 DEF s, t, k
  <2>6. CASE /\ PawnPush(p, s, t) /\ FileOf(t) = FileOf(s) /\ RankOf(t) = RankOf(s) + Up1(p.stm)
             /\ t \notin Occ(p)
    <3>1. s \notin DiagPins(p) /\ (s \in LinePins(p) => t \in LinePins(p))
      BY <2>6 DEF PawnPush
    <3>2. Orth(s, t) /\ Clear(s, t, Occ(p))
      BY <1>1, <2>2, <2>6, Near DEF Clear
    <3> QED BY <1>3, <3>1, <3>2 DEF s, t, k
  <2>7. CASE /\ FileOf(t) = FileOf(s) /\ RankOf(t) = RankOf(s) + 2 * Up1(p.stm) /\ t \notin Occ(p)
             /\ \E u \in Square : /\ PawnPush(p, s, u) /\ u \notin Occ(p) /\ FileOf(u) = FileOf(s)
                                  /\ RankOf(u) = RankOf(s) + Up1(p.stm)
    <3>1. PICK u \in Square : /\ PawnPush(p, s, u) /\ u \notin Occ(p) /\ FileOf(u) = FileOf(s)
                              /\ RankOf(u) = RankOf(s) + Up1(p.stm)
      BY <2>7
    <3>2. s \notin DiagPins(p) /\ (s \in LinePins(p) => u \in LinePins(p))
      BY <3>1 DEF PawnPush
    <3>3. Orth(s, t) /\ Clear(s, t, Occ(p))
      BY <1>1, <2>2, <2>7, <3>1, Near DEF Clear
    <3>4. k # t
      BY <1>1, <2>7
    <3>5. s \in LinePins(p) => Orth(k, u) /\ Orth(k, s)
      BY <1>3, <3>2
    <3>6. s \in LinePins(p) => FileOf(k) = FileOf(s)
      BY <1>1, <2>2, <2>3, <3>1, <3>5 DEF Orth, Up1
    <3>7. s \in LinePins(p) => Orth(k, t)
      BY <2>7, <3>4, <3>6 DEF Orth
    <3> QED BY <3>2, <3>3, <3>7 DEF s, t, k
  <2> QED BY <2>4, <2>5, <2>6, <2>7 DEF s, t, k
<1> QED BY <1>5, <1>6

\* A piece that alone stands between the king and a slider is pinned.
LEMMA Alone ==
  ASSUME NEW p, Sound(p), NEW s \in Us(p, p.stm), NEW a \in Square,
         Aims(p, Other(p.stm), a, OwnKing(p)), Amid(OwnKing(p), s, a), Clear(OwnKing(p), a, Occ(p) \ {s})
  PROVE  \/ s \in DiagPins(p) /\ Diag(OwnKing(p), a)
         \/ s \in LinePins(p) /\ Orth(OwnKing(p), a)
<1> DEFINE k == OwnKing(p)
           c == p.stm
           e == Other(p.stm)
<1>1. /\ k \in Square /\ c \in Color /\ Occ(p) \subseteq Square
      /\ Us(p, e) \subseteq Occ(p) /\ Us(p, c) \subseteq Occ(p) /\ Us(p, c) \cap Us(p, e) = {}
  BY Sides
<1>2. Clear(k, a, Us(p, e)) /\ \A u \in Us(p, c) : Amid(k, u, a) => u = s
  BY <1>1 DEF Clear
<1> HIDE DEF k, c, e
<1>3. CASE a \in Pieces(p, {"b", "q"}, e) /\ Diag(k, a)
  <2>1. Between[k][a] \subseteq PinMask(p, c, k, Diagonal, {"b", "q"}) /\ s \in Between[k][a]
    BY <1>1, <1>2, <1>3, PinLine DEF k, c, e
  <2> QED BY <1>3, <2>1 DEF DiagPins, PinD, k, c, OwnKing
<1>4. CASE a \in Pieces(p, {"r", "q"}, e) /\ Orth(k, a)
  <2>1. Between[k][a] \subseteq PinMask(p, c, k, Orthogonal, {"r", "q"}) /\ s \in Between[k][a]
    BY <1>1, <1>2, <1>4, PinLine DEF k, c, e
  <2> QED BY <1>4, <2>1 DEF LinePins, PinHV, k, c, OwnKing
<1> QED BY <1>3, <1>4 DEF Aims, k, e

\* A piece that leaves a line to its king meets the slider or stays on the line.
LEMMA Unpinned ==
  ASSUME NEW p, Sound(p), NEW m, OtherMove(p, m), PieceMoves(p, m) \/ PawnMoves1(p, m), NEW a \in Square,
         Aims(p, Other(p.stm), a, OwnKing(p)), Amid(OwnKing(p), m.from, a),
         Clear(OwnKing(p), a, Occ(p) \ {m.from})
  PROVE  m.to = a \/ Amid(OwnKing(p), m.to, a)
<1> DEFINE k == OwnKing(p)
           s == m.from
           t == m.to
<1>2. s \in Us(p, p.stm) /\ s \in Square /\ t \in Square
  BY OtherOrdinary DEF Ordinary
<1>3. k \in Square /\ k \in Occ(p) /\ a \in Occ(p)
  BY Sides DEF Aims
<1>4. CASE s \in DiagPins(p) /\ Diag(k, a)
  <2>1. Diag(s, t) /\ Diag(k, t) /\ Clear(s, t, Occ(p))
    BY <1>4, PinsKept
  <2>2. t = a \/ Amid(k, t, a) \/ Amid(s, k, t) \/ Amid(s, a, t)
    BY <1>2, <1>3, <1>4, <2>1, PinGeometry
  <2> QED BY <1>3, <2>1, <2>2 DEF Clear
<1>5. CASE s \in LinePins(p) /\ Orth(k, a)
  <2>1. Orth(s, t) /\ Orth(k, t) /\ Clear(s, t, Occ(p))
    BY <1>5, PinsKept
  <2>2. t = a \/ Amid(k, t, a) \/ Amid(s, k, t) \/ Amid(s, a, t)
    BY <1>2, <1>3, <1>5, <2>1, PinGeometry
  <2> QED BY <1>3, <2>1, <2>2 DEF Clear
<1> QED BY <1>2, <1>4, <1>5, Alone

\* Who hits the king: a leaper, the other king or a slider.
LEMMA HitsBy ==
  ASSUME NEW p, NEW c, NEW a, NEW s
  PROVE  Hits(p, c, a, s) <=>
           \/ a \in Pieces(p, {"p"}, c) /\ PawnStep(c, a, s)
           \/ a \in Pieces(p, {"n"}, c) /\ KnightStep(a, s)
           \/ a \in Pieces(p, {"k"}, c) /\ KingStep(a, s)
           \/ Aims(p, c, a, s) /\ Clear(s, a, Occ(p))
BY DEF Hits, Aims

\* What the check mask says of the checkers.
LEMMA MaskSays ==
  ASSUME NEW p, Sound(p), Check(p).checks # 2, NEW a \in Square
  PROVE  /\ \/ a \in Pieces(p, {"p"}, Other(p.stm)) /\ PawnStep(Other(p.stm), a, OwnKing(p))
            \/ a \in Pieces(p, {"n"}, Other(p.stm)) /\ KnightStep(a, OwnKing(p))
            => Check(p).mask = {a}
         /\ Aims(p, Other(p.stm), a, OwnKing(p)) /\ Clear(OwnKing(p), a, Occ(p))
            => \A u \in Square : u \in Check(p).mask <=> u = a \/ Amid(OwnKing(p), u, a)
<1>1. p \in Position /\ OneKing(p) /\ FewChecks(p)
  BY DEF Sound
<1>2. /\ a \in ByPawn(p, p.stm) <=> a \in Pieces(p, {"p"}, Other(p.stm)) /\ PawnStep(Other(p.stm), a, OwnKing(p))
      /\ a \in ByKnight(p, p.stm) <=> a \in Pieces(p, {"n"}, Other(p.stm)) /\ KnightStep(a, OwnKing(p))
      /\ a \in ByDiagonal(p) <=> /\ a \in Pieces(p, {"b", "q"}, Other(p.stm)) /\ Diag(OwnKing(p), a)
                                 /\ Clear(OwnKing(p), a, Occ(p))
      /\ a \in ByLine(p) <=> /\ a \in Pieces(p, {"r", "q"}, Other(p.stm)) /\ Orth(OwnKing(p), a)
                             /\ Clear(OwnKing(p), a, Occ(p))
      /\ a \in ByLeap(p) <=> a \in ByPawn(p, p.stm) \/ a \in ByKnight(p, p.stm)
  BY <1>1, ChecksAre
<1>3. a \in ByLeap(p) => Check(p).mask = {a}
  BY <1>1, MaskIs
<1>4. a \in ByDiagonal(p) \cup ByLine(p) => \A u \in Square : u \in Check(p).mask <=> u = a \/ Amid(OwnKing(p), u, a)
  BY <1>1, MaskIs
<1> QED BY <1>2, <1>3, <1>4 DEF Aims

\* The kings are not next to each other.
LEMMA KingsApart ==
  ASSUME NEW p, Sound(p)
  PROVE  ~KingStep(KingSq(p, Other(p.stm)), OwnKing(p))
<1>1. OwnKing(p) \in Pieces(p, {"k"}, p.stm) /\ OwnKing(p) \in Square /\ KingSq(p, Other(p.stm)) \in Square
  BY Sides DEF OneKing, OwnKing
<1>2. ~KingStep(OwnKing(p), KingSq(p, Other(p.stm)))
  BY <1>1 DEF Sound, Calm, Hits
<1> QED BY <1>1, <1>2, StepsBack

\* No piece that stayed hits the king when a move other than the king's is made.
LEMMA KingStaysSafe ==
  ASSUME NEW p, Sound(p), NEW m, OtherMove(p, m), Check(p).checks # 2,
         NEW a \in Square, a # m.to, a \notin Gone(m),
         NEW occ, occ = (Occ(p) \ Gone(m)) \cup {m.to}
  PROVE  /\ ~(a \in Pieces(p, {"p"}, Other(p.stm)) /\ PawnStep(Other(p.stm), a, OwnKing(p)))
         /\ ~(a \in Pieces(p, {"n"}, Other(p.stm)) /\ KnightStep(a, OwnKing(p)))
         /\ ~(a \in Pieces(p, {"k"}, Other(p.stm)) /\ KingStep(a, OwnKing(p)))
         /\ ~(Aims(p, Other(p.stm), a, OwnKing(p)) /\ Clear(OwnKing(p), a, occ))
<1> DEFINE k == OwnKing(p)
           c == p.stm
           e == Other(p.stm)
           s == m.from
           t == m.to
<1>1. /\ k \in Square /\ c \in Color /\ Occ(p) \subseteq Square /\ k \in Occ(p)
      /\ Us(p, e) \subseteq Occ(p) /\ Us(p, c) \subseteq Occ(p) /\ Us(p, c) \cap Us(p, e) = {}
      /\ \A types, d : Pieces(p, types, d) \subseteq Us(p, d) /\ Pieces(p, types, d) \subseteq Square
  BY Sides
<1>2. /\ Ordinary(p, m) /\ s \in Square /\ s # k /\ t \in Square /\ s \in Us(p, c)
      /\ m.kind # "enpassant" => t \in Check(p).mask
  BY OtherOrdinary DEF Ordinary
<1>3. ~(a \in Pieces(p, {"k"}, e) /\ KingStep(a, k))
  BY KingsApart, Sides DEF OneKing
<1>4. s \in Gone(m) /\ t \in occ
  BY DEF Gone
<1>5. CASE PieceMoves(p, m) \/ PawnMoves1(p, m)
  <2>1. m.kind # "enpassant" /\ t \in Check(p).mask /\ Gone(m) = {s}
    BY <1>2, <1>5 DEF PieceMoves, PawnMoves1, Gone
  <2>2. ~(a \in Pieces(p, {"p"}, e) /\ PawnStep(e, a, k)) /\ ~(a \in Pieces(p, {"n"}, e) /\ KnightStep(a, k))
    BY <2>1, MaskSays
  <2>3. ~(Aims(p, e, a, k) /\ Clear(k, a, occ))
    <3>1. SUFFICES ASSUME Aims(p, e, a, k), Clear(k, a, occ) PROVE FALSE
      OBVIOUS
    <3>2. ~Amid(k, t, a)
      BY <1>2, <1>4, <3>1 DEF Clear
    <3>3. CASE Clear(k, a, Occ(p))
      BY <1>2, <2>1, <3>1, <3>2, <3>3, MaskSays
    <3>4. CASE ~Clear(k, a, Occ(p))
      <4>1. PICK u \in Occ(p) \cap Square : Amid(k, u, a)
        BY <3>4 DEF Clear
      <4>2. u = s
        BY <2>1, <3>1, <4>1 DEF Clear
      <4>3. Clear(k, a, Occ(p) \ {s})
        BY <2>1, <3>1 DEF Clear
      <4> HIDE DEF k, e
      <4> QED BY <1>5, <3>1, <3>2, <4>1, <4>2, <4>3, Unpinned DEF k, e
    <3> QED BY <3>3, <3>4
  <2> QED BY <1>3, <2>2, <2>3
<1>6. CASE EpMoves1(p, m)
  <2> DEFINE w == EpPawn(p)
  <2>1. /\ m.kind = "enpassant" /\ p.ep # NoSq /\ t = p.ep /\ PawnStep(c, s, t)
        /\ s \notin LinePins(p) /\ (s \in DiagPins(p) => t \in DiagPins(p))
        /\ ~Bared(p, k, w, s) /\ Check(p).mask \cap {w, t} # {}
    BY <1>6 DEF EpMoves1
  <2>2. /\ t \notin Occ(p) /\ w = EpSquare(t) /\ w \in Pieces(p, {"p"}, e) /\ w \in Square
        /\ FileOf(w) = FileOf(t) /\ RankOf(w) = RankOf(t) - Up1(c) /\ EpQuiet(p)
    BY <2>1, EpFacts
  <2>3. Gone(m) = {s, w} /\ a # w /\ a # s
    BY <2>1, <2>2, <1>4 DEF Gone
  <2>4. ~(a \in Pieces(p, {"p"}, e) /\ PawnStep(e, a, k)) /\ ~(a \in Pieces(p, {"n"}, e) /\ KnightStep(a, k))
    BY <2>1, <2>3, MaskSays
  <2>5. ASSUME Aims(p, e, a, k), Clear(k, a, occ) PROVE FALSE
    <3> HIDE DEF w
    <3>1. ~Amid(k, t, a)
      BY <1>2, <1>4, <2>5 DEF Clear
    <3>2. \A u \in Occ(p) : Amid(k, u, a) => u = s \/ u = w
      BY <1>1, <2>3, <2>5 DEF Clear
    <3>3. a \in Occ(p) /\ a \in Us(p, e) /\ k # t
      BY <1>1, <2>2, <2>5 DEF Aims
    <3>4. CASE ~Amid(k, s, a) /\ ~Amid(k, w, a)
      <4>1. Clear(k, a, Occ(p))
        BY <3>2, <3>4 DEF Clear
      <4>2. \A u \in Square : u \in Check(p).mask <=> u = a \/ Amid(k, u, a)
        BY <2>5, <4>1, MaskSays
      <4> QED BY <1>2, <2>1, <2>2, <2>3, <3>1, <3>4, <4>2
    <3>5. CASE Amid(k, s, a) /\ Amid(k, w, a)
      <4>1. RankOf(k) = RankOf(w) /\ Orth(k, a) /\ ~Diag(k, a)
        <5>1. RankOf(s) = RankOf(w) /\ FileOf(s) # FileOf(w)
          <6>1. FileOf(s) \in Int /\ RankOf(s) \in Int /\ FileOf(t) \in Int /\ RankOf(t) \in Int
            BY <1>2, Coordinates
          <6>2. Up1(c) \in Int
            BY DEF Up1
          <6> HIDE DEF c
          <6> QED BY <2>1, <2>2, <6>1, <6>2 DEF PawnStep
        <5>2. /\ FileOf(k) \in 0..7 /\ FileOf(s) \in 0..7 /\ FileOf(a) \in 0..7 /\ FileOf(w) \in 0..7
              /\ RankOf(k) \in 0..7 /\ RankOf(s) \in 0..7 /\ RankOf(a) \in 0..7 /\ RankOf(w) \in 0..7
          BY <1>1, <1>2, <2>2, Coordinates
        <5> HIDE DEF k, s
        <5> QED BY <3>5, <5>1, <5>2, SMTT(60) DEF Amid, Up, Orth, Diag
      <4>2. a \in Pieces(p, {"r", "q"}, e)
        BY <2>5, <4>1 DEF Aims
      <4>3. Clear(k, a, SymDiff(Occ(p), {w, s}))
        <5>1. \A u \in SymDiff(Occ(p), {w, s}) : u \in Occ(p) /\ u # s /\ u # w
          BY <1>1, <1>2, <2>2 DEF SymDiff
        <5> QED BY <3>2, <5>1 DEF Clear
      <4>4. a \in RookAttacks(k, SymDiff(Occ(p), {w, s}))
        BY <1>1, <4>1, <4>3, RookSees
      <4>5. ColorOf(p.board[k]) = c
        BY Sides DEF Us
      <4>6. Bared(p, k, w, s)
        BY <4>1, <4>2, <4>4, <4>5 DEF Bared
      <4> QED BY <2>1, <4>6 DEF w
    <3>6. CASE ~Amid(k, s, a) /\ Amid(k, w, a)
      <4>1. CASE Diag(k, a)
        <5>1. ~Orth(k, a)
          BY <1>1, <2>2, <3>6, <4>1, AmidFacts
        <5>2. a \in Pieces(p, {"b", "q"}, e)
          BY <2>5, <5>1 DEF Aims
        <5>3. Clear(k, a, Occ(p) \ {w})
          BY <3>2, <3>6 DEF Clear
        <5>4. Clear(k, a, Occ(p))
          BY <2>1, <2>2, <4>1, <5>2, <5>3 DEF EpQuiet
        <5> QED BY <1>1, <2>2, <3>6, <5>4 DEF Clear
      <4>2. CASE Orth(k, a)
        <5>1. FileOf(s) - FileOf(t) \in {-1, 1} /\ RankOf(s) = RankOf(w) /\ Up1(c) \in {-1, 1}
          <6>1. FileOf(s) \in Int /\ RankOf(s) \in Int /\ FileOf(t) \in Int /\ RankOf(t) \in Int
            BY <1>2, Coordinates
          <6>2. Up1(c) \in {-1, 1}
            BY DEF Up1
          <6> HIDE DEF c
          <6> QED BY <2>1, <2>2, <6>1, <6>2 DEF PawnStep
        <5>2. /\ FileOf(k) \in 0..7 /\ FileOf(s) \in 0..7 /\ FileOf(a) \in 0..7 /\ FileOf(w) \in 0..7
              /\ RankOf(k) \in 0..7 /\ RankOf(s) \in 0..7 /\ RankOf(a) \in 0..7 /\ RankOf(w) \in 0..7
              /\ FileOf(t) \in 0..7 /\ RankOf(t) \in 0..7
          BY <1>1, <1>2, <2>2, Coordinates
        <5>3. (FileOf(k) # FileOf(t) \/ RankOf(k) # RankOf(t)) /\ (FileOf(a) # FileOf(t) \/ RankOf(a) # RankOf(t))
          BY <1>1, <1>2, <3>3, SameSquare
        <5>4. (FileOf(k) # FileOf(s) \/ RankOf(k) # RankOf(s)) /\ (FileOf(a) # FileOf(s) \/ RankOf(a) # RankOf(s))
          BY <1>1, <1>2, <2>3, SameSquare
        <5>5. RankOf(w) = RankOf(t) - 1 \/ RankOf(w) = RankOf(t) + 1
          BY <1>2, <2>2, <5>1, <5>2
        <5> HIDE DEF k, s, t, c
        <5>6. CASE FileOf(k) = FileOf(a)
          BY <2>2, <3>1, <3>6, <5>2, <5>3, <5>5, <5>6, SMTT(60) DEF Amid, Up
        <5>7. CASE RankOf(k) = RankOf(a) /\ FileOf(k) # FileOf(a)
          BY <2>2, <3>6, <5>1, <5>2, <5>4, <5>7, SMTT(60) DEF Amid, Up
        <5> QED BY <4>2, <5>6, <5>7 DEF Orth
      <4> QED BY <2>5, <4>1, <4>2 DEF Aims
    <3>7. CASE Amid(k, s, a) /\ ~Amid(k, w, a)
      <4>1. Clear(k, a, Occ(p) \ {s})
        BY <3>2, <3>7 DEF Clear
      <4>2. s \in DiagPins(p) /\ Diag(k, a)
        BY <1>2, <2>1, <2>5, <3>7, <4>1, Alone
      <4>3. Diag(k, t)
        BY <1>1, <2>1, <4>2, PinInside DEF DiagPins, PinD, OwnKing
      <4>4. Diag(s, t) /\ ~Amid(s, k, t) /\ ~Amid(s, a, t)
        BY <1>1, <1>2, <2>1, Near
      <4>5. t = a \/ Amid(k, t, a)
        <5> HIDE DEF k, s, t
        <5> QED BY <1>1, <1>2, <3>7, <4>2, <4>3, <4>4, PinGeometry
      <4> QED BY <3>1, <4>5
    <3> QED BY <3>4, <3>5, <3>6, <3>7
  <2> QED BY <1>3, <2>4, <2>5
<1> QED BY <1>5, <1>6, OtherIs

\* A move is safe when nothing hits the king where it then stands.
LEMMA SafeIs ==
  ASSUME NEW p, Sound(p), NEW m, NEW k \in Square,
         Pieces(MakeMove(p, m), {"k"}, p.stm) = {k}, Occ(MakeMove(p, m)) \subseteq Square,
         MakeMove(p, m).stm = Other(p.stm),
         \A a \in Square : ~Hits(MakeMove(p, m), Other(p.stm), a, k)
  PROVE  Safe(p, m)
<1> DEFINE q == MakeMove(p, m)
<1>1. KingSq(q, p.stm) = k
  BY SmallestOne DEF KingSq
<1>2. Other(p.stm) \in Color
  BY Sides
<1>3. ~IsAttacked(q, k, Other(p.stm))
  BY <1>2, AttackedHit
<1> QED BY <1>1, <1>3 DEF Safe

\* No move but of the king leaves the king attacked.
LEMMA OtherSafe ==
  ASSUME NEW p, Sound(p), NEW m, OtherMove(p, m), Check(p).checks # 2
  PROVE  /\ Safe(p, m) /\ Pieces(MakeMove(p, m), {"k"}, p.stm) = {OwnKing(p)}
         /\ \A a \in Square : ~Hits(MakeMove(p, m), Other(p.stm), a, OwnKing(p))
<1> DEFINE q == MakeMove(p, m)
           e == Other(p.stm)
           k == OwnKing(p)
<1>1. p \in Position /\ OneKing(p) /\ k \in Square /\ Pieces(p, {"k"}, p.stm) = {k} /\ p.stm \in Color
  BY Sides DEF OneKing, OwnKing
<1>2. Ordinary(p, m) /\ m.from # k /\ m.to \in Square /\ m.from \in Us(p, p.stm)
  BY OtherOrdinary DEF Ordinary
<1>3. q.stm = e /\ Occ(q) = (Occ(p) \ Gone(m)) \cup {m.to}
  BY <1>1, <1>2, MadeBoard
<1>4. TypeOf(Became(p, m)) # "k"
  <2>1. m.from \notin Pieces(p, {"k"}, p.stm)
    BY <1>1, <1>2
  <2>2. TypeOf(p.board[m.from]) # "k"
    BY <1>2, <2>1 DEF Pieces, Us
  <2> QED BY <1>2, <2>2 DEF Became, Ordinary, TypeOf
<1>5. Pieces(q, {"k"}, p.stm) = {k}
  BY <1>1, <1>2, <1>4, MadePieces
<1>6. \A types : Pieces(q, types, e) = Pieces(p, types, e) \ (Gone(m) \cup {m.to})
  BY <1>1, <1>2, MadePieces
<1>7. ASSUME NEW a \in Square PROVE ~Hits(q, e, a, k)
  <2>1. \A types : a \in Pieces(q, types, e) => a \in Pieces(p, types, e) /\ a # m.to /\ a \notin Gone(m)
    BY <1>6
  <2> HIDE DEF q
  <2>2. Aims(q, e, a, k) => Aims(p, e, a, k) /\ a # m.to /\ a \notin Gone(m)
    BY <2>1 DEF Aims
  <2> QED BY <1>3, <2>1, <2>2, HitsBy, KingStaysSafe
<1>8. Occ(q) \subseteq Square
  BY <1>2, <1>3, Sides
<1> QED BY <1>1, <1>3, <1>5, <1>7, <1>8, SafeIs

----------------------------------------
(* The king *)

\* Away from the board's other king, on a square that is not seen nothing hits.
LEMMA SeenIs ==
  ASSUME NEW p, Sound(p), NEW t \in Square, t \notin Seen(p),
         KingAttacks[OwnKing(p)] \cap (Square \ Us(p, p.stm)) # {} \/ p.frc,
         NEW a \in Square
  PROVE  /\ ~(a \in Pieces(p, {"p"}, Other(p.stm)) /\ PawnStep(Other(p.stm), a, t))
         /\ ~(a \in Pieces(p, {"n"}, Other(p.stm)) /\ KnightStep(a, t))
         /\ ~(a \in Pieces(p, {"k"}, Other(p.stm)) /\ KingStep(a, t))
         /\ ~(Aims(p, Other(p.stm), a, t) /\ Clear(t, a, Occ(p) \ {OwnKing(p)}))
<1> DEFINE e == Other(p.stm)
           own == KingSq(p, Other(e))
           occ == Occ(p) \ {own}
           Pawn(s) == PawnAttacks[e][s]
           Knight(s) == KnightAttacks[s]
           Bishop(s) == BishopAttacks(s, occ)
           Rook(s) == RookAttacks(s, occ)
           short == KingAttacks[own] \cap (Square \ Us(p, p.stm)) = {} /\ ~p.frc
           king == KingAttacks[KingSq(p, e)]
           seen == (UNION {Pawn(s) : s \in Pieces(p, {"p"}, e)}) \cup (UNION {Knight(s) : s \in Pieces(p, {"n"}, e)})
                \cup (UNION {Bishop(s) : s \in Pieces(p, {"b", "q"}, e)})
                \cup (UNION {Rook(s) : s \in Pieces(p, {"r", "q"}, e)}) \cup king
<1>1. e \in Color /\ Other(e) = p.stm
  BY Sides
<1>0. Seen(p) = IF short THEN {} ELSE seen
  BY DEF Seen, SeenSquares
<1>9. own = OwnKing(p)
  BY <1>1 DEF OwnKing
<1>2. Seen(p) = (UNION {Pawn(s) : s \in Pieces(p, {"p"}, e)}) \cup (UNION {Knight(s) : s \in Pieces(p, {"n"}, e)})
                \cup (UNION {Bishop(s) : s \in Pieces(p, {"b", "q"}, e)})
                \cup (UNION {Rook(s) : s \in Pieces(p, {"r", "q"}, e)}) \cup king
  <2> HIDE DEF Pawn, Knight, Bishop, Rook, e, king, own
  <2> QED BY <1>0, <1>9
<1>3. t \notin UNION {Pawn(s) : s \in Pieces(p, {"p"}, e)} /\ t \notin UNION {Knight(s) : s \in Pieces(p, {"n"}, e)}
      /\ t \notin UNION {Bishop(s) : s \in Pieces(p, {"b", "q"}, e)}
      /\ t \notin UNION {Rook(s) : s \in Pieces(p, {"r", "q"}, e)} /\ t \notin king
  <2> HIDE DEF Pawn, Knight, Bishop, Rook, e, king
  <2> QED BY <1>2
<1>4. a \in Pieces(p, {"p"}, e) => ~PawnStep(e, a, t)
  BY <1>1, <1>3, PawnSees
<1>5. a \in Pieces(p, {"n"}, e) => ~KnightStep(a, t)
  BY <1>3, KnightSees
<1>6. a \in Pieces(p, {"k"}, e) => ~KingStep(a, t)
  <2>1. t \notin KingAttacks[KingSq(p, e)]
    BY <1>3
  <2>2. a \in Pieces(p, {"k"}, e) => a = KingSq(p, e)
    BY <1>1, Sides DEF OneKing
  <2> QED BY <2>1, <2>2, KingSees
<1>7. a \in Pieces(p, {"b", "q"}, e) /\ Diag(t, a) => ~Clear(t, a, occ)
  <2>1. a \in Pieces(p, {"b", "q"}, e) => t \notin BishopAttacks(a, occ)
    BY <1>3
  <2> QED BY <2>1, BishopSees, StepsBack, ClearBack
<1>8. a \in Pieces(p, {"r", "q"}, e) /\ Orth(t, a) => ~Clear(t, a, occ)
  <2>1. a \in Pieces(p, {"r", "q"}, e) => t \notin RookAttacks(a, occ)
    BY <1>3
  <2> QED BY <2>1, RookSees, StepsBack, ClearBack
<1> QED BY <1>4, <1>5, <1>6, <1>7, <1>8, <1>9 DEF Aims

\* A move of the king goes to a square that is not seen by the other side.
LEMMA KingOrdinary ==
  ASSUME NEW p, Sound(p), NEW m, KingMove(p, m)
  PROVE  /\ Ordinary(p, m) /\ m.kind = "normal" /\ m.from = OwnKing(p) /\ KingStep(OwnKing(p), m.to)
         /\ m.to \notin Seen(p) /\ m.to \in KingAttacks[OwnKing(p)] \cap (Square \ Us(p, p.stm))
<1>1. PICK t \in KingAttacks[OwnKing(p)] :
         m = Normal(OwnKing(p), t) /\ t \in Square \ Us(p, p.stm) /\ t \notin Seen(p)
  BY DEF KingMove
<1>2. OwnKing(p) \in Square /\ OwnKing(p) \in Us(p, p.stm)
  BY Sides
<1>3. m.from = OwnKing(p) /\ m.to = t /\ m.kind = "normal" /\ m.promo = "n"
  BY <1>1 DEF Normal, Move
<1> QED BY <1>1, <1>2, <1>3, KingSees DEF Ordinary, Plain

\* The king is not attacked where it goes, itself being no shelter.
LEMMA KingSafe ==
  ASSUME NEW p, Sound(p), NEW m, KingMove(p, m)
  PROVE  /\ Safe(p, m) /\ Pieces(MakeMove(p, m), {"k"}, p.stm) = {m.to}
         /\ \A a \in Square : ~Hits(MakeMove(p, m), Other(p.stm), a, m.to)
<1> DEFINE q == MakeMove(p, m)
           e == Other(p.stm)
           k == OwnKing(p)
           t == m.to
<1>1. p \in Position /\ OneKing(p) /\ k \in Square /\ Pieces(p, {"k"}, p.stm) = {k} /\ p.stm \in Color
  BY Sides DEF OneKing, OwnKing
<1>2. /\ Ordinary(p, m) /\ m.kind = "normal" /\ m.from = k
      /\ t \notin Seen(p) /\ t \in KingAttacks[k] \cap (Square \ Us(p, p.stm))
  BY KingOrdinary
<1>3. q.stm = e /\ Occ(q) = (Occ(p) \ Gone(m)) \cup {t}
  BY <1>1, <1>2, MadeBoard
<1>4. TypeOf(Became(p, m)) = "k"
  <2>1. k \in Pieces(p, {"k"}, p.stm)
    BY <1>1
  <2> QED BY <1>2, <2>1 DEF Became, Pieces
<1>5. Pieces(q, {"k"}, p.stm) = {t}
  BY <1>1, <1>2, <1>4, MadePieces
<1>6. \A types : Pieces(q, types, e) = Pieces(p, types, e) \ (Gone(m) \cup {t})
  BY <1>1, <1>2, MadePieces
<1>7. Gone(m) = {k}
  BY <1>2 DEF Gone
<1>8. ASSUME NEW a \in Square PROVE ~Hits(q, e, a, t)
  <2>1. \A types : a \in Pieces(q, types, e) => a \in Pieces(p, types, e)
    BY <1>6
  <2> HIDE DEF q
  <2>2. Aims(q, e, a, t) => Aims(p, e, a, t)
    BY <2>1 DEF Aims
  <2>3. Clear(t, a, Occ(q)) => Clear(t, a, Occ(p) \ {k})
    BY <1>3, <1>7 DEF Clear
  <2> QED BY <1>2, <2>1, <2>2, <2>3, HitsBy, SeenIs
<1>9. Occ(q) \subseteq Square
  BY <1>2, <1>3, Sides
<1> QED BY <1>2, <1>3, <1>5, <1>8, <1>9, SafeIs

\* The king and the rook on m.to exchange sides with nothing in their way.
Exchanges(p, m, side) ==
  LET k == OwnKing(p)
      c == p.stm
      kt == KingTo(side, c)
      rt == RookTo(side, c)
  IN /\ m.kind = "castling" /\ m.from = k /\ m.promo = "n"
     /\ m.to \in Square /\ m.to \in Pieces(p, {"r"}, c) /\ m.to # k
     /\ RankOf(k) = RelRank(0, c) /\ RankOf(m.to) = RankOf(k)
     /\ IF side = "king" THEN FileOf(m.to) > FileOf(k) ELSE FileOf(m.to) < FileOf(k)
     /\ CastledTo(m) = side
     /\ kt \in Square /\ rt \in Square /\ RankOf(kt) = RankOf(k) /\ RankOf(rt) = RankOf(k)
     /\ FileOf(kt) = IF side = "king" THEN 6 ELSE 2
     /\ FileOf(rt) = IF side = "king" THEN 5 ELSE 3
     /\ \A u \in Occ(p) : u # k /\ u # m.to => /\ u # kt /\ u # rt
                                               /\ ~Amid(k, u, kt) /\ ~Amid(m.to, u, rt)
     /\ p.cr[<<c, side>>] = FileOf(m.to)

\* Castling as it is generated.
Castles(p, m, side) ==
  /\ Exchanges(p, m, side)
  /\ ~p.frc => FileOf(OwnKing(p)) = 4 /\ FileOf(m.to) = Corner(side)
  /\ p.frc => m.to \notin LinePins(p)
  /\ Between[OwnKing(p)][KingTo(side, p.stm)] \cap Seen(p) = {}
  /\ KingTo(side, p.stm) \notin Seen(p) /\ Check(p).checks = 0

\* Where king and rook stand after castling.
LEMMA HomeSquares ==
  ASSUME NEW c \in Color, NEW side \in Side
  PROVE  /\ KingTo(side, c) \in Square /\ RookTo(side, c) \in Square
         /\ RankOf(KingTo(side, c)) = RelRank(0, c) /\ RankOf(RookTo(side, c)) = RelRank(0, c)
         /\ FileOf(KingTo(side, c)) = IF side = "king" THEN 6 ELSE 2
         /\ FileOf(RookTo(side, c)) = IF side = "king" THEN 5 ELSE 3
<1>1. /\ RelSquare(6, c) \in Square /\ RankOf(RelSquare(6, c)) = RelRank(0, c) /\ FileOf(RelSquare(6, c)) = 6
      /\ RelSquare(2, c) \in Square /\ RankOf(RelSquare(2, c)) = RelRank(0, c) /\ FileOf(RelSquare(2, c)) = 2
      /\ RelSquare(5, c) \in Square /\ RankOf(RelSquare(5, c)) = RelRank(0, c) /\ FileOf(RelSquare(5, c)) = 5
      /\ RelSquare(3, c) \in Square /\ RankOf(RelSquare(3, c)) = RelRank(0, c) /\ FileOf(RelSquare(3, c)) = 3
  BY DEF RelSquare, SquareAt, FileOf, RankOf, RelRank, Color, White, Black, Square
<1> QED BY <1>1 DEF KingTo, RookTo, Side

\* A castling that is generated has a side, and nothing is in its way.
LEMMA CastlingIs ==
  ASSUME NEW p, Sound(p), NEW m, CastlingMove(p, m)
  PROVE  \E side \in Side : Castles(p, m, side)
<1> DEFINE k == OwnKing(p)
           c == p.stm
<1>1. PICK t \in CastleMoves(p, c, Seen(p), LinePins(p)) : m = Move(k, t, "castling", "n") /\ Check(p).checks = 0
  BY DEF CastlingMove
<1>2. PICK side \in Side :
        /\ t = SquareAt(p.cr[<<c, side>>], RankOf(k))
        /\ BackRank(k, c) /\ p.cr[<<c, side>>] # NoFile
        /\ Occ(p) \cap p.path[<<c, side>>] = {}
        /\ Between[k][KingTo(side, c)] \cap Seen(p) = {}
        /\ ~(p.frc /\ t \in LinePins(p) \cap Us(p, p.stm))
  BY DEF CastleMoves, OwnKing
<1> DEFINE right == <<c, side>>
           kt == KingTo(side, c)
           rt == RookTo(side, c)
<1>3. right \in Right /\ right[1] = c /\ right[2] = side /\ c \in Color /\ k \in Square
  BY Sides DEF Right
<1>4. RightHeld(p, right)
  BY <1>2, <1>3 DEF Sound, RightsHeld
<1>5. /\ t \in Pieces(p, {"r"}, c) /\ (t > k <=> side = "king")
      /\ p.path[right] = PathOf(p, right) /\ (~p.frc => FileOf(k) = 4 /\ p.cr[right] = Corner(side))
  BY <1>2, <1>3, <1>4 DEF RightHeld, OwnKing
<1>6. t \in Square /\ t \in Us(p, c) /\ t \in Occ(p)
  BY <1>5, Sides
<1>7. p.cr[right] \in 0..7 /\ FileOf(t) = p.cr[right] /\ RankOf(t) = RankOf(k)
  <2>1. p.cr \in [Right -> File \cup {NoFile}]
    BY Sides DEF Position
  <2>2. p.cr[right] \in 0..7
    BY <1>2, <1>3, <2>1 DEF File
  <2> HIDE DEF right, k
  <2> QED BY <1>2, <1>3, <2>2, SquareOf, Coordinates DEF right
<1>8. kt \in Square /\ rt \in Square /\ RankOf(kt) = RelRank(0, c) /\ RankOf(rt) = RelRank(0, c)
      /\ FileOf(kt) = (IF side = "king" THEN 6 ELSE 2) /\ FileOf(rt) = IF side = "king" THEN 5 ELSE 3
  BY <1>3, HomeSquares
<1>9. t # k
  <2>1. k \notin Pieces(p, {"r"}, c)
    BY <1>3, Sides, KingStands DEF OwnKing
  <2> QED BY <1>5, <2>1
<1>10. p.path[right] = (Between[t][rt] \cup Between[k][kt]) \ {k, t}
  BY <1>2, <1>3, <1>5 DEF PathOf, OwnKing
<1>11. ASSUME NEW u \in Occ(p), u # k, u # t
       PROVE  u # kt /\ u # rt /\ ~Amid(k, u, kt) /\ ~Amid(t, u, rt)
  <2>1. u \in Square
    BY Sides
  <2>2. u \notin Between[t][rt] /\ u \notin Between[k][kt]
    BY <1>2, <1>10, <1>11
  <2> HIDE DEF kt, rt, k
  <2> QED BY <1>3, <1>6, <1>8, <2>1, <2>2, BetweenIs
<1>12. kt \notin Seen(p)
  <2> HIDE DEF k, kt
  <2>1. kt \in Between[k][kt]
    BY <1>3, <1>8, BetweenIs
  <2> QED BY <1>2, <2>1 DEF kt
<1>13. IF side = "king" THEN FileOf(t) > FileOf(k) ELSE FileOf(t) < FileOf(k)
  <2>1. t = FileOf(t) + 8 * RankOf(t) /\ k = FileOf(k) + 8 * RankOf(k)
        /\ FileOf(t) \in 0..7 /\ FileOf(k) \in 0..7 /\ RankOf(k) \in 0..7
    BY <1>3, <1>6, Coordinates
  <2> HIDE DEF k
  <2> QED BY <1>5, <1>7, <1>9, <2>1
<1>14. m.kind = "castling" /\ m.from = k /\ m.to = t /\ m.promo = "n"
  BY <1>1 DEF Move
<1>15. CastledTo(m) = side
  BY <1>5, <1>14 DEF CastledTo, KingSideIf, Side
<1>16. p.frc => t \notin LinePins(p)
  BY <1>2, <1>6
<1>17. RankOf(k) = RelRank(0, c)
  BY <1>2 DEF BackRank
<1>18. Castles(p, m, side)
  <2> HIDE DEF k, kt, rt
  <2>1. Exchanges(p, m, side)
    BY <1>1, <1>5, <1>6, <1>7, <1>8, <1>9, <1>11, <1>13, <1>14, <1>15, <1>17 DEF Exchanges, k, kt, rt
  <2> QED BY <1>1, <1>2, <1>5, <1>7, <1>12, <1>14, <1>16, <2>1 DEF Castles, k, kt
<1> QED BY <1>18

\* q is p after castling the king to kt and the rook on m.to to rt.
AfterCastling(p, m, q, kt, rt) ==
  LET k == OwnKing(p)
  IN /\ q.board \in Boards /\ q.stm = Other(p.stm)
     /\ \A u : u \in Occ(q) <=> (u \in Occ(p) /\ u # k /\ u # m.to) \/ u = kt \/ u = rt
     /\ q.board[kt] = <<p.stm, "k">> /\ q.board[rt] = <<p.stm, "r">>
     /\ \A u \in Occ(p) : u # k /\ u # m.to => q.board[u] = p.board[u] /\ u # kt /\ u # rt
     /\ q.ep = EpAfter(p, m) /\ q.frc = p.frc /\ q.path = p.path
     /\ q.cr = [right \in Right |-> IF right \in RightsLost(p, m) THEN NoFile ELSE p.cr[right]]
     /\ q \in [board : {q.board}, stm : {q.stm}, ep : {q.ep}, frc : {q.frc}, cr : {q.cr}, path : {q.path}]
     /\ \A types : Pieces(q, types, Other(p.stm)) = Pieces(p, types, Other(p.stm))
     /\ \A types, s : s \in Pieces(q, types, p.stm) <=>
          \/ s \in Pieces(p, types, p.stm) /\ s # k /\ s # m.to
          \/ s = kt /\ "k" \in types
          \/ s = rt /\ "r" \in types

\* The position after castling, where king and rook may change places.
LEMMA MadeCastle ==
  ASSUME NEW p, Sound(p), NEW m, NEW side \in Side, Exchanges(p, m, side)
  PROVE  AfterCastling(p, m, MakeMove(p, m), KingTo(side, p.stm), RookTo(side, p.stm))
<1> DEFINE q == MakeMove(p, m)
           k == OwnKing(p)
           c == p.stm
           e == Other(p.stm)
           kt == KingTo(side, c)
           rt == RookTo(side, c)
           new == Moved(p, m)
           squares == Occ(p) \ Left(p, m)
<1>1. /\ q.board = Placed(new, p.board, squares) /\ q.stm = e
      /\ q.ep = EpAfter(p, m) /\ q.frc = p.frc /\ q.path = p.path
      /\ q.cr = [right \in Right |-> IF right \in RightsLost(p, m) THEN NoFile ELSE p.cr[right]]
      /\ q \in [board : {q.board}, stm : {q.stm}, ep : {q.ep}, frc : {q.frc}, cr : {q.cr}, path : {q.path}]
  <2> DEFINE r == [right \in Right |-> IF right \in RightsLost(p, m) THEN NoFile ELSE p.cr[right]]
             b == Placed(new, p.board, squares)
  <2>1. q = [p EXCEPT !.board = b, !.stm = Other(p.stm), !.ep = EpAfter(p, m), !.cr = r]
    BY DEF MakeMove
  <2>0. p \in Position
    BY Sides
  <2> HIDE DEF q, b, r
  <2>2. q.board = b /\ q.stm = Other(p.stm) /\ q.ep = EpAfter(p, m) /\ q.cr = r /\ q.frc = p.frc /\ q.path = p.path
    BY <2>0, <2>1, Refielded
  <2>3. q \in [board : {q.board}, stm : {q.stm}, ep : {q.ep}, frc : {q.frc}, cr : {q.cr}, path : {q.path}]
    BY <2>0, <2>1, Refielded
  <2> QED BY <2>2, <2>3 DEF b, r
<1>2. /\ m.kind = "castling" /\ m.from = k /\ m.to \in Pieces(p, {"r"}, c) /\ m.to # k /\ CastledTo(m) = side
      /\ kt \in Square /\ rt \in Square /\ FileOf(kt) # FileOf(rt)
      /\ \A u \in Occ(p) : u # k /\ u # m.to => u # kt /\ u # rt
  BY DEF Exchanges
<1>3. new = [s \in {kt, rt} |-> <<c, IF s = kt THEN "k" ELSE "r">>]
  BY <1>2 DEF Moved
<1>4. k \in Us(p, c) /\ m.to \in Us(p, c) /\ c \in Color /\ e \in Color /\ c # e /\ p \in Position
      /\ k \in Occ(p) /\ m.to \in Occ(p)
  BY <1>2, Sides
<1>5. squares = Occ(p) \ {k, m.to}
  BY <1>2, <1>4 DEF Left
<1>6. q.board = [s \in {kt, rt} \cup squares |-> IF s \in {kt, rt} THEN <<c, IF s = kt THEN "k" ELSE "r">> ELSE p.board[s]]
  <2> HIDE DEF q, squares, kt, rt
  <2> QED BY <1>1, <1>3 DEF Placed
<1>7. Occ(q) = {kt, rt} \cup squares
  BY <1>6 DEF Occ
<1> HIDE DEF q, squares, kt, rt, k, c, e
<1>8. q.board[kt] = <<c, "k">> /\ q.board[rt] = <<c, "r">>
  BY <1>2, <1>6
<1>9. ASSUME NEW u \in Occ(p), u # k, u # m.to PROVE q.board[u] = p.board[u] /\ u # kt /\ u # rt
  <2>1. u \notin {kt, rt} /\ u \in squares
    BY <1>2, <1>5, <1>9
  <2> QED BY <1>6, <2>1
<1>10. q.board \in Boards
  <2>1. Occ(p) \subseteq Square /\ p.board \in [Occ(p) -> Piece]
    BY <1>4, PositionTypes
  <2>2. {kt, rt} \cup squares \in SUBSET Square
    BY <1>2, <1>5, <2>1
  <2>3. \A s \in squares : p.board[s] \in Piece
    BY <1>5, <2>1
  <2>4. <<c, "k">> \in Piece /\ <<c, "r">> \in Piece
    BY <1>4 DEF Piece, Type
  <2>5. q.board \in [{kt, rt} \cup squares -> Piece]
    BY <1>6, <2>3, <2>4
  <2> QED BY <2>2, <2>5 DEF Boards
<1>11. ASSUME NEW types PROVE Pieces(q, types, e) = Pieces(p, types, e)
  <2>1. \A s : s \in Pieces(q, types, e) <=> s \in Pieces(p, types, e)
    <3>1. ColorOf(p.board[k]) = c /\ ColorOf(p.board[m.to]) = c
      BY <1>4 DEF Us
    <3>2. ColorOf(q.board[kt]) = c /\ ColorOf(q.board[rt]) = c
      BY <1>8 DEF ColorOf
    <3> QED BY <1>4, <1>5, <1>7, <1>9, <3>1, <3>2 DEF Pieces
  <2> QED BY <2>1
<1>12. ASSUME NEW types, NEW s
       PROVE  s \in Pieces(q, types, c) <=>
          \/ s \in Pieces(p, types, c) /\ s # k /\ s # m.to
          \/ s = kt /\ "k" \in types
          \/ s = rt /\ "r" \in types
  <2>1. /\ ColorOf(q.board[kt]) = c /\ ColorOf(q.board[rt]) = c
        /\ TypeOf(q.board[kt]) = "k" /\ TypeOf(q.board[rt]) = "r"
    BY <1>8 DEF ColorOf, TypeOf
  <2> QED BY <1>4, <1>5, <1>7, <1>9, <2>1 DEF Pieces
<1>13. \A u : u \in Occ(q) <=> (u \in Occ(p) /\ u # k /\ u # m.to) \/ u = kt \/ u = rt
  BY <1>5, <1>7
<1> QED BY <1>1, <1>8, <1>9, <1>10, <1>11, <1>12, <1>13 DEF q, k, c, e, kt, rt, AfterCastling

\* The king's home and the way to it are seen without the shortcut.
LEMMA NoShortcut ==
  ASSUME NEW p, Sound(p), NEW m, NEW side \in Side, Castles(p, m, side)
  PROVE  KingAttacks[OwnKing(p)] \cap (Square \ Us(p, p.stm)) # {} \/ p.frc
<1> DEFINE k == OwnKing(p)
           rt == RookTo(side, p.stm)
<1>1. SUFFICES ASSUME ~p.frc PROVE rt \in KingAttacks[k] /\ rt \in Square \ Us(p, p.stm)
  BY Zenon
<1>2. /\ FileOf(k) = 4 /\ FileOf(m.to) = Corner(side) /\ rt \in Square /\ RankOf(rt) = RankOf(k)
      /\ FileOf(rt) = (IF side = "king" THEN 5 ELSE 3)
      /\ \A u \in Occ(p) : u # k /\ u # m.to => u # rt
  BY <1>1 DEF Castles, Exchanges
<1>3. k \in Square /\ Us(p, p.stm) \subseteq Occ(p)
  BY Sides
<1>4. rt # k /\ rt # m.to
  BY <1>2 DEF Corner
<1>5. KingStep(k, rt)
  <2>1. RankOf(rt) - RankOf(k) = 0
    BY <1>2, <1>3, Coordinates
  <2> HIDE DEF k, rt
  <2> QED BY <1>2, <2>1 DEF KingStep
<1> QED BY <1>2, <1>3, <1>4, <1>5, KingSees

\* The king is not attacked after castling, the rook that has left being no shelter.
LEMMA CastleSafe ==
  ASSUME NEW p, Sound(p), NEW m, NEW side \in Side, Castles(p, m, side)
  PROVE  /\ Safe(p, m) /\ Pieces(MakeMove(p, m), {"k"}, p.stm) = {KingTo(side, p.stm)}
         /\ \A a \in Square : ~Hits(MakeMove(p, m), Other(p.stm), a, KingTo(side, p.stm))
<1> DEFINE q == MakeMove(p, m)
           k == OwnKing(p)
           c == p.stm
           e == Other(p.stm)
           r == m.to
           kt == KingTo(side, c)
           rt == RookTo(side, c)
<1>1. /\ \A u : u \in Occ(q) <=> (u \in Occ(p) /\ u # k /\ u # r) \/ u = kt \/ u = rt
      /\ \A types : Pieces(q, types, e) = Pieces(p, types, e)
      /\ \A types, s : s \in Pieces(q, types, c) <=>
                 \/ s \in Pieces(p, types, c) /\ s # k /\ s # r
                 \/ s = kt /\ "k" \in types
                 \/ s = rt /\ "r" \in types
      /\ q.stm = e
  <2>1. AfterCastling(p, m, q, kt, rt)
    BY MadeCastle DEF Castles
  <2> HIDE DEF q, kt, rt
  <2> QED BY <2>1 DEF AfterCastling
<1>2. /\ k \in Square /\ Pieces(p, {"k"}, c) = {k} /\ Occ(p) \subseteq Square
      /\ Us(p, e) \subseteq Occ(p) /\ Us(p, c) \cap Us(p, e) = {} /\ k \in Us(p, c)
      /\ \A types : Pieces(p, types, e) \subseteq Us(p, e) /\ Pieces(p, types, c) \subseteq Us(p, c)
  <2>1. Pieces(p, {"k"}, c) = {k}
    BY Sides DEF OneKing, OwnKing
  <2> QED BY <2>1, Sides
<1>3. /\ r \in Square /\ r \in Us(p, c) /\ r # k
      /\ RankOf(r) = RankOf(k) /\ kt \in Square /\ rt \in Square /\ RankOf(kt) = RankOf(k) /\ RankOf(rt) = RankOf(k)
      /\ FileOf(kt) = (IF side = "king" THEN 6 ELSE 2)
      /\ FileOf(rt) = (IF side = "king" THEN 5 ELSE 3)
      /\ IF side = "king" THEN FileOf(r) > FileOf(k) ELSE FileOf(r) < FileOf(k)
      /\ kt \notin Seen(p)
  BY <1>2 DEF Castles, Exchanges
<1>4. \A u \in Occ(p) : u # k /\ u # r => u # kt /\ u # rt /\ ~Amid(k, u, kt) /\ ~Amid(r, u, rt)
  BY DEF Castles, Exchanges
<1>5. Pieces(q, {"k"}, c) = {kt}
  <2> HIDE DEF q
  <2> QED BY <1>1, <1>2
<1>6. ASSUME NEW a \in Square, Aims(p, e, a, kt), Clear(kt, a, Occ(q)), ~Clear(kt, a, Occ(p) \ {k})
      PROVE  FALSE
  <2>1. PICK u \in (Occ(p) \ {k}) \cap Square : Amid(kt, u, a)
    BY <1>6 DEF Clear
  <2>2. Amid(kt, r, a)
    <3> HIDE DEF q, k, r
    <3> QED BY <1>1, <1>6, <2>1 DEF Clear
  <2>3. ~Amid(kt, rt, a)
    BY <1>1, <1>3, <1>6 DEF Clear
  <2>4. a \in Us(p, e) /\ a # k /\ a # r /\ a # rt /\ a # kt
    <3>1. a \in Us(p, e)
      BY <1>2, <1>6 DEF Aims
    <3> QED BY <1>2, <1>3, <1>4, <3>1
  <2>5. /\ FileOf(k) \in 0..7 /\ FileOf(r) \in 0..7 /\ FileOf(a) \in 0..7 /\ FileOf(kt) \in 0..7 /\ FileOf(rt) \in 0..7
        /\ RankOf(k) \in 0..7 /\ RankOf(r) \in 0..7 /\ RankOf(a) \in 0..7 /\ RankOf(kt) \in 0..7
        /\ RankOf(rt) \in 0..7
    BY <1>2, <1>3, Coordinates
  <2>6. FileOf(a) # FileOf(rt) \/ RankOf(a) # RankOf(rt)
    BY <1>3, <2>4, SameSquare
  <2> HIDE DEF k, r, kt, rt, c, e
  <2>7. RankOf(a) = RankOf(k) /\ Up(FileOf(kt), FileOf(r), FileOf(a)) /\ FileOf(r) # FileOf(kt)
    BY <1>3, <2>2, <2>5, SMTT(60) DEF Amid, Up
  <2>8. ~Up(FileOf(kt), FileOf(rt), FileOf(a))
    BY <1>3, <2>3, <2>7 DEF Amid
  <2>9. side # "king" /\ FileOf(r) = 1 /\ FileOf(a) = 0
    BY <1>3, <2>5, <2>6, <2>7, <2>8, SMTT(60) DEF Up
  <2>10. r \notin LinePins(p)
    <3>1. p.frc
      <4>1. ~p.frc => FileOf(r) = Corner(side)
        BY DEF Castles, Exchanges, r
      <4> QED BY <2>9, <4>1 DEF Corner
    <3> QED BY <3>1 DEF Castles, Exchanges, r
  <2>11. Orth(k, a) /\ ~Diag(k, a) /\ Amid(k, r, a) /\ ~Diag(kt, a)
    BY <1>3, <2>5, <2>7, <2>9, SMTT(60) DEF Orth, Diag, Amid, Up
  <2>12. Aims(p, e, a, k)
    BY <1>6, <2>11 DEF Aims
  <2>13. Clear(k, a, Occ(p) \ {r})
    <3>1. SUFFICES ASSUME NEW v \in Occ(p), v # r, v \in Square, Amid(k, v, a) PROVE FALSE
      BY DEF Clear
    <3>2. FileOf(v) \in 0..7 /\ RankOf(v) \in 0..7
      BY <3>1, Coordinates
    <3>3. RankOf(v) = RankOf(k) /\ FileOf(v) > 0 /\ FileOf(v) < FileOf(k)
      BY <1>3, <2>5, <2>7, <2>9, <3>1, <3>2, SMTT(60) DEF Amid, Up
    <3>4. FileOf(v) # 1
      BY <1>3, <2>9, <3>1, <3>3, SameSquare
    <3>5. v # kt /\ ~Amid(k, v, kt)
      BY <1>4, <3>1, <3>3, <2>5 DEF k, r, kt, rt, c
    <3>6. FileOf(v) # 2
      BY <1>3, <2>9, <3>1, <3>3, <3>5, SameSquare
    <3> QED BY <1>3, <2>5, <2>9, <3>2, <3>3, <3>4, <3>5, <3>6, SMTT(60) DEF Amid, Up
  <2>14. \/ r \in DiagPins(p) /\ Diag(k, a)
         \/ r \in LinePins(p) /\ Orth(k, a)
    BY <1>3, <2>11, <2>12, <2>13, Alone DEF k, c, e
  <2> QED BY <2>10, <2>11, <2>14
<1>7. ASSUME NEW a \in Square PROVE ~Hits(q, e, a, kt)
  <2>1. /\ ~(a \in Pieces(p, {"p"}, e) /\ PawnStep(e, a, kt))
        /\ ~(a \in Pieces(p, {"n"}, e) /\ KnightStep(a, kt))
        /\ ~(a \in Pieces(p, {"k"}, e) /\ KingStep(a, kt))
        /\ ~(Aims(p, e, a, kt) /\ Clear(kt, a, Occ(p) \ {k}))
    BY <1>3, SeenIs, NoShortcut
  <2>2. Aims(q, e, a, kt) => Aims(p, e, a, kt)
    BY <1>1 DEF Aims
  <2>3. ~(Aims(p, e, a, kt) /\ Clear(kt, a, Occ(q)))
    BY <1>6, <2>1
  <2> HIDE DEF q, kt
  <2> QED BY <1>1, <2>1, <2>2, <2>3, HitsBy
<1>8. Occ(q) \subseteq Square
  BY <1>1, <1>2, <1>3
<1> QED BY <1>1, <1>3, <1>5, <1>7, <1>8, SafeIs

\* A legal move leaves the king where nothing hits it.
LEMMA LegalSafe ==
  ASSUME NEW p, Sound(p), NEW m \in LegalMoves(p)
  PROVE  /\ Safe(p, m)
         /\ \E k \in Square : /\ Pieces(MakeMove(p, m), {"k"}, p.stm) = {k}
                              /\ \A a \in Square : ~Hits(MakeMove(p, m), Other(p.stm), a, k)
<1>1. KingMove(p, m) \/ CastlingMove(p, m) \/ (Check(p).checks # 2 /\ OtherMove(p, m))
  <2>1. p.ep \in Int /\ p.stm \in Color /\ Pieces(p, {"p"}, p.stm) \in SUBSET Int
    BY Sides, PositionTypes DEF Square
  <2> QED BY <2>1, LegalShape
<1>2. CASE KingMove(p, m)
  <2>1. m.to \in Square
    BY <1>2, KingOrdinary
  <2> QED BY <1>2, <2>1, KingSafe
<1>3. CASE CastlingMove(p, m)
  <2>1. PICK side \in Side : Castles(p, m, side)
    BY <1>3, CastlingIs
  <2>2. KingTo(side, p.stm) \in Square
    BY Sides, HomeSquares
  <2> QED BY <2>1, <2>2, CastleSafe
<1>4. CASE Check(p).checks # 2 /\ OtherMove(p, m)
  <2>1. OwnKing(p) \in Square
    BY Sides
  <2> QED BY <1>4, <2>1, OtherSafe
<1> QED BY <1>1, <1>2, <1>3, <1>4

OtherKing(p) == KingSq(p, Other(p.stm))

\* What the rest of the game needs to know of a move other than castling.
Pushed2(p, s, t) ==
  /\ FileOf(t) = FileOf(s) /\ RankOf(t) = RankOf(s) + 2 * Up1(p.stm) /\ RankOf(s) = RelRank(1, p.stm)
  /\ t \notin Occ(p) /\ t \in Square /\ EpSquare(t) \in Square /\ EpSquare(t) \notin Occ(p)
  /\ EpSquare(EpSquare(t)) = t /\ RankOf(EpSquare(t)) = RelRank(5, Other(p.stm)) /\ EpSquare(t) # t
Travels(p, m) ==
  /\ Ordinary(p, m) /\ m.from \in Square /\ m.to # OtherKing(p)
  /\ m.kind = "promotion" =>
       \/ PawnStep(p.stm, m.from, m.to)
       \/ FileOf(m.to) = FileOf(m.from) /\ RankOf(m.to) = RankOf(m.from) + Up1(p.stm)
  /\ m.kind = "enpassant" =>
       /\ PawnStep(p.stm, m.from, m.to) /\ m.to = p.ep /\ p.ep # NoSq
       /\ EpSquare(m.to) \in Pieces(p, {"p"}, Other(p.stm)) /\ EpSquare(m.to) \in Square
       /\ FileOf(EpSquare(m.to)) = FileOf(m.to) /\ RankOf(EpSquare(m.to)) = RankOf(m.to) - Up1(p.stm)
  /\ TypeOf(p.board[m.from]) = "p" /\ m.kind # "promotion" => RankOf(m.to) \notin {0, 7}
  /\ TypeOf(p.board[m.from]) = "p" /\ Size(m.to - m.from) = 16 => m.kind = "normal" /\ Pushed2(p, m.from, m.to)

\* What moves of the king, pieces and pawns have in common (Travels), for the king.
LEMMA KingTravels ==
  ASSUME NEW p, Sound(p), NEW m, KingMove(p, m)
  PROVE  Travels(p, m)
<1>1. Ordinary(p, m) /\ m.kind = "normal" /\ m.from = OwnKing(p) /\ KingStep(OwnKing(p), m.to)
  BY KingOrdinary
<1>2. OwnKing(p) \in Pieces(p, {"k"}, p.stm) /\ OwnKing(p) \in Square
  BY Sides DEF OneKing, OwnKing
<1>3. m.to # OtherKing(p)
  <2>1. ~KingStep(OwnKing(p), OtherKing(p))
    BY <1>2 DEF Sound, Calm, Hits, OtherKing
  <2> QED BY <1>1, <2>1
<1>4. TypeOf(p.board[m.from]) = "k"
  BY <1>1, <1>2 DEF Pieces
<1> QED BY <1>1, <1>2, <1>3, <1>4 DEF Travels

\* The same for the pieces.
LEMMA PieceTravels ==
  ASSUME NEW p, Sound(p), NEW m, OtherMove(p, m), PieceMoves(p, m)
  PROVE  Travels(p, m)
<1> DEFINE s == m.from
           t == m.to
           c == p.stm
<1>1. Ordinary(p, m) /\ m.kind = "normal" /\ s \in Square /\ t \in Square /\ PieceTo(p, s, t)
  BY OtherOrdinary DEF PieceMoves
<1>2. c \in Color
  BY Sides
<1>3. Hits(p, c, s, t) /\ TypeOf(p.board[s]) # "p"
  <2>1. ASSUME t \in BishopAttacks(s, Occ(p)) PROVE Diag(t, s) /\ Clear(t, s, Occ(p))
    BY <1>1, <2>1, BishopSees, StepsBack, ClearBack
  <2>2. ASSUME t \in RookAttacks(s, Occ(p)) PROVE Orth(t, s) /\ Clear(t, s, Occ(p))
    BY <1>1, <2>2, RookSees, StepsBack, ClearBack
  <2> HIDE DEF s, t
  <2>3. CASE s \in Pieces(p, {"n"}, c) /\ t \in KnightAttacks[s]
    BY <1>1, <2>3, KnightSees DEF Hits, Pieces
  <2>4. CASE s \in Pieces(p, {"b"}, c) /\ t \in BishopMoves(p, s, DiagPins(p))
    <3>1. t \in BishopAttacks(s, Occ(p)) /\ s \in Pieces(p, {"b", "q"}, c)
      BY <2>4 DEF BishopMoves, Pieces
    <3> QED BY <2>1, <2>4, <3>1 DEF Hits, Pieces
  <2>5. CASE s \in Pieces(p, {"r"}, c) /\ t \in RookMoves(p, s, LinePins(p))
    <3>1. t \in RookAttacks(s, Occ(p)) /\ s \in Pieces(p, {"r", "q"}, c)
      BY <2>5 DEF RookMoves, Pieces
    <3> QED BY <2>2, <2>5, <3>1 DEF Hits, Pieces
  <2>6. CASE s \in Pieces(p, {"q"}, c) /\ t \in QueenMoves(p, s, DiagPins(p), LinePins(p))
    <3>1. s \in Pieces(p, {"r", "q"}, c) /\ s \in Pieces(p, {"b", "q"}, c)
      BY <2>6 DEF Pieces
    <3>2. t \in BishopAttacks(s, Occ(p)) \/ t \in RookAttacks(s, Occ(p))
      <4>1. CASE s \in DiagPins(p)
        BY <2>6, <4>1 DEF QueenMoves
      <4>2. CASE s \in LinePins(p) \ DiagPins(p)
        <5>1. QueenMoves(p, s, DiagPins(p), LinePins(p)) = RookAttacks(s, Occ(p)) \cap LinePins(p)
          BY <4>2 DEF QueenMoves
        <5> QED BY <2>6, <5>1
      <4>3. CASE s \notin DiagPins(p) /\ s \notin LinePins(p)
        <5>1. QueenMoves(p, s, DiagPins(p), LinePins(p)) = QueenAttacks(s, Occ(p))
          BY <4>3 DEF QueenMoves
        <5> QED BY <2>6, <5>1 DEF QueenAttacks
      <4> QED BY <4>1, <4>2, <4>3
    <3> QED BY <2>1, <2>2, <2>6, <3>1, <3>2 DEF Hits, Pieces
  <2> QED BY <1>1, <2>3, <2>4, <2>5, <2>6 DEF PieceTo
<1>4. t # OtherKing(p)
  BY <1>1, <1>3 DEF Sound, Calm, OtherKing
<1> QED BY <1>1, <1>3, <1>4 DEF Travels

\* A push by two, in the words of EpHeld.
LEMMA PushedIs ==
  ASSUME NEW p, Sound(p), NEW s \in Square, NEW t \in Square, t \notin Occ(p),
         FileOf(t) = FileOf(s), RankOf(t) = RankOf(s) + 2 * Up1(p.stm), RankOf(s) = RelRank(1, p.stm),
         NEW u \in Square, u \notin Occ(p), FileOf(u) = FileOf(s), RankOf(u) = RankOf(s) + Up1(p.stm)
  PROVE  Pushed2(p, s, t)
<1>1. p.stm \in Color
  BY Sides
<1>2. /\ RankOf(t) \in 2..5 /\ RankOf(u) = RelRank(5, Other(p.stm))
      /\ RankOf(u) = IF RankOf(t) % 2 = 0 THEN RankOf(t) + 1 ELSE RankOf(t) - 1
  <2>1. CASE p.stm = White
    <3>1. RankOf(s) = 1 /\ RankOf(t) = 3 /\ RankOf(u) = 2
      BY <2>1 DEF RelRank, Up1
    <3> QED BY <2>1, <3>1 DEF RelRank, Other, White
  <2>2. CASE p.stm = Black
    <3>1. RankOf(s) = 6 /\ RankOf(t) = 4 /\ RankOf(u) = 5
      BY <2>2 DEF RelRank, Up1, White, Black
    <3> QED BY <2>2, <3>1 DEF RelRank, Other, White, Black
  <2> QED BY <1>1, <2>1, <2>2 DEF Color
<1>3. EpSquare(t) = u /\ EpSquare(u) = t
  BY <1>2, EpSquareIs, SameSquare
<1>4. u # t
  <2>1. Up1(p.stm) \in {1, -1} /\ RankOf(s) \in 0..7
    BY Coordinates DEF Up1
  <2> QED BY <2>1
<1> QED BY <1>2, <1>3, <1>4 DEF Pushed2

\* The same for the pawns.
LEMMA PawnTravels ==
  ASSUME NEW p, Sound(p), NEW m, OtherMove(p, m), PawnMoves1(p, m)
  PROVE  Travels(p, m)
<1> DEFINE s == m.from
           t == m.to
           c == p.stm
<1>1. /\ Ordinary(p, m) /\ s \in Square /\ t \in Square /\ s \in Pieces(p, {"p"}, c) /\ PawnTo(p, s, t)
      /\ m.kind = IF RankOf(t) = RelRank(7, c) THEN "promotion" ELSE "normal"
  BY OtherOrdinary DEF PawnMoves1, Ordinary
<1>2. c \in Color /\ OtherKing(p) \in Us(p, Other(c)) /\ OtherKing(p) \in Occ(p) /\ s \in Occ(p)
      /\ s = FileOf(s) + 8 * RankOf(s) /\ t = FileOf(t) + 8 * RankOf(t)
      /\ FileOf(s) \in 0..7 /\ RankOf(s) \in 0..7 /\ FileOf(t) \in 0..7 /\ RankOf(t) \in 0..7
  BY <1>1, Sides, Coordinates DEF OtherKing, Pieces
<1>3. RankOf(s) \notin {0, 7} /\ TypeOf(p.board[s]) = "p"
  BY <1>1, <1>2 DEF Sound, PawnsInside, Pieces
<1>4. \/ c = White /\ Up1(c) = 1 /\ RelRank(7, c) = 7
      \/ c = Black /\ Up1(c) = -1 /\ RelRank(7, c) = 0
  BY <1>2 DEF Color, Up1, RelRank, White, Black
<1>5. CASE PawnTakes(p, s, t) /\ PawnStep(c, s, t)
  <2>1. t # OtherKing(p)
    BY <1>1, <1>5 DEF Sound, Calm, OtherKing, Hits
  <2> HIDE DEF s, t, c
  <2>2. Size(t - s) # 16
    BY <1>2, <1>4, <1>5 DEF PawnStep, Size
  <2>3. RankOf(t) # RelRank(7, c) => RankOf(t) \notin {0, 7}
    BY <1>2, <1>3, <1>4, <1>5 DEF PawnStep
  <2> QED BY <1>1, <1>3, <1>5, <2>1, <2>2, <2>3 DEF Travels, s, t, c
<1>6. CASE FileOf(t) = FileOf(s) /\ RankOf(t) = RankOf(s) + Up1(c) /\ t \notin Occ(p)
  <2> HIDE DEF s, t, c
  <2>2. Size(t - s) # 16
    BY <1>2, <1>4, <1>6 DEF Size
  <2>3. RankOf(t) # RelRank(7, c) => RankOf(t) \notin {0, 7}
    BY <1>2, <1>3, <1>4, <1>6
  <2> QED BY <1>1, <1>2, <1>3, <1>6, <2>2, <2>3 DEF Travels, s, t, c
<1>7. CASE /\ FileOf(t) = FileOf(s) /\ RankOf(t) = RankOf(s) + 2 * Up1(c) /\ RankOf(s) = RelRank(1, c)
           /\ t \notin Occ(p)
           /\ \E u \in Square : /\ PawnPush(p, s, u) /\ u \notin Occ(p) /\ FileOf(u) = FileOf(s)
                                /\ RankOf(u) = RankOf(s) + Up1(c)
  <2>1. Pushed2(p, s, t)
    BY <1>1, <1>7, PushedIs
  <2> HIDE DEF s, t, c
  <2>2. RankOf(t) \notin {0, 7} /\ RankOf(t) # RelRank(7, c)
    BY <1>2, <1>4, <1>7 DEF RelRank, White, Black
  <2> QED BY <1>1, <1>2, <1>7, <2>1, <2>2 DEF Travels, s, t, c
<1> QED BY <1>1, <1>5, <1>6, <1>7, PawnReach

\* The same for a capture en passant.
LEMMA EpTravels ==
  ASSUME NEW p, Sound(p), NEW m, OtherMove(p, m), EpMoves1(p, m)
  PROVE  Travels(p, m)
<1> DEFINE s == m.from
           t == m.to
           c == p.stm
<1>1. Ordinary(p, m) /\ s \in Square /\ m.kind = "enpassant" /\ p.ep # NoSq /\ t = p.ep /\ PawnStep(c, s, t)
  BY OtherOrdinary DEF EpMoves1
<1>2. /\ t \in Square /\ t \notin Occ(p) /\ RankOf(t) = RelRank(5, c)
      /\ EpSquare(t) \in Pieces(p, {"p"}, Other(c))
      /\ EpSquare(t) \in Square /\ FileOf(EpSquare(t)) = FileOf(t)
      /\ RankOf(EpSquare(t)) = RankOf(t) - Up1(c)
  BY <1>1, EpFacts
<1>3. c \in Color /\ OtherKing(p) \in Occ(p)
  BY Sides DEF OtherKing
<1>4. RankOf(t) \notin {0, 7}
  BY <1>2, <1>3 DEF RelRank, Color, White, Black
<1>5. /\ s = FileOf(s) + 8 * RankOf(s) /\ t = FileOf(t) + 8 * RankOf(t)
      /\ FileOf(s) \in 0..7 /\ RankOf(s) \in 0..7 /\ FileOf(t) \in 0..7 /\ RankOf(t) \in 0..7
  BY <1>1, <1>2, Coordinates
<1>6. Up1(c) \in {1, -1}
  BY DEF Up1
<1> HIDE DEF s, t, c
<1>7. Size(t - s) # 16
  BY <1>1, <1>5, <1>6 DEF PawnStep, Size
<1> QED BY <1>1, <1>2, <1>3, <1>4, <1>7 DEF Travels, s, t, c

\* For every move that is neither of the king nor a castling.
LEMMA OtherTravels ==
  ASSUME NEW p, Sound(p), NEW m, OtherMove(p, m)
  PROVE  Travels(p, m)
BY OtherIs, PieceTravels, PawnTravels, EpTravels

\* An en passant square is left by a push by two only.
LEMMA EpAfterIs ==
  ASSUME NEW p, NEW m, Travels(p, m), EpAfter(p, m) # NoSq
  PROVE  /\ EpAfter(p, m) = EpSquare(m.to) /\ Pushed2(p, m.from, m.to) /\ m.kind = "normal"
         /\ TypeOf(p.board[m.from]) = "p"
<1>1. /\ IsPawn(p, m.from) /\ Size(m.to - m.from) = 16 /\ EpAfter(p, m) = EpSquare(m.to)
  BY DEF EpAfter
<1> QED BY <1>1 DEF Travels, IsPawn

\* Fields in their sets make a position.
LEMMA Assembled ==
  ASSUME NEW q, q \in [board : {q.board}, stm : {q.stm}, ep : {q.ep}, frc : {q.frc}, cr : {q.cr}, path : {q.path}],
         q.board \in Boards, q.stm \in Color, q.ep \in Square \cup {NoSq}, q.frc \in BOOLEAN,
         q.cr \in [Right -> File \cup {NoFile}], q.path \in [Right -> SUBSET Square]
  PROVE  q \in Position
BY DEF Position

\* Taking rights away leaves rights.
LEMMA CastlingKept ==
  ASSUME NEW p \in Position, NEW S
  PROVE  [right \in Right |-> IF right \in S THEN NoFile ELSE p.cr[right]] \in [Right -> File \cup {NoFile}]
<1>1. p.cr \in [Right -> File \cup {NoFile}]
  BY DEF Position
<1> QED BY <1>1

\* A move leads to a position.
LEMMA MadePosition ==
  ASSUME NEW p, Sound(p), NEW m, Travels(p, m)
  PROVE  MakeMove(p, m) \in Position
<1> DEFINE q == MakeMove(p, m)
           b == q.board
<1>1. p \in Position /\ Ordinary(p, m) /\ Other(p.stm) \in Color
  BY Sides DEF Travels
<1>2. /\ q.board \in Boards /\ q.stm = Other(p.stm)
      /\ q.ep = EpAfter(p, m) /\ q.frc = p.frc /\ q.path = p.path
      /\ q.cr = [right \in Right |-> IF right \in RightsLost(p, m) THEN NoFile ELSE p.cr[right]]
      /\ q \in [board : {q.board}, stm : {q.stm}, ep : {q.ep}, frc : {q.frc}, cr : {q.cr}, path : {q.path}]
  BY <1>1, MadeBoard
<1>3. EpAfter(p, m) \in Square \cup {NoSq}
  BY EpAfterIs DEF Pushed2
<1>4. q.cr \in [Right -> File \cup {NoFile}]
  BY <1>1, <1>2, CastlingKept
<1>5. p.frc \in BOOLEAN /\ p.path \in [Right -> SUBSET Square]
  BY <1>1 DEF Position
<1> HIDE DEF q
<1> QED BY <1>1, <1>2, <1>3, <1>4, <1>5, Assembled DEF q

\* One king of each color, where they are known to be.
LEMMA KingsAre ==
  ASSUME NEW q, NEW c \in Color, NEW k, NEW x, Pieces(q, {"k"}, c) = {k}, Pieces(q, {"k"}, Other(c)) = {x}
  PROVE  OneKing(q) /\ KingSq(q, c) = k /\ KingSq(q, Other(c)) = x
<1>1. KingSq(q, c) = k /\ KingSq(q, Other(c)) = x
  BY SmallestOne DEF KingSq
<1> QED BY <1>1, OtherColor DEF OneKing

\* After a move there is one king each, the other one to move.
LEMMA MadeKings ==
  ASSUME NEW p, Sound(p), NEW m, Travels(p, m), NEW k, Pieces(MakeMove(p, m), {"k"}, p.stm) = {k}
  PROVE  /\ OneKing(MakeMove(p, m)) /\ KingSq(MakeMove(p, m), p.stm) = k
         /\ OwnKing(MakeMove(p, m)) = OtherKing(p) /\ MakeMove(p, m).stm = Other(p.stm)
<1> DEFINE q == MakeMove(p, m)
           x == OtherKing(p)
<1>1. /\ p \in Position /\ Ordinary(p, m) /\ p.stm \in Color /\ x \in Us(p, Other(p.stm)) /\ x # m.to
      /\ Pieces(p, {"k"}, Other(p.stm)) = {x}
  BY Sides DEF Travels, OneKing, OtherKing
<1>2. Pieces(q, {"k"}, Other(p.stm)) = Pieces(p, {"k"}, Other(p.stm)) \ (Gone(m) \cup {m.to})
  BY <1>1, MadePieces
<1>3. q.stm = Other(p.stm)
  BY <1>1, MadeBoard
<1>4. x \notin Gone(m)
  <2>1. m.from \in Us(p, p.stm) /\ Us(p, p.stm) \cap Us(p, Other(p.stm)) = {}
    BY <1>1, Sides DEF Ordinary
  <2>2. m.kind = "enpassant" => EpSquare(m.to) \in Pieces(p, {"p"}, Other(p.stm))
    BY DEF Travels
  <2>3. x \in Pieces(p, {"k"}, Other(p.stm))
    BY <1>1
  <2> HIDE DEF x
  <2> QED BY <1>1, <2>1, <2>2, <2>3 DEF Gone, Pieces
<1>5. Pieces(q, {"k"}, Other(p.stm)) = {x}
  BY <1>1, <1>2, <1>4
<1> HIDE DEF q, x
<1>6. OneKing(q) /\ KingSq(q, p.stm) = k /\ KingSq(q, Other(p.stm)) = x
  BY <1>1, <1>5, KingsAre DEF q
<1> QED BY <1>3, <1>6 DEF q, x, OwnKing

\* No move leaves a pawn on the first or last rank.
LEMMA MadePawns ==
  ASSUME NEW p, Sound(p), NEW m, Travels(p, m)
  PROVE  PawnsInside(MakeMove(p, m))
<1> DEFINE q == MakeMove(p, m)
<1>1. p \in Position /\ Ordinary(p, m)
  BY Sides DEF Travels
<1>2. /\ Occ(q) = (Occ(p) \ Gone(m)) \cup {m.to} /\ q.board[m.to] = Became(p, m)
      /\ \A u \in Occ(p) : u \notin Gone(m) /\ u # m.to => q.board[u] = p.board[u]
  BY <1>1, MadeBoard
<1>3. TypeOf(Became(p, m)) = "p" => RankOf(m.to) \notin {0, 7}
  <2>1. m.kind = "promotion" => TypeOf(Became(p, m)) # "p"
    BY <1>1 DEF Became, TypeOf, Ordinary
  <2>2. m.kind # "promotion" => Became(p, m) = p.board[m.from]
    BY DEF Became
  <2> QED BY <2>1, <2>2 DEF Travels
<1>4. PawnsInside(p)
  BY DEF Sound
<1> HIDE DEF q
<1> QED BY <1>2, <1>3, <1>4 DEF PawnsInside, q

----------------------------------------
(* Checks after a move *)

\* Of two pieces behind a third on one line, one is behind the other.
LEMMA TwoBehind ==
  ASSUME NEW k \in Square, NEW s \in Square, NEW a \in Square, NEW b \in Square,
         Amid(k, s, a), Amid(k, s, b), a # b
  PROVE  Amid(k, a, b) \/ Amid(k, b, a)
<1>1. FileOf(a) # FileOf(b) \/ RankOf(a) # RankOf(b)
  BY SameSquare
<1>2. /\ FileOf(k) \in 0..7 /\ FileOf(s) \in 0..7 /\ FileOf(a) \in 0..7 /\ FileOf(b) \in 0..7
      /\ RankOf(k) \in 0..7 /\ RankOf(s) \in 0..7 /\ RankOf(a) \in 0..7 /\ RankOf(b) \in 0..7
  BY Coordinates
<1> QED BY <1>1, <1>2, SMTT(60) DEF Amid, Up

\* Two squares next to each other on a rank or a file, and a third that cannot
\* see both along diagonals.
LEMMA Neighbors ==
  ASSUME NEW k \in Square, NEW s \in Square, NEW t \in Square,
         \/ RankOf(s) = RankOf(t) /\ FileOf(s) - FileOf(t) \in {-1, 1}
         \/ FileOf(s) = FileOf(t) /\ RankOf(s) - RankOf(t) \in {-1, 1}
  PROVE  ~(Diag(k, s) /\ Diag(k, t))
<1>2. /\ FileOf(k) \in 0..7 /\ FileOf(s) \in 0..7 /\ FileOf(t) \in 0..7
      /\ RankOf(k) \in 0..7 /\ RankOf(s) \in 0..7 /\ RankOf(t) \in 0..7
  BY Coordinates
<1> QED BY <1>2, SMTT(60) DEF Diag

\* A slider that did not move gives check after a move: a square was left.
LEMMA Opened ==
  ASSUME NEW p, Sound(p), NEW m, Travels(p, m), NEW a \in Square, a # m.to,
         Aims(MakeMove(p, m), p.stm, a, OtherKing(p)), Clear(OtherKing(p), a, Occ(MakeMove(p, m)))
  PROVE  /\ Aims(p, p.stm, a, OtherKing(p))
         /\ \E g \in Gone(m) : g \in Square /\ Amid(OtherKing(p), g, a)
<1> DEFINE q == MakeMove(p, m)
           x == OtherKing(p)
           c == p.stm
<1>1. p \in Position /\ Ordinary(p, m) /\ x \in Square
  BY Sides DEF Travels, OtherKing
<1>2. Occ(q) = (Occ(p) \ Gone(m)) \cup {m.to}
  BY <1>1, MadeBoard
<1>3. \A types : a \in Pieces(q, types, c) => a \in Pieces(p, types, c)
  BY <1>1, MadePieces
<1> HIDE DEF q
<1>4. Aims(p, c, a, x)
  BY <1>3 DEF Aims, q
<1>5. ~Clear(x, a, Occ(p))
  <2>1. ~Hits(p, c, a, x)
    BY DEF Sound, Calm, OtherKing
  <2> QED BY <1>4, <2>1, HitsBy
<1>6. PICK u \in Occ(p) \cap Square : Amid(x, u, a)
  BY <1>5 DEF Clear
<1>7. u \in Gone(m)
  BY <1>2, <1>6 DEF Clear, q
<1> QED BY <1>4, <1>6, <1>7

\* Between is transitive.
LEMMA AmidTrans ==
  ASSUME NEW k \in Square, NEW u \in Square, NEW s \in Square, NEW b \in Square, Amid(k, u, s), Amid(k, s, b)
  PROVE  Amid(k, u, b)
<1>2. /\ FileOf(k) \in 0..7 /\ FileOf(s) \in 0..7 /\ FileOf(u) \in 0..7 /\ FileOf(b) \in 0..7
      /\ RankOf(k) \in 0..7 /\ RankOf(s) \in 0..7 /\ RankOf(u) \in 0..7 /\ RankOf(b) \in 0..7
  BY Coordinates
<1> QED BY <1>2, SMTT(60) DEF Amid, Up

\* A pawn that takes en passant and gives check: the pawn it took is not on the
\* king's lines.
LEMMA AsideOfKing ==
  ASSUME NEW x \in Square, NEW t \in Square, NEW w \in Square, NEW c \in Color,
         PawnStep(c, t, x), FileOf(w) = FileOf(t), RankOf(w) = RankOf(t) - Up1(c)
  PROVE  ~Diag(x, w) /\ ~Orth(x, w)
<1>2. /\ FileOf(x) \in 0..7 /\ FileOf(t) \in 0..7 /\ FileOf(w) \in 0..7
      /\ RankOf(x) \in 0..7 /\ RankOf(t) \in 0..7 /\ RankOf(w) \in 0..7 /\ Up1(c) \in {1, -1}
  BY Coordinates DEF Up1
<1> QED BY <1>2, SMTT(60) DEF Diag, Orth, PawnStep

\* The sliders and leapers of a position that the moved one is in.
LEMMA FewMade ==
  ASSUME NEW p, Sound(p), NEW m, Travels(p, m), MakeMove(p, m) \in Position, OneKing(MakeMove(p, m)),
         OwnKing(MakeMove(p, m)) = OtherKing(p), MakeMove(p, m).stm = Other(p.stm)
  PROVE  FewChecks(MakeMove(p, m))
<1> DEFINE q == MakeMove(p, m)
           x == OtherKing(p)
           c == p.stm
           s == m.from
           t == m.to
           w == EpSquare(m.to)
<1>1. /\ p \in Position /\ Ordinary(p, m) /\ x \in Square /\ c \in Color /\ Other(Other(c)) = c
      /\ s \in Square /\ t \in Square /\ s \in Us(p, c) /\ t \notin Us(p, c)
      /\ Occ(p) \subseteq Square
      /\ \A types : Pieces(p, types, c) \subseteq Us(p, c)
  BY Sides DEF Travels, Ordinary, OtherKing
<1>2. /\ Occ(q) = (Occ(p) \ Gone(m)) \cup {t} /\ q.board[t] = Became(p, m)
  BY <1>1, MadeBoard
<1>3. \A types : Pieces(q, types, c) = (Pieces(p, types, c) \ {s})
                                         \cup {u \in {t} : TypeOf(Became(p, m)) \in types}
  BY <1>1, MadePieces
<1> HIDE DEF q, x, c, s, t, w
<1>4. \A types : \A a : a \in Pieces(q, types, c) =>
        \/ a = t /\ TypeOf(Became(p, m)) \in types
        \/ a # t /\ a \in Pieces(p, types, c)
  BY <1>1, <1>3
<1>5. \A a : /\ a \in ByPawn(q, q.stm) <=> a \in Pieces(q, {"p"}, c) /\ PawnStep(c, a, x)
             /\ a \in ByKnight(q, q.stm) <=> a \in Pieces(q, {"n"}, c) /\ KnightStep(a, x)
             /\ a \in ByDiagonal(q) <=> a \in Pieces(q, {"b", "q"}, c) /\ Diag(x, a) /\ Clear(x, a, Occ(q))
             /\ a \in ByLine(q) <=> a \in Pieces(q, {"r", "q"}, c) /\ Orth(x, a) /\ Clear(x, a, Occ(q))
             /\ a \in ByLeap(q) <=> a \in ByPawn(q, q.stm) \/ a \in ByKnight(q, q.stm)
  BY <1>1, ChecksAre DEF q, x, c
<1>6. \A a \in Square : ~Hits(p, c, a, x)
  BY DEF Sound, Calm, OtherKing, c, x
<1>7. \A types : Pieces(p, types, c) \subseteq Square /\ Pieces(q, types, c) \subseteq Square /\ Pieces(q, types, c) \subseteq Occ(q)
  <2>1. \A types : Pieces(q, types, c) \subseteq Square
    BY PositionTypes DEF q
  <2>2. \A types : Pieces(q, types, c) \subseteq Occ(q)
    BY DEF Pieces
  <2>3. \A types : Pieces(p, types, c) \subseteq Square
    BY <1>1, PositionTypes
  <2> QED BY <2>1, <2>2, <2>3
<1>8. ASSUME NEW a \in ByLeap(q)
      PROVE  /\ a = t /\ TypeOf(Became(p, m)) \in {"p", "n"}
             /\ TypeOf(Became(p, m)) = "p" => PawnStep(c, t, x)
  <2>1. CASE a \in ByPawn(q, q.stm)
    <3>1. a \in Pieces(q, {"p"}, c) /\ PawnStep(c, a, x) /\ a \in Square
      BY <1>5, <1>7, <2>1
    <3>2. a \notin Pieces(p, {"p"}, c)
      BY <1>6, <3>1 DEF Hits
    <3> QED BY <1>4, <3>1, <3>2
  <2>2. CASE a \in ByKnight(q, q.stm)
    <3>1. a \in Pieces(q, {"n"}, c) /\ KnightStep(a, x) /\ a \in Square
      BY <1>5, <1>7, <2>2
    <3>2. a \notin Pieces(p, {"n"}, c)
      BY <1>6, <3>1 DEF Hits
    <3>3. a = t /\ TypeOf(Became(p, m)) = "n"
      BY <1>4, <3>1, <3>2
    <3> QED BY <3>3
  <2> QED BY <1>5, <1>8, <2>1, <2>2
<1>9. ASSUME NEW a, a \in ByDiagonal(q) \/ a \in ByLine(q)
      PROVE  /\ a \in Square /\ a \in Occ(q) /\ Clear(x, a, Occ(q))
             /\ a = t => TypeOf(Became(p, m)) \in {"b", "q", "r"}
             /\ a # t => \E g \in Gone(m) : g \in Square /\ Amid(x, g, a)
  <2>1. Aims(q, c, a, x) /\ Clear(x, a, Occ(q)) /\ a \in Square /\ a \in Occ(q)
    BY <1>5, <1>7, <1>9 DEF Aims
  <2>2. a = t => TypeOf(Became(p, m)) \in {"b", "q", "r"}
    BY <1>4, <2>1 DEF Aims
  <2>3. a # t => \E g \in Gone(m) : g \in Square /\ Amid(x, g, a)
    BY <2>1, Opened DEF q, x, c, t
  <2> QED BY <2>1, <2>2, <2>3
<1>10. \A a \in ByDiagonal(q) : Diag(x, a) /\ (a = t => TypeOf(Became(p, m)) \in {"b", "q"})
  BY <1>4, <1>5
<1>11. \A a \in ByLine(q) : Orth(x, a)
  BY <1>5
<1>12. \A g \in Gone(m) : g = s \/ (g = w /\ m.kind = "enpassant")
  BY DEF Gone, s, w
<1>13. m.kind = "enpassant" =>
        /\ PawnStep(c, s, t) /\ w \in Square /\ FileOf(w) = FileOf(t) /\ RankOf(w) = RankOf(t) - Up1(c)
        /\ TypeOf(Became(p, m)) = "p"
  BY <1>1 DEF Travels, s, t, c, w, Became, Ordinary
<1>14. m.kind = "enpassant" => RankOf(s) = RankOf(w) /\ FileOf(s) - FileOf(w) \in {-1, 1}
  <2>1. /\ FileOf(s) \in 0..7 /\ FileOf(t) \in 0..7 /\ RankOf(s) \in 0..7 /\ RankOf(t) \in 0..7 /\ Up1(c) \in {1, -1}
    BY <1>1, Coordinates DEF Up1
  <2> QED BY <1>13, <2>1 DEF PawnStep
<1>15. ASSUME NEW a \in ByDiagonal(q), NEW b \in ByDiagonal(q), a # t, b # t
       PROVE  a = b
  <2>1. PICK g \in Gone(m) : g \in Square /\ Amid(x, g, a)
    BY <1>9, <1>15
  <2>2. PICK h \in Gone(m) : h \in Square /\ Amid(x, h, b)
    BY <1>9, <1>15
  <2>3. a \in Square /\ b \in Square /\ a \in Occ(q) /\ b \in Occ(q) /\ Clear(x, a, Occ(q)) /\ Clear(x, b, Occ(q))
    BY <1>9
  <2>4. CASE g = h
    BY <1>1, <2>1, <2>2, <2>3, <2>4, TwoBehind DEF Clear
  <2>5. CASE g # h
    <3>1. m.kind = "enpassant" /\ {g, h} = {s, w}
      BY <1>12, <2>5
    <3>2. Diag(x, g) /\ Diag(x, h)
      BY <1>1, <1>10, <2>1, <2>2, <2>3, AmidFacts
    <3>3. Diag(x, s) /\ Diag(x, w)
      BY <3>1, <3>2
    <3> QED BY <1>1, <1>13, <1>14, <3>1, <3>3, Neighbors
  <2> QED BY <2>4, <2>5
<1>16. ASSUME NEW b \in ByDiagonal(q), t \in ByDiagonal(q), b # t
       PROVE  FALSE
  <2>1. TypeOf(Became(p, m)) \in {"b", "q"} /\ Diag(x, t) /\ Diag(x, b)
    BY <1>10, <1>16
  <2>2. m.kind # "enpassant"
    BY <1>13, <2>1
  <2>3. Amid(x, s, b) /\ Gone(m) = {s}
    BY <1>9, <1>12, <1>16, <2>2 DEF Gone, s
  <2>4. b \in Square /\ Clear(x, b, Occ(q))
    BY <1>9
  <2>5. Diag(x, s)
    BY <1>1, <2>1, <2>3, <2>4, AmidFacts
  <2>6. ~Amid(x, t, b)
    BY <1>1, <1>2, <2>4 DEF Clear
  <2>7. CASE m.kind = "normal"
    <3>1. s \in Pieces(p, {"b", "q"}, c)
      BY <1>1, <2>1, <2>7 DEF Became, Pieces, Us, s
    <3>2. Clear(x, s, Occ(p))
      <4>1. SUFFICES ASSUME NEW u \in Occ(p), u \in Square, Amid(x, u, s) PROVE FALSE
        BY DEF Clear
      <4>2. Amid(x, u, b)
        BY <1>1, <2>3, <2>4, <4>1, AmidTrans
      <4>3. u # s
        BY <1>1, <4>1, AmidFacts
      <4> QED BY <1>2, <2>3, <2>4, <4>1, <4>2, <4>3 DEF Clear
    <3> QED BY <1>1, <1>6, <2>5, <3>1, <3>2 DEF Hits
  <2>8. CASE m.kind = "promotion"
    <3>1. \/ PawnStep(c, s, t)
          \/ FileOf(t) = FileOf(s) /\ RankOf(t) = RankOf(s) + Up1(c)
      BY <2>8 DEF Travels, s, t, c
    <3>2. CASE PawnStep(c, s, t)
      <4>1. Diag(s, t) /\ ~Amid(s, x, t) /\ ~Amid(s, b, t)
        BY <1>1, <2>4, <3>2, Near
      <4>2. t = b \/ Amid(x, t, b)
        BY <1>1, <2>1, <2>3, <2>4, <4>1, PinGeometry
      <4> QED BY <1>16, <2>6, <4>2
    <3>3. CASE FileOf(t) = FileOf(s) /\ RankOf(t) = RankOf(s) + Up1(c)
      <4>1. RankOf(t) - RankOf(s) \in {-1, 1}
        <5>1. RankOf(s) \in 0..7 /\ Up1(c) \in {1, -1}
          BY <1>1, Coordinates DEF Up1
        <5> QED BY <3>3, <5>1
      <4> QED BY <1>1, <2>1, <2>5, <3>3, <4>1, Neighbors
    <3> QED BY <3>1, <3>2, <3>3
  <2> QED BY <1>1, <2>2, <2>7, <2>8 DEF Ordinary, Plain
<1>17. ASSUME NEW l \in ByLeap(q), NEW a \in ByDiagonal(q), NEW b \in ByLine(q)
       PROVE  FALSE
  <2>1. TypeOf(Became(p, m)) \in {"p", "n"} /\ (TypeOf(Became(p, m)) = "p" => PawnStep(c, t, x))
    BY <1>8
  <2>2. a # t /\ b # t
    BY <1>9, <2>1
  <2>3. PICK g \in Gone(m) : g \in Square /\ Amid(x, g, a)
    BY <1>9, <2>2
  <2>4. PICK h \in Gone(m) : h \in Square /\ Amid(x, h, b)
    BY <1>9, <2>2
  <2>5. a \in Square /\ b \in Square /\ Diag(x, a) /\ Orth(x, b)
    BY <1>9, <1>10, <1>11
  <2>6. Diag(x, g) /\ ~Orth(x, g) /\ Orth(x, h) /\ ~Diag(x, h)
    BY <1>1, <2>3, <2>4, <2>5, AmidFacts
  <2>7. m.kind = "enpassant" /\ (g = w \/ h = w)
    BY <1>12, <2>3, <2>4, <2>6
  <2>8. ~Diag(x, w) /\ ~Orth(x, w)
    BY <1>1, <1>13, <2>1, <2>7, AsideOfKing
  <2> QED BY <2>6, <2>7, <2>8
<1>18. \A a, b \in ByLeap(q) : a = b
  BY <1>8
<1>19. \A a, b \in ByDiagonal(q) : a = b
  BY <1>15, <1>16
<1>20. ByLeap(q) = {} \/ ByDiagonal(q) = {} \/ ByLine(q) = {}
  BY <1>17
<1> QED BY <1>18, <1>19, <1>20 DEF FewChecks, FewOf, q

\* Two squares of a file are not both between a king and a bishop of its diagonal.
LEMMA OneOfFile ==
  ASSUME NEW x \in Square, NEW s \in Square, NEW t \in Square, NEW a \in Square,
         Diag(x, a), Amid(x, s, a), Amid(x, t, a), FileOf(s) = FileOf(t)
  PROVE  s = t
<1>1. /\ FileOf(x) \in 0..7 /\ FileOf(s) \in 0..7 /\ FileOf(t) \in 0..7 /\ FileOf(a) \in 0..7
      /\ RankOf(x) \in 0..7 /\ RankOf(s) \in 0..7 /\ RankOf(t) \in 0..7 /\ RankOf(a) \in 0..7
  BY Coordinates
<1>2. RankOf(s) = RankOf(t)
  BY <1>1, SMTT(60) DEF Diag, Amid, Up
<1> QED BY <1>2, SameSquare

\* The en passant square that a push leaves is sound: no slider is hidden behind the pawn.
LEMMA EpMade ==
  ASSUME NEW p, Sound(p), NEW m, Travels(p, m),
         OwnKing(MakeMove(p, m)) = OtherKing(p), MakeMove(p, m).stm = Other(p.stm)
  PROVE  EpHeld(MakeMove(p, m))
<1> DEFINE q == MakeMove(p, m)
           x == OtherKing(p)
           c == p.stm
           s == m.from
           t == m.to
<1>1. /\ p \in Position /\ Ordinary(p, m) /\ x \in Square /\ c \in Color /\ Other(Other(c)) = c
      /\ s \in Square /\ t \in Square /\ s \in Us(p, c) /\ t \notin Us(p, c)
      /\ Us(p, c) \subseteq Occ(p)
      /\ \A types : Pieces(p, types, c) \subseteq Square
  BY Sides DEF Travels, Ordinary, OtherKing
<1>2. /\ Occ(q) = (Occ(p) \ Gone(m)) \cup {t} /\ q.ep = EpAfter(p, m)
  BY <1>1, MadeBoard
<1>3. \A types : Pieces(q, types, c) = (Pieces(p, types, c) \ {s})
                                         \cup {u \in {t} : TypeOf(Became(p, m)) \in types}
  BY <1>1, MadePieces
<1>4. SUFFICES ASSUME q.ep # NoSq
               PROVE  /\ RankOf(q.ep) = RelRank(5, q.stm) /\ q.ep \notin Occ(q)
                      /\ EpSquare(q.ep) \in Pieces(q, {"p"}, Other(q.stm))
                      /\ EpQuiet(q)
  BY DEF EpHeld
<1>5. EpAfter(p, m) = EpSquare(t) /\ Pushed2(p, s, t) /\ m.kind = "normal" /\ TypeOf(p.board[s]) = "p"
  BY <1>2, <1>4, EpAfterIs
<1>6. /\ FileOf(t) = FileOf(s) /\ t \notin Occ(p) /\ EpSquare(t) \notin Occ(p) /\ EpSquare(EpSquare(t)) = t
      /\ RankOf(EpSquare(t)) = RelRank(5, Other(c)) /\ EpSquare(t) # t
  BY <1>5 DEF Pushed2
<1>7. Became(p, m) = p.board[s] /\ Gone(m) = {s}
  BY <1>5 DEF Became, Gone
<1> HIDE DEF q, x, s, t, c
<1>8. t \in Pieces(q, {"p"}, c)
  BY <1>3, <1>5, <1>7
<1>9. q.stm = Other(c) /\ Other(q.stm) = c /\ OwnKing(q) = x
  BY <1>1 DEF q, c, x
<1>10. EpQuiet(q)
  <2>1. SUFFICES ASSUME NEW a \in Pieces(q, {"b", "q"}, c), Diag(x, a), Clear(x, a, Occ(q) \ {t}),
                        ~Clear(x, a, Occ(q))
                 PROVE  FALSE
    BY <1>2, <1>5, <1>6, <1>9 DEF EpQuiet
  <2>2. a \in Pieces(p, {"b", "q"}, c) /\ a \in Square
    BY <1>1, <1>3, <1>5, <1>7, <2>1
  <2>3. Amid(x, t, a)
    BY <2>1 DEF Clear
  <2>4. ~Clear(x, a, Occ(p))
    <3>1. ~Hits(p, c, a, x)
      BY <2>2 DEF Sound, Calm, OtherKing, c, x
    <3> QED BY <2>1, <2>2, <3>1 DEF Hits
  <2>5. PICK u \in Occ(p) \cap Square : Amid(x, u, a)
    BY <2>4 DEF Clear
  <2>6. u = s
    BY <1>2, <1>6, <1>7, <2>1, <2>5 DEF Clear
  <2>7. s = t
    BY <1>1, <1>6, <2>1, <2>2, <2>3, <2>5, <2>6, OneOfFile
  <2> QED BY <1>1, <2>7
<1> QED BY <1>1, <1>2, <1>5, <1>6, <1>7, <1>8, <1>9, <1>10

\* A right that is left has its king and rook where they were.
LEMMA RightStays ==
  ASSUME NEW p, Sound(p), NEW m, NEW right \in Right, p.cr[right] # NoFile, right \notin RightsLost(p, m),
         m.from \in Us(p, p.stm), m.to \in Square
  PROVE  /\ RightHeld(p, right)
         /\ right[1] = p.stm => /\ TypeOf(p.board[m.from]) # "k"
                                /\ m.from # SquareAt(p.cr[right], RankOf(KingSq(p, right[1])))
         /\ right[1] # p.stm /\ m.kind # "castling" =>
              m.to # SquareAt(p.cr[right], RankOf(KingSq(p, right[1])))
<1> DEFINE d == right[1]
           king == KingSq(p, right[1])
           rook == SquareAt(p.cr[right], RankOf(KingSq(p, right[1])))
<1>1. RightHeld(p, right)
  BY DEF Sound, RightsHeld
<1>2. d \in Color /\ right[2] \in Side /\ right = <<d, right[2]>>
  BY DEF Right
<1>3. p \in Position /\ OneKing(p) /\ king \in Square /\ p.stm \in Color
  BY <1>2, Sides, KingStands
<1>4. /\ BackRank(king, d) /\ rook \in Pieces(p, {"r"}, d)
      /\ (rook > king) <=> (right[2] = "king")
  BY <1>1 DEF RightHeld
<1>5. FileOf(rook) = p.cr[right] /\ RankOf(rook) = RankOf(king) /\ rook \in Square
  <2>1. p.cr \in [Right -> File \cup {NoFile}]
    BY <1>3 DEF Position
  <2>2. p.cr[right] \in 0..7
    BY <2>1 DEF File
  <2> HIDE DEF king
  <2> QED BY <1>3, <2>2, SquareOf, Coordinates DEF king
<1> HIDE DEF d, king, rook
<1>6. <<d, ClosestSide(rook, king)>> = right
  BY <1>2, <1>4 DEF ClosestSide, KingSideIf, Side
<1>7. BackRank(rook, d)
  BY <1>4, <1>5 DEF BackRank
<1>8. right \in RookRights(p, d, rook)
  BY <1>5, <1>6, <1>7 DEF RookRights, king, d
<1>9. TypeOf(p.board[rook]) = "r" /\ rook \in Occ(p) /\ rook \in Us(p, d)
  BY <1>4 DEF Pieces, Us
<1>10. ASSUME d = p.stm PROVE TypeOf(p.board[m.from]) # "k" /\ m.from # rook
  <2>1. TypeOf(p.board[m.from]) = "k" => right \in RightsLost(p, m)
    BY <1>2, <1>10 DEF RightsLost, d
  <2>2. m.from = rook => right \in RightsLost(p, m)
    BY <1>8, <1>9, <1>10 DEF RightsLost
  <2> QED BY <2>1, <2>2
<1>11. ASSUME d # p.stm, m.kind # "castling" PROVE m.to # rook
  <2>1. d = Other(p.stm)
    BY <1>2, <1>3, <1>11, OtherColor
  <2>2. m.to = rook => IsCapture(p, m) /\ TypeOf(p.board[m.to]) = "r"
    BY <1>9, <1>11 DEF IsCapture
  <2>3. m.to = rook => right \in RightsLost(p, m)
    BY <1>8, <2>1, <2>2 DEF RightsLost
  <2> QED BY <2>3
<1> QED BY <1>1, <1>10, <1>11 DEF d, rook

\* A right is held in q as in p when its king and rook are where they were.
LEMMA RightCarried ==
  ASSUME NEW p, NEW q, NEW right \in Right, RightHeld(p, right), q.cr[right] = p.cr[right],
         q.path = p.path, q.frc = p.frc, KingSq(q, right[1]) = KingSq(p, right[1]),
         SquareAt(p.cr[right], RankOf(KingSq(p, right[1]))) \in Pieces(q, {"r"}, right[1])
  PROVE  RightHeld(q, right)
<1>1. PathOf(q, right) = PathOf(p, right)
  BY DEF PathOf
<1> QED BY <1>1 DEF RightHeld

\* A move keeps the rights sound.
LEMMA RightsMade ==
  ASSUME NEW p, Sound(p), NEW m, Travels(p, m), NEW k, KingSq(MakeMove(p, m), p.stm) = k,
         TypeOf(p.board[m.from]) # "k" => k = OwnKing(p),
         KingSq(MakeMove(p, m), Other(p.stm)) = OtherKing(p)
  PROVE  RightsHeld(MakeMove(p, m))
<1> DEFINE q == MakeMove(p, m)
           c == p.stm
           e == Other(p.stm)
<1>1. /\ p \in Position /\ Ordinary(p, m) /\ c \in Color /\ m.to \in Square /\ m.from \in Us(p, c)
      /\ m.kind # "castling" /\ Us(p, c) \cap Us(p, e) = {}
      /\ \A types, d : Pieces(p, types, d) \subseteq Us(p, d)
  BY Sides DEF Travels, Ordinary, Plain
<1>2. /\ q.cr = [right \in Right |-> IF right \in RightsLost(p, m) THEN NoFile ELSE p.cr[right]]
      /\ q.frc = p.frc /\ q.path = p.path
  BY <1>1, MadeBoard
<1>3. \A types :
        /\ Pieces(q, types, e) = Pieces(p, types, e) \ (Gone(m) \cup {m.to})
        /\ Pieces(q, types, c) = (Pieces(p, types, c) \ {m.from})
                                         \cup {u \in {m.to} : TypeOf(Became(p, m)) \in types}
  BY <1>1, MadePieces
<1>4. SUFFICES ASSUME NEW right \in Right, q.cr[right] # NoFile PROVE RightHeld(q, right)
  BY DEF RightsHeld
<1> HIDE DEF q, c, e
<1>5. right \notin RightsLost(p, m) /\ q.cr[right] = p.cr[right] /\ p.cr[right] # NoFile
  BY <1>2, <1>4
<1> DEFINE rook == SquareAt(p.cr[right], RankOf(KingSq(p, right[1])))
<1>6. /\ RightHeld(p, right)
      /\ right[1] = c => TypeOf(p.board[m.from]) # "k" /\ m.from # rook
      /\ right[1] # c => m.to # rook
  BY <1>1, <1>4, <1>5, RightStays DEF c
<1>7. rook \in Pieces(p, {"r"}, right[1])
  BY <1>6 DEF RightHeld
<1>8. right[1] = c \/ right[1] = e
  BY <1>1, <1>4, OtherColor DEF Right, e, c
<1> HIDE DEF rook
<1>9. CASE right[1] = c
  <2>1. KingSq(q, right[1]) = KingSq(p, right[1])
    BY <1>6, <1>9 DEF q, c, OwnKing
  <2>2. rook \in Pieces(q, {"r"}, right[1])
    BY <1>3, <1>6, <1>7, <1>9
  <2> QED BY <1>2, <1>4, <1>5, <1>6, <2>1, <2>2, RightCarried DEF rook
<1>10. CASE right[1] = e
  <2>1. KingSq(q, right[1]) = KingSq(p, right[1])
    BY <1>10 DEF q, e, OtherKing
  <2>2. rook \notin Gone(m)
    <3>1. m.kind = "enpassant" => EpSquare(m.to) \in Pieces(p, {"p"}, e)
      BY DEF Travels, e
    <3>2. rook # m.from
      BY <1>1, <1>7, <1>10
    <3> QED BY <1>7, <1>10, <3>1, <3>2 DEF Gone, Pieces
  <2>3. rook # m.to
    BY <1>6, <1>10, <1>1, OtherColor DEF e, c
  <2>4. rook \in Pieces(q, {"r"}, right[1])
    BY <1>3, <1>7, <1>10, <2>2, <2>3
  <2> QED BY <1>2, <1>4, <1>5, <1>6, <2>1, <2>4, RightCarried DEF rook
<1> QED BY <1>8, <1>9, <1>10

\* No diagonal passes through a square of the first or the last rank.
LEMMA EdgeOpensNone ==
  ASSUME NEW x \in Square, NEW u \in Square, NEW a \in Square, NEW c \in Color,
         Diag(x, a), RankOf(u) = RelRank(0, c)
  PROVE  ~Amid(x, u, a)
<1>1. /\ FileOf(x) \in 0..7 /\ FileOf(u) \in 0..7 /\ FileOf(a) \in 0..7
      /\ RankOf(x) \in 0..7 /\ RankOf(u) \in 0..7 /\ RankOf(a) \in 0..7
      /\ RankOf(u) \in {0, 7}
  BY Coordinates DEF RelRank
<1> QED BY <1>1, SMTT(60) DEF Diag, Amid, Up

\* The side that has just moved does not stand attacked.
LEMMA CalmMade ==
  ASSUME NEW p, Sound(p), NEW m \in LegalMoves(p), NEW k, KingSq(MakeMove(p, m), p.stm) = k,
         Pieces(MakeMove(p, m), {"k"}, p.stm) = {k}, MakeMove(p, m).stm = Other(p.stm)
  PROVE  Calm(MakeMove(p, m))
<1> DEFINE q == MakeMove(p, m)
<1>1. Other(Other(p.stm)) = p.stm
  BY Sides
<1>2. \A a \in Square : ~Hits(q, Other(p.stm), a, k)
  BY LegalSafe
<1> HIDE DEF q
<1> QED BY <1>1, <1>2 DEF Calm, q

\* A move that is no castling leads to a sound position.
LEMMA SoundMove ==
  ASSUME NEW p, Sound(p), NEW m \in LegalMoves(p), Travels(p, m),
         TypeOf(p.board[m.from]) = "k" \/ Pieces(MakeMove(p, m), {"k"}, p.stm) = {OwnKing(p)}
  PROVE  Sound(MakeMove(p, m))
<1> DEFINE q == MakeMove(p, m)
<1>1. PICK k \in Square : Pieces(q, {"k"}, p.stm) = {k}
  BY LegalSafe
<1>2. /\ OneKing(q) /\ KingSq(q, p.stm) = k
      /\ OwnKing(q) = OtherKing(p) /\ q.stm = Other(p.stm)
  BY <1>1, MadeKings
<1>3. TypeOf(p.board[m.from]) # "k" => k = OwnKing(p)
  BY <1>1
<1>4. q \in Position /\ PawnsInside(q)
  BY MadePosition, MadePawns
<1>5. Calm(q)
  BY <1>1, <1>2, CalmMade
<1>6. FewChecks(q) /\ EpHeld(q)
  BY <1>2, <1>4, FewMade, EpMade
<1>7. KingSq(q, Other(p.stm)) = OtherKing(p)
  BY <1>2 DEF OwnKing
<1>8. RightsHeld(q)
  BY <1>2, <1>3, <1>7, RightsMade
<1> QED BY <1>2, <1>4, <1>5, <1>6, <1>8 DEF Sound

\* The king stands where it stood when another piece moves.
LEMMA StillStands ==
  ASSUME NEW p, Sound(p), NEW m, Travels(p, m), TypeOf(p.board[m.from]) # "k"
  PROVE  Pieces(MakeMove(p, m), {"k"}, p.stm) = {OwnKing(p)}
<1>1. p \in Position /\ Ordinary(p, m) /\ Pieces(p, {"k"}, p.stm) = {OwnKing(p)}
  BY Sides DEF Travels, OneKing, OwnKing
<1>2. Pieces(MakeMove(p, m), {"k"}, p.stm) = (Pieces(p, {"k"}, p.stm) \ {m.from})
                                         \cup {t \in {m.to} : TypeOf(Became(p, m)) \in {"k"}}
  BY <1>1, MadePieces
<1>3. TypeOf(Became(p, m)) # "k"
  BY <1>1 DEF Became, Ordinary, TypeOf
<1>4. m.from # OwnKing(p)
  BY <1>1 DEF Pieces
<1> QED BY <1>1, <1>2, <1>3, <1>4

\* Castling leads to a sound position.
LEMMA SoundCastle ==
  ASSUME NEW p, Sound(p), NEW m \in LegalMoves(p), NEW side \in Side, Castles(p, m, side)
  PROVE  Sound(MakeMove(p, m))
<1> DEFINE q == MakeMove(p, m)
           c == p.stm
           e == Other(p.stm)
           k == OwnKing(p)
           x == OtherKing(p)
           kt == KingTo(side, c)
           rt == RookTo(side, c)
<1>1. /\ q.board \in Boards /\ q.stm = e
      /\ \A u : u \in Occ(q) <=> (u \in Occ(p) /\ u # k /\ u # m.to) \/ u = kt \/ u = rt
      /\ q.board[kt] = <<c, "k">> /\ q.board[rt] = <<c, "r">>
      /\ \A u \in Occ(p) : u # k /\ u # m.to => q.board[u] = p.board[u]
      /\ q.ep = EpAfter(p, m) /\ q.frc = p.frc /\ q.path = p.path
      /\ q.cr = [right \in Right |-> IF right \in RightsLost(p, m) THEN NoFile ELSE p.cr[right]]
      /\ q \in [board : {q.board}, stm : {q.stm}, ep : {q.ep}, frc : {q.frc}, cr : {q.cr}, path : {q.path}]
      /\ \A types : Pieces(q, types, e) = Pieces(p, types, e)
      /\ \A types, s : s \in Pieces(q, types, c) <=>
           \/ s \in Pieces(p, types, c) /\ s # k /\ s # m.to
           \/ s = kt /\ "k" \in types
           \/ s = rt /\ "r" \in types
  <2>1. AfterCastling(p, m, q, kt, rt)
    BY MadeCastle DEF Castles
  <2> HIDE DEF q, kt, rt
  <2> QED BY <2>1 DEF AfterCastling
<1>2. /\ p \in Position /\ c \in Color /\ e \in Color /\ Other(e) = c /\ c # e
      /\ k \in Square /\ x \in Square
      /\ Pieces(p, {"k"}, e) = {x} /\ Pieces(p, {"k"}, c) = {k}
      /\ Pieces(q, {"k"}, c) = {kt}
      /\ Occ(p) \subseteq Square
      /\ \A types, d : Pieces(p, types, d) \subseteq Square
  <2>1. Pieces(p, {"k"}, e) = {x} /\ Pieces(p, {"k"}, c) = {k}
    BY Sides DEF OneKing, OtherKing, OwnKing
  <2>2. Pieces(q, {"k"}, c) = {kt}
    BY CastleSafe
  <2> QED BY <2>1, <2>2, Sides DEF OtherKing
<1>3. /\ m.from = k /\ m.to \in Square /\ RankOf(k) = RelRank(0, c) /\ RankOf(m.to) = RankOf(k)
  BY DEF Castles, Exchanges
<1>4. /\ TypeOf(p.board[m.from]) = "k" /\ k \in Us(p, c)
  BY <1>2, <1>3, Sides DEF Pieces
<1>5. q.ep = NoSq
  BY <1>1, <1>4 DEF EpAfter, IsPawn
<1> HIDE DEF q, c, e, k, x, kt, rt
<1>6. q \in Position
  <2>1. q.cr \in [Right -> File \cup {NoFile}]
    BY <1>1, <1>2, CastlingKept
  <2>2. p.frc \in BOOLEAN /\ p.path \in [Right -> SUBSET Square]
    BY <1>2 DEF Position
  <2> QED BY <1>1, <1>2, <1>5, <2>1, <2>2, Assembled
<1>7. Pieces(q, {"k"}, e) = {x}
  BY <1>1, <1>2
<1>8. OneKing(q) /\ KingSq(q, c) = kt /\ KingSq(q, e) = x
  BY <1>2, <1>7, KingsAre DEF e
<1>9. OwnKing(q) = x
  BY <1>1, <1>8 DEF OwnKing
<1>10. PawnsInside(q)
  <2>1. PawnsInside(p)
    BY DEF Sound
  <2> QED BY <1>1, <2>1 DEF PawnsInside, TypeOf
<1>11. Calm(q)
  BY <1>1, <1>2, <1>8, CalmMade DEF q, c, e
<1>12. FewChecks(q)
  <2>1. ASSUME NEW a \in ByLeap(q) PROVE FALSE
    <3>1. \/ a \in Pieces(q, {"p"}, c) /\ PawnStep(c, a, x)
          \/ a \in Pieces(q, {"n"}, c) /\ KnightStep(a, x)
      BY <1>1, <1>2, <1>6, <1>8, <1>9, <2>1, ChecksAre
    <3>2. \/ a \in Pieces(p, {"p"}, c) /\ PawnStep(c, a, x)
          \/ a \in Pieces(p, {"n"}, c) /\ KnightStep(a, x)
      BY <1>1, <3>1
    <3>3. a \in Square /\ ~Hits(p, c, a, x)
      BY <1>2, <3>2 DEF Sound, Calm, OtherKing, c, x
    <3> QED BY <3>2, <3>3 DEF Hits
  <2>2. ASSUME NEW a \in ByDiagonal(q) PROVE FALSE
    <3>1. a \in Pieces(q, {"b", "q"}, c) /\ Diag(x, a) /\ Clear(x, a, Occ(q))
      BY <1>1, <1>2, <1>6, <1>8, <1>9, <2>2, ChecksAre
    <3>2. a \in Pieces(p, {"b", "q"}, c)
      BY <1>1, <3>1
    <3>3. a \in Square /\ ~Hits(p, c, a, x)
      BY <1>2, <3>2 DEF Sound, Calm, OtherKing, c, x
    <3>4. PICK u \in Occ(p) \cap Square : Amid(x, u, a)
      BY <3>1, <3>2, <3>3 DEF Hits, Clear
    <3>5. u = k \/ u = m.to
      BY <1>1, <3>1, <3>4 DEF Clear
    <3>6. RankOf(u) = RelRank(0, c)
      BY <1>3, <3>5
    <3> QED BY <1>2, <3>1, <3>3, <3>4, <3>6, EdgeOpensNone
  <2>3. ByLeap(q) = {} /\ ByDiagonal(q) = {}
    BY <2>1, <2>2
  <2> QED BY <2>3 DEF FewChecks, FewOf
<1>13. EpHeld(q)
  BY <1>5 DEF EpHeld
<1>14. RightsHeld(q)
  <2>1. SUFFICES ASSUME NEW right \in Right, q.cr[right] # NoFile PROVE RightHeld(q, right)
    BY DEF RightsHeld
  <2>2. right \notin RightsLost(p, m) /\ q.cr[right] = p.cr[right] /\ p.cr[right] # NoFile
    BY <1>1, <2>1
  <2>3. RightHeld(p, right) /\ right[1] # c
    BY <1>3, <1>4, <2>2, RightStays DEF c, k
  <2>4. right[1] = e
    BY <1>2, <2>3, OtherColor DEF Right, e
  <2>5. KingSq(q, right[1]) = KingSq(p, right[1])
    BY <1>8, <2>4 DEF x, OtherKing, e
  <2>6. SquareAt(p.cr[right], RankOf(KingSq(p, right[1]))) \in Pieces(q, {"r"}, right[1])
    <3>1. SquareAt(p.cr[right], RankOf(KingSq(p, right[1]))) \in Pieces(p, {"r"}, right[1])
      BY <2>3 DEF RightHeld
    <3> QED BY <1>1, <2>4, <3>1
  <2> QED BY <1>1, <2>2, <2>3, <2>5, <2>6, RightCarried
<1> QED BY <1>6, <1>8, <1>10, <1>11, <1>12, <1>13, <1>14 DEF Sound, q

\* A legal move of a sound position leads to a sound position.
LEMMA MoveSound ==
  ASSUME NEW p, Sound(p), NEW m \in LegalMoves(p)
  PROVE  Sound(MakeMove(p, m))
<1>1. KingMove(p, m) \/ CastlingMove(p, m) \/ OtherMove(p, m)
  <2>1. p.ep \in Int /\ p.stm \in Color /\ Pieces(p, {"p"}, p.stm) \in SUBSET Int
    BY Sides, PositionTypes DEF Square
  <2> QED BY <2>1, LegalShape
<1>2. CASE CastlingMove(p, m)
  BY <1>2, CastlingIs, SoundCastle
<1>3. CASE KingMove(p, m) \/ OtherMove(p, m)
  <2>1. Travels(p, m)
    BY <1>3, KingTravels, OtherTravels
  <2> QED BY <2>1, StillStands, SoundMove
<1> QED BY <1>1, <1>2, <1>3

----------------------------------------
(* Passing *)

\* A pass, made when not in check, leads to a sound position.
LEMMA PassSound ==
  ASSUME NEW p, Sound(p), ~InCheck(p)
  PROVE  Sound(MakeNullMove(p))
<1> DEFINE q == MakeNullMove(p)
           c == p.stm
           e == Other(p.stm)
<1>1. /\ p \in Position /\ c \in Color /\ e \in Color /\ Other(e) = c /\ c # e
      /\ Occ(p) \subseteq Square /\ KingSq(p, c) \in Square /\ OneKing(p)
      /\ \A types, d : Pieces(p, types, d) \subseteq Square
  BY Sides DEF OwnKing
<1>2. /\ q.board = p.board /\ q.stm = e /\ q.ep = NoSq /\ q.cr = p.cr /\ q.frc = p.frc /\ q.path = p.path
      /\ q \in [board : {q.board}, stm : {q.stm}, ep : {q.ep}, frc : {q.frc}, cr : {q.cr}, path : {q.path}]
  BY <1>1 DEF MakeNullMove, Position
<1> HIDE DEF q, c, e
<1>3. q \in Position
  <2>1. p.board \in Boards /\ p.frc \in BOOLEAN /\ p.cr \in [Right -> File \cup {NoFile}]
        /\ p.path \in [Right -> SUBSET Square]
    BY <1>1 DEF Position
  <2> QED BY <1>1, <1>2, <2>1, Assembled
<1>4. /\ Occ(q) = Occ(p)
      /\ \A types, d : Pieces(q, types, d) = Pieces(p, types, d)
      /\ \A d : KingSq(q, d) = KingSq(p, d)
  BY <1>2 DEF Occ, Pieces, KingSq
<1>5. OneKing(q) /\ PawnsInside(q)
  BY <1>1, <1>2, <1>4 DEF Sound, OneKing, PawnsInside
<1>6. Calm(q)
  <2>1. \A a \in Square : ~Hits(p, e, a, KingSq(p, c))
    BY <1>1, AttackedHit DEF InCheck, c, e
  <2> QED BY <1>1, <1>2, <1>4, <2>1 DEF Calm, Hits
<1>7. FewChecks(q)
  <2>1. ASSUME NEW a \in ByLeap(q) \cup ByDiagonal(q) PROVE FALSE
    <3>1. OwnKing(q) = KingSq(p, e)
      BY <1>2, <1>4 DEF OwnKing
    <3>2. \/ a \in Pieces(p, {"p"}, c) /\ PawnStep(c, a, KingSq(p, e))
          \/ a \in Pieces(p, {"n"}, c) /\ KnightStep(a, KingSq(p, e))
          \/ /\ a \in Pieces(p, {"b", "q"}, c) /\ Diag(KingSq(p, e), a)
             /\ Clear(KingSq(p, e), a, Occ(p))
      BY <1>1, <1>2, <1>3, <1>4, <1>5, <2>1, <3>1, ChecksAre
    <3>3. Hits(p, c, a, KingSq(p, e)) /\ a \in Square
      BY <1>1, <3>2 DEF Hits
    <3> QED BY <3>3 DEF Sound, Calm, c, e
  <2>2. ByLeap(q) = {} /\ ByDiagonal(q) = {}
    BY <2>1
  <2> QED BY <2>2 DEF FewChecks, FewOf
<1>8. EpHeld(q)
  BY <1>2 DEF EpHeld
<1>9. RightsHeld(q)
  <2>1. ASSUME NEW right \in Right, q.cr[right] # NoFile PROVE RightHeld(q, right)
    <3>1. RightHeld(p, right)
      BY <1>2, <2>1 DEF Sound, RightsHeld
    <3>2. SquareAt(p.cr[right], RankOf(KingSq(p, right[1]))) \in Pieces(q, {"r"}, right[1])
      BY <1>4, <3>1 DEF RightHeld
    <3> QED BY <1>2, <1>4, <3>1, <3>2, RightCarried
  <2> QED BY <2>1 DEF RightsHeld
<1> QED BY <1>3, <1>5, <1>6, <1>7, <1>8, <1>9 DEF Sound, q

\* Operators on a position look at its board alone, or at the side to move too.
LEMMA SameBoard ==
  ASSUME NEW p, NEW q, p.board = q.board
  PROVE  /\ Occ(p) = Occ(q) /\ \A c : Us(p, c) = Us(q, c) /\ KingSq(p, c) = KingSq(q, c)
         /\ \A types, c : Pieces(p, types, c) = Pieces(q, types, c)
<1>1. Occ(p) = Occ(q)
  BY DEF Occ
<1>2. \A types, c : Pieces(p, types, c) = Pieces(q, types, c)
  BY <1>1 DEF Pieces
<1>3. \A c : Us(p, c) = Us(q, c) /\ KingSq(p, c) = KingSq(q, c)
  BY <1>1, <1>2 DEF Us, KingSq
<1> QED BY <1>1, <1>2, <1>3

\* What the sanitizer's tests say of the board.
LEMMA FenBoard ==
  ASSUME NEW fen, WellFormed(fen), \A c \in Color : PlacementOK(fen, c)
  PROVE  /\ fen.board \in Boards /\ Occ(fen) \in SUBSET Square /\ fen.board \in [Occ(fen) -> Piece]
         /\ OneKing(fen) /\ PawnsInside(fen)
         /\ \A types, c : Pieces(fen, types, c) \in SUBSET Square /\ Pieces(fen, types, c) \in SUBSET Us(fen, c)
         /\ \A c : Us(fen, c) \in SUBSET Occ(fen)
         /\ \A c \in Color : KingSq(fen, c) \in Pieces(fen, {"k"}, c) /\ KingSq(fen, c) \in Square
<1>1. /\ fen.board = [s \in Occ(fen) |-> fen.board[s]] /\ Occ(fen) \subseteq Square
      /\ \A s \in Occ(fen) : fen.board[s] \in Piece
  BY DEF WellFormed
<1> DEFINE b == fen.board
           occ == Occ(fen)
<1>2. b \in [occ -> Piece]
  <2> HIDE DEF b, occ
  <2>1. b = [s \in occ |-> b[s]] /\ \A s \in occ : b[s] \in Piece
    BY <1>1 DEF b, occ
  <2> QED BY <2>1
<1>3. fen.board \in Boards
  BY <1>1, <1>2 DEF Boards
<1>4. \A types, c : Pieces(fen, types, c) \in SUBSET occ /\ Pieces(fen, types, c) \in SUBSET Us(fen, c)
  BY DEF Pieces, Us
<1>5. \A c : Us(fen, c) \in SUBSET occ
  BY DEF Us
<1>6. \A types, c : Pieces(fen, types, c) \in SUBSET Square
  BY <1>1, <1>4
<1>7. ASSUME NEW c \in Color
      PROVE  Pieces(fen, {"k"}, c) = {KingSq(fen, c)}
  <2>1. IsFiniteSet(Pieces(fen, {"k"}, c)) /\ Cardinality(Pieces(fen, {"k"}, c)) = 1
    BY <1>6, SquaresFinite DEF PlacementOK
  <2>2. PICK x : Pieces(fen, {"k"}, c) = {x}
    BY <2>1, CardinalityOne
  <2> QED BY <2>2, SmallestOne DEF KingSq
<1>8. PawnsInside(fen)
  <2>1. ASSUME NEW s \in Occ(fen), TypeOf(fen.board[s]) = "p" PROVE RankOf(s) \notin {0, 7}
    <3>1. ColorOf(fen.board[s]) \in Color
      BY <1>1 DEF Piece, ColorOf
    <3>2. s \in Pieces(fen, {"p"}, ColorOf(fen.board[s]))
      BY <2>1 DEF Pieces
    <3> QED BY <3>1, <3>2 DEF PlacementOK
  <2> QED BY <2>1 DEF PawnsInside
<1> QED BY <1>1, <1>2, <1>3, <1>4, <1>5, <1>6, <1>7, <1>8 DEF OneKing

----------------------------------------
(* Checks *)

\* Of two there are no three.
LEMMA AtMostTwo ==
  ASSUME NEW S, IsFiniteSet(S), Cardinality(S) <= 2, NEW a \in S, NEW b \in S, NEW d \in S, a # b, a # d, b # d
  PROVE  FALSE
<1>1. IsFiniteSet(S \ {a}) /\ Cardinality(S \ {a}) = Cardinality(S) - 1 /\ Cardinality(S) \in Nat
  BY FS_RemoveElement, FS_CardinalityType
<1>2. Cardinality(S \ {a}) <= 1
  BY <1>1
<1>3. \A x, y \in S \ {a} : x = y
  BY <1>1, <1>2, CardinalityOne
<1> QED BY <1>3

\* The sanitizer's tests of checks bound them as FewChecks does.
LEMMA FewAccepted ==
  ASSUME NEW fen, WellFormed(fen), \A c \in Color : PlacementOK(fen, c) /\ ChecksOK(fen, c)
  PROVE  FewChecks(fen)
<1> DEFINE c == fen.stm
           P == ByPawn(fen, c)
           N == ByKnight(fen, c)
           D == OnDiagonals(fen, c)
           L == OnLines(fen, c)
<1>1. /\ c \in Color /\ \A types, d : Pieces(fen, types, d) \in SUBSET Square
      /\ OwnKing(fen) \in Square
  BY FenBoard DEF WellFormed, OwnKing
<1>2. P \in SUBSET Square /\ N \in SUBSET Square /\ D \in SUBSET Square /\ L \in SUBSET Square
  BY <1>1 DEF ByPawn, ByKnight, OnDiagonals, OnLines
<1>3. /\ Cardinality(P \cup N) <= 1 /\ Cardinality(P \cup D) <= 1
      /\ Cardinality(((D \cup L) \cup P) \cup N) <= 2
  BY <1>1 DEF ChecksOK, Checkers
<1>4. D \cap L = {} /\ (P \cup N) \cap (D \cup L) = {}
  <2>1. ASSUME NEW a \in D, a \in L PROVE FALSE
    <3>1. a \in Square /\ Diag(OwnKing(fen), a) /\ Orth(OwnKing(fen), a)
      BY <1>1, <2>1, BishopSees, RookSees DEF OnDiagonals, OnLines, OwnKing
    <3>2. /\ FileOf(a) \in 0..7 /\ RankOf(a) \in 0..7
          /\ FileOf(OwnKing(fen)) \in 0..7 /\ RankOf(OwnKing(fen)) \in 0..7
      BY <1>1, <3>1, Coordinates
    <3>3. FileOf(a) # FileOf(OwnKing(fen)) \/ RankOf(a) # RankOf(OwnKing(fen))
      BY <1>1, <3>1, SameSquare DEF Diag
    <3> QED BY <3>1, <3>2, <3>3 DEF Diag, Orth
  <2>2. (P \cup N) \cap (D \cup L) = {}
    BY DEF ByPawn, ByKnight, OnDiagonals, OnLines, Pieces
  <2> QED BY <2>1, <2>2
<1> HIDE DEF P, N, D, L
<1>5. IsFiniteSet(P \cup N) /\ IsFiniteSet(P \cup D) /\ IsFiniteSet(((D \cup L) \cup P) \cup N)
  BY <1>2, SquaresFinite
<1>6. \A x, y \in P \cup N : x = y
  BY <1>3, <1>5, CardinalityOne
<1>7. \A x, y \in D : x = y
  BY <1>3, <1>5, CardinalityOne
<1>8. P \cup N = {} \/ D = {} \/ L = {}
  <2>1. ASSUME NEW x \in P \cup N, NEW y \in D, NEW z \in L PROVE FALSE
    BY <1>3, <1>4, <1>5, AtMostTwo
  <2> QED BY <2>1
<1>9. FewOf(P \cup N, D, L)
  BY <1>6, <1>7, <1>8 DEF FewOf
<1> QED BY <1>9 DEF FewChecks, ByLeap, ByDiagonal, ByLine, P, N, D, L, c

\* The sanitizer accepts no position where the side that moved is in check.
LEMMA CalmAccepted ==
  ASSUME NEW fen, WellFormed(fen), \A c \in Color : PlacementOK(fen, c) /\ ChecksOK(fen, c)
  PROVE  Calm(fen)
<1> DEFINE c == fen.stm
           d == Other(c)
           x == KingSq(fen, d)
<1>1. /\ c \in Color /\ d \in Color /\ Other(d) = c /\ d # c /\ x \in Square
      /\ \A types, e : Pieces(fen, types, e) \in SUBSET Square
  BY FenBoard, OtherColor DEF WellFormed
<1>2. Checkers(fen, d) = {} /\ KingAttacks[x] \cap Pieces(fen, {"k"}, c) = {}
  BY <1>1 DEF ChecksOK
<1>3. Occ(fen) \subseteq Square
  BY DEF WellFormed
<1>4. Attackers(fen, c, x) = {}
  BY <1>1, <1>2 DEF Attackers, Checkers, OnDiagonals, OnLines, ByPawn, ByKnight
<1> HIDE DEF c, d, x
<1>5. \A a : ~Hits(fen, c, a, x)
  BY <1>1, <1>3, <1>4, AttackersHit
<1> QED BY <1>5 DEF Calm, c, d, x

----------------------------------------
(* En passant *)

\* An explained en passant square is sound.
LEMMA QuietAccepted ==
  ASSUME NEW fen, WellFormed(fen), Accepted(fen), EpExplained(fen), EpPossible(fen)
  PROVE  /\ fen.ep # NoSq /\ RankOf(fen.ep) = RelRank(5, fen.stm) /\ fen.ep \notin Occ(fen)
         /\ EpSquare(fen.ep) \in Pieces(fen, {"p"}, Other(fen.stm))
         /\ EpQuiet(fen)
<1> DEFINE c == fen.stm
           e == Other(c)
           k == OwnKing(fen)
           pawn == EpSquare(fen.ep)
           from == IF RankOf(fen.ep) = 5 THEN fen.ep + 8 ELSE fen.ep - 8
           opp == Pieces(fen, {"b", "q"}, e)
<1>1. /\ fen.ep # NoSq /\ RankOf(fen.ep) = RelRank(5, c) /\ fen.ep \notin Occ(fen) /\ from \notin Occ(fen)
      /\ pawn \in Pieces(fen, {"p"}, e) /\ pawn \in Square /\ fen.ep \in Square
      /\ k \in Square /\ c \in Color /\ opp \subseteq Square /\ Occ(fen) \subseteq Square
  BY FenBoard DEF EpPossible, EpExplained, WellFormed, OwnKing, Accepted
<1>2. from \in Square /\ FileOf(from) = FileOf(pawn) /\ from # pawn
  <2>1. (RankOf(fen.ep) = 5 /\ c = White) \/ (RankOf(fen.ep) = 2 /\ c = Black)
    BY <1>1 DEF RelRank, Color, White, Black
  <2> QED BY <1>1, <2>1 DEF EpSquare, FileOf, RankOf, Square
<1>3. SUFFICES ASSUME NEW a \in opp, Diag(k, a), Clear(k, a, Occ(fen) \ {pawn}), ~Clear(k, a, Occ(fen))
               PROVE  FALSE
  BY <1>1 DEF EpQuiet
<1>4. Amid(k, pawn, a) /\ a \in Square
  BY <1>1, <1>3 DEF Clear
<1> HIDE DEF from, pawn, opp, c, e, k
<1>5. CASE pawn \in ByPawn(fen, c)
  <2>1. BishopAttacks(k, Occ(fen) \ {pawn}) \cap opp \subseteq BishopAttacks(k, Occ(fen)) \cap opp
    BY <1>5 DEF EpExplained, OwnKing, pawn, opp, c, e, k
  <2>2. a \in BishopAttacks(k, Occ(fen) \ {pawn})
    BY <1>1, <1>3, <1>4, BishopSees
  <2>3. a \in BishopAttacks(k, Occ(fen))
    BY <1>3, <2>1, <2>2
  <2> QED BY <1>1, <1>3, <2>3, BishopSees
<1>6. CASE pawn \notin ByPawn(fen, c)
  <2>1. pawn \notin Checkers(fen, c)
    BY <1>1, <1>6 DEF Checkers, OnDiagonals, OnLines, ByKnight, Pieces
  <2>2. BishopAttacks(k, (Occ(fen) \ {pawn}) \cup {from}) \cap opp = {}
    BY <2>1 DEF Accepted, PushOK, OwnKing, pawn, opp, c, e, k, from
  <2>3. ~Amid(k, from, a)
    BY <1>1, <1>2, <1>3, <1>4, OneOfFile
  <2>4. Clear(k, a, (Occ(fen) \ {pawn}) \cup {from})
    BY <1>3, <2>3 DEF Clear
  <2>5. a \in BishopAttacks(k, (Occ(fen) \ {pawn}) \cup {from})
    BY <1>1, <1>3, <1>4, <2>4, BishopSees
  <2> QED BY <1>3, <2>2, <2>5
<1> QED BY <1>5, <1>6

\* The fields the sanitizer leaves and changes.
LEMMA SanitizedIs ==
  ASSUME NEW fen, WellFormed(fen)
  PROVE  LET f == Sanitized(fen)
         IN /\ f.board = fen.board /\ f.stm = fen.stm /\ f.cr = Castling(fen)
            /\ f.ep = IF EpKept(fen) THEN fen.ep ELSE NoSq
<1>1. fen = [board |-> fen.board, stm |-> fen.stm, cr |-> fen.cr, ep |-> fen.ep]
  BY DEF WellFormed
<1> DEFINE ep == IF EpKept(fen) THEN fen.ep ELSE NoSq
           cr == Castling(fen)
<1>2. Sanitized(fen) = [fen EXCEPT !.cr = cr, !.ep = ep]
  BY DEF Sanitized
<1> HIDE DEF ep, cr
<1>3. Sanitized(fen) = [board |-> fen.board, stm |-> fen.stm, cr |-> cr, ep |-> ep]
  BY <1>1, <1>2
<1> QED BY <1>3 DEF ep, cr

\* The fields of a Board that is constructed.
LEMMA BoardIs ==
  ASSUME NEW f, NEW frc
  PROVE  LET p == BoardOf(f, frc)
         IN /\ p.board = f.board /\ p.stm = f.stm /\ p.frc = frc /\ p.cr = RightsOf(f, frc)
            /\ p.ep # NoSq => p.ep = f.ep
            /\ p.path = [right \in Right |-> IF p.cr[right] = NoFile THEN {} ELSE PathOf(p, right)]
            /\ p \in [board : {p.board}, stm : {p.stm}, ep : {p.ep}, frc : {p.frc}, cr : {p.cr}, path : {p.path}]
<1> DEFINE cr == RightsOf(f, frc)
           p0 == [board |-> f.board, stm |-> f.stm, cr |-> cr, ep |-> NoSq, frc |-> frc, path |-> NoPath]
           ep == IF f.ep # NoSq /\ RankOf(f.ep) = RelRank(5, f.stm) /\ IsEpSquareValid(p0, f.ep) THEN f.ep ELSE NoSq
           p1 == WithEp(p0, f)
           path == [right \in Right |-> IF p1.cr[right] = NoFile THEN {} ELSE PathOf(p1, right)]
           p == BoardOf(f, frc)
<1>1. p1 = [p0 EXCEPT !.ep = ep]
  BY DEF WithEp
<1>2. p = [p1 EXCEPT !.path = path]
  BY DEF BoardOf, WithPaths
<1>3. ep # NoSq => ep = f.ep
  OBVIOUS
<1> HIDE DEF ep, cr, path, p, p1
<1>4. p1 = [board |-> f.board, stm |-> f.stm, cr |-> cr, ep |-> ep, frc |-> frc, path |-> NoPath]
  BY <1>1
<1>5. p = [board |-> f.board, stm |-> f.stm, cr |-> cr, ep |-> ep, frc |-> frc, path |-> path]
  BY <1>2, <1>4
<1>6. p.board = p1.board /\ p.cr = p1.cr
  BY <1>4, <1>5
<1>7. \A right : PathOf(p, right) = PathOf(p1, right)
  <2>1. \A d : KingSq(p, d) = KingSq(p1, d)
    BY <1>6, SameBoard
  <2> QED BY <1>6, <2>1 DEF PathOf
<1>8. path = [right \in Right |-> IF p.cr[right] = NoFile THEN {} ELSE PathOf(p, right)]
  BY <1>6, <1>7 DEF path
<1>9. p.path = path /\ p.board = f.board /\ p.stm = f.stm /\ p.frc = frc /\ p.cr = cr /\ p.ep = ep
  BY <1>5
<1>10. p \in [board : {p.board}, stm : {p.stm}, ep : {p.ep}, frc : {p.frc}, cr : {p.cr}, path : {p.path}]
  BY <1>5
<1> QED BY <1>3, <1>8, <1>9, <1>10 DEF p, cr

----------------------------------------
(* Castling rights *)

\* f is the file of a rook on its wing.
AtHome(fen, c, side, f) ==
  LET king == KingSq(fen, c)
      rook == SquareAt(f, RankOf(king))
  IN /\ BackRank(king, c) /\ f \in File
     /\ rook \in Pieces(fen, {"r"}, c) /\ (rook > king <=> side = "king")

\* A rook on the back rank, on its side of the king, is at home.
LEMMA RookAt ==
  ASSUME NEW fen, NEW c \in Color, NEW side \in Side, NEW king \in Square, KingSq(fen, c) = king,
         NEW rook \in Square, rook \in Pieces(fen, {"r"}, c), BackRank(king, c), BackRank(rook, c),
         rook > king <=> side = "king"
  PROVE  AtHome(fen, c, side, FileOf(rook))
<1>1. RankOf(rook) = RankOf(king)
  BY DEF BackRank
<1>2. rook = FileOf(rook) + 8 * RankOf(rook) /\ FileOf(rook) \in 0..7
  BY Coordinates
<1>3. SquareAt(FileOf(rook), RankOf(king)) = rook
  BY <1>1, <1>2 DEF SquareAt
<1> QED BY <1>2, <1>3 DEF AtHome, File

\* A castling letter names a rook at home.
LEMMA WingRook ==
  ASSUME NEW fen, WellFormed(fen), Accepted(fen), NEW c \in Color, NEW side \in Side,
         NEW f \in Wing(fen, c, side)
  PROVE  AtHome(fen, c, side, f) /\ FileOf(KingSq(fen, c)) = HomeFile(fen, c)
<1> DEFINE king == KingSq(fen, c)
<1>1. king \in Square /\ Pieces(fen, {"r"}, c) \subseteq Square /\ king \notin Pieces(fen, {"r"}, c)
  <2>1. king \in Pieces(fen, {"k"}, c)
    BY FenBoard DEF Accepted
  <2> QED BY <2>1, FenBoard DEF Accepted, Pieces
<1>2. /\ f \in HomeRooks(fen, c) /\ HomeFile(fen, c) >= 0 /\ f # HomeFile(fen, c)
      /\ ClosestSide(f, HomeFile(fen, c)) = side
  BY DEF Wing
<1>3. BackRank(king, c) /\ HomeFile(fen, c) = FileOf(king)
  BY <1>2 DEF HomeFile
<1>4. PICK rook \in Pieces(fen, {"r"}, c) : BackRank(rook, c) /\ f = FileOf(rook)
  BY <1>2 DEF HomeRooks
<1>5. f > FileOf(king) <=> side = "king"
  BY <1>2, <1>3 DEF ClosestSide, KingSideIf, Side
<1>6. rook \in Square /\ RankOf(rook) = RankOf(king)
  BY <1>1, <1>3, <1>4 DEF BackRank
<1>7. /\ rook = FileOf(rook) + 8 * RankOf(rook) /\ king = FileOf(king) + 8 * RankOf(king)
      /\ FileOf(rook) \in 0..7 /\ FileOf(king) \in 0..7 /\ RankOf(rook) \in 0..7 /\ RankOf(king) \in 0..7
  BY <1>1, <1>6, Coordinates
<1> HIDE DEF king
<1>8. rook > king <=> FileOf(rook) > FileOf(king)
  BY <1>6, <1>7
<1> QED BY <1>1, <1>3, <1>4, <1>5, <1>6, <1>8, RookAt DEF king

\* The king that the sanitizer finds is the king.
LEMMA KingOfIs ==
  ASSUME NEW fen, WellFormed(fen), Accepted(fen), NEW c \in Color
  PROVE  KingOf(fen.board, c) = KingSq(fen, c)
<1>1. Pieces(fen, {"k"}, c) = {KingSq(fen, c)} /\ \A s \in Occ(fen) : fen.board[s] \in Piece
  BY FenBoard DEF OneKing, Accepted
<1>2. \A s \in Occ(fen) : fen.board[s] = <<c, "k">> <=> s \in Pieces(fen, {"k"}, c)
  BY <1>1 DEF Pieces, Piece, ColorOf, TypeOf
<1>3. \A s \in Occ(fen) : fen.board[s] = <<c, "k">> <=> s = KingSq(fen, c)
  BY <1>1, <1>2
<1>4. KingSq(fen, c) \in Occ(fen)
  BY <1>1 DEF Pieces
<1> QED BY <1>3, <1>4 DEF KingOf, Occ

\* What a token of the sanitized field stands for.
LEMMA TokenIs ==
  ASSUME NEW fen, WellFormed(fen), Accepted(fen), NEW token \in Castling(fen)
  PROVE  \E c \in Color, side \in Side :
           /\ Wing(fen, c, side) # {} /\ Kept(fen) # {}
           /\ RightOf(fen.board, token) = <<c, side>>
           /\ \/ token = <<c, side>> /\ ~IsLetter(token) /\ token \in Right
              \/ IsLetter(token) /\ token[3] \in Wing(fen, c, side)
<1>1. PICK right \in Right : token \in Emitted(fen, right[1], right[2])
  BY DEF Castling
<1> DEFINE c == right[1]
           side == right[2]
           wing == Wing(fen, c, side)
           outermost == IF side = "king" THEN Max(wing) ELSE Min(wing)
<1>2. c \in Color /\ side \in Side
  BY DEF Right
<1>3. /\ wing # {}
      /\ \/ token = <<c, side>> /\ (<<c, side>> \in Kept(fen) \/ outermost \in {f \in wing : Letter(c, f) \in Kept(fen)})
         \/ \E f \in wing : token = Letter(c, f) /\ Letter(c, f) \in Kept(fen)
  BY <1>1 DEF Emitted
<1>4. Kept(fen) # {}
  BY <1>3
<1>5. CASE token = <<c, side>>
  <2>1. ~IsLetter(token) /\ token \in Right
    BY <1>2, <1>5 DEF IsLetter, Side, Right
  <2>2. RightOf(fen.board, token) = <<c, side>>
    BY <1>5, <2>1 DEF RightOf
  <2> QED BY <1>2, <1>3, <1>4, <1>5, <2>1, <2>2
<1>6. CASE \E f \in wing : token = Letter(c, f)
  <2>1. PICK f \in wing : token = Letter(c, f)
    BY <1>6
  <2>2. IsLetter(token) /\ token[3] = f /\ token[1] = c
    BY <2>1 DEF IsLetter, Letter
  <2>3. FileOf(KingSq(fen, c)) = HomeFile(fen, c) /\ ClosestSide(f, HomeFile(fen, c)) = side
    BY <1>2, WingRook DEF Wing
  <2>4. KingOf(fen.board, c) = KingSq(fen, c)
    BY <1>2, KingOfIs
  <2>5. RightOf(fen.board, token) = <<c, side>>
    BY <2>2, <2>3, <2>4 DEF RightOf
  <2> QED BY <1>2, <1>3, <1>4, <2>2, <2>5
<1> QED BY <1>3, <1>5, <1>6

\* The rook on the nearer side of the king, when its wing has one.
LEMMA FindRookIs ==
  ASSUME NEW fen, WellFormed(fen), Accepted(fen), NEW c \in Color, NEW side \in Side, Wing(fen, c, side) # {}
  PROVE  AtHome(fen, c, side, FindRook(fen.board, KingSq(fen, c), side))
<1> DEFINE b == fen.board
           king == KingSq(fen, c)
           rooks == {s \in DOMAIN b : b[s] = <<c, "r">> /\ s # king /\ (s > king) = (side = "king")
                                      /\ RankOf(s) = RelRank(0, c)}
<1>1. king \in Square /\ king \in Pieces(fen, {"k"}, c) /\ Occ(fen) \subseteq Square
      /\ \A s \in Occ(fen) : fen.board[s] \in Piece
  BY FenBoard DEF Accepted
<1>2. ColorOf(b[king]) = c
  BY <1>1 DEF Pieces
<1>3. PICK f \in Wing(fen, c, side) : TRUE
  OBVIOUS
<1>4. AtHome(fen, c, side, f)
  BY <1>3, WingRook
<1>5. BackRank(king, c) /\ \E rook \in Pieces(fen, {"r"}, c) : RankOf(rook) = RankOf(king) /\ (rook > king <=> side = "king")
  <2>1. RankOf(SquareAt(f, RankOf(king))) = RankOf(king)
    <3>1. f \in 0..7 /\ RankOf(king) \in 0..7
      BY <1>1, <1>4, Coordinates DEF AtHome, File
    <3> HIDE DEF king
    <3> QED BY <3>1, SquareOf
  <2> QED BY <1>4, <2>1 DEF AtHome
<1>6. rooks # {}
  <2>1. PICK rook \in Pieces(fen, {"r"}, c) : RankOf(rook) = RankOf(king) /\ (rook > king <=> side = "king")
    BY <1>5
  <2>2. b[rook] = <<c, "r">> /\ rook \in DOMAIN b
    BY <1>1, <2>1 DEF Pieces, Piece, ColorOf, TypeOf, Occ
  <2>3. rook # king
    BY <1>1, <2>1 DEF Pieces
  <2>4. RankOf(rook) = RelRank(0, c)
    BY <1>5, <2>1 DEF BackRank
  <2> HIDE DEF king
  <2> QED BY <2>1, <2>2, <2>3, <2>4
<1>7. rooks \in SUBSET Square
  BY <1>1 DEF Occ
<1> DEFINE rook == IF side = "king" THEN Min(rooks) ELSE Max(rooks)
<1>8. rook \in rooks
  <2> HIDE DEF rooks
  <2>1. rooks \in SUBSET Nat
    BY <1>7 DEF Square
  <2> QED BY <1>6, <1>7, <2>1, SmallestIn, LargestIn
<1>9. FindRook(b, king, side) = FileOf(rook)
  <2>1. FindRook(b, king, side) = IF rooks = {} THEN NoFile
                                  ELSE FileOf(IF side = "king" THEN Min(rooks) ELSE Max(rooks))
    BY <1>2 DEF FindRook
  <2> HIDE DEF rooks
  <2> QED BY <1>6, <2>1
<1>10. rook \in Square /\ rook \in Pieces(fen, {"r"}, c) /\ BackRank(rook, c) /\ (rook > king <=> side = "king")
  <2>1. rook \in Occ(fen) /\ b[rook] = <<c, "r">> /\ RankOf(rook) = RelRank(0, c) /\ (rook > king <=> side = "king")
    <3> HIDE DEF rook
    <3> QED BY <1>8 DEF Occ
  <2> HIDE DEF rook, king
  <2> QED BY <1>1, <2>1 DEF Pieces, BackRank, ColorOf, TypeOf
<1> HIDE DEF rook, king
<1> QED BY <1>1, <1>5, <1>9, <1>10, RookAt DEF king

\* The file a right is given is that of its rook.
LEMMA RightRook ==
  ASSUME NEW fen, WellFormed(fen), Accepted(fen), NEW frc \in Implied960(fen),
         NEW token \in Castling(fen), NEW c \in Color, NEW side \in Side, RightOf(fen.board, token) = <<c, side>>
  PROVE  /\ AtHome(fen, c, side, RookOf(fen.board, frc, token))
         /\ ~frc => FileOf(KingSq(fen, c)) = 4 /\ RookOf(fen.board, frc, token) = Corner(side)
<1>1. /\ Wing(fen, c, side) # {} /\ Kept(fen) # {}
      /\ \/ token = <<c, side>> /\ ~IsLetter(token) /\ token \in Right
         \/ IsLetter(token) /\ token[3] \in Wing(fen, c, side)
  <2>1. PICK c2 \in Color, side2 \in Side :
           /\ Wing(fen, c2, side2) # {} /\ Kept(fen) # {}
           /\ RightOf(fen.board, token) = <<c2, side2>>
           /\ \/ token = <<c2, side2>> /\ ~IsLetter(token) /\ token \in Right
              \/ IsLetter(token) /\ token[3] \in Wing(fen, c2, side2)
    BY TokenIs
  <2>2. c2 = c /\ side2 = side
    BY <2>1
  <2> QED BY <2>1, <2>2
<1>2. /\ (\E t \in Castling(fen) : IsLetter(t)) => frc = TRUE
      /\ ~frc => \A right \in Castling(fen) \cap Right : CornerOK(fen, right)
  <2>1. Implied960(fen) = {\/ \E t \in Castling(fen) : IsLetter(t)
                           \/ \E right \in Kept(fen) \cap Right : HomeFile(fen, right[1]) # 4
                           \/ \E right \in Castling(fen) \cap Right : ~CornerOK(fen, right)}
    BY <1>1 DEF Implied960
  <2> QED BY <2>1
<1>3. CASE IsLetter(token) /\ token[3] \in Wing(fen, c, side)
  <2>1. RookOf(fen.board, frc, token) = token[3]
    BY <1>3 DEF RookOf
  <2> QED BY <1>2, <1>3, <2>1, WingRook
<1>4. CASE token = <<c, side>> /\ ~IsLetter(token) /\ token \in Right
  <2>0. KingOf(fen.board, c) = KingSq(fen, c)
    BY KingOfIs
  <2>1. CASE frc
    <3>1. RookOf(fen.board, frc, token) = FindRook(fen.board, KingSq(fen, c), side)
      BY <1>4, <2>0, <2>1 DEF RookOf
    <3> QED BY <1>1, <2>1, <3>1, FindRookIs
  <2>2. CASE ~frc
    <3>1. RookOf(fen.board, frc, token) = Corner(side)
      BY <1>4, <2>2 DEF RookOf
    <3>2. HomeFile(fen, c) = 4 /\ Corner(side) \in HomeRooks(fen, c)
      BY <1>2, <1>4, <2>2 DEF CornerOK
    <3>3. BackRank(KingSq(fen, c), c) /\ FileOf(KingSq(fen, c)) = 4
      BY <3>2 DEF HomeFile
    <3>4. Corner(side) \in Wing(fen, c, side)
      BY <3>2 DEF Wing, Corner, ClosestSide, KingSideIf, Side
    <3> QED BY <3>1, <3>3, <3>4, WingRook
  <2> QED BY <2>1, <2>2
<1> QED BY <1>1, <1>3, <1>4

\* The rights a position begins with have their king and rook at home.
LEMMA RightsBegun ==
  ASSUME NEW fen, WellFormed(fen), Accepted(fen), NEW frc \in Implied960(fen), NEW right \in Right
  PROVE  LET file == RightsOf(Sanitized(fen), frc)[right]
         IN \/ file = NoFile
            \/ /\ AtHome(fen, right[1], right[2], file)
               /\ ~frc => FileOf(KingSq(fen, right[1])) = 4 /\ file = Corner(right[2])
<1> DEFINE f == Sanitized(fen)
           tokens == {token \in f.cr : RightOf(f.board, token) = right}
           file == RightsOf(f, frc)[right]
<1>1. f.board = fen.board /\ f.cr = Castling(fen)
  BY SanitizedIs
<1>2. file = IF tokens = {} THEN NoFile ELSE RookOf(f.board, frc, CHOOSE token \in tokens : TRUE)
  BY DEF RightsOf
<1>3. right[1] \in Color /\ right[2] \in Side /\ right = <<right[1], right[2]>>
  BY DEF Right
<1>4. CASE tokens # {}
  <2> DEFINE token == CHOOSE token \in tokens : TRUE
  <2>1. token \in tokens
    BY <1>4
  <2> HIDE DEF token
  <2>2. token \in Castling(fen) /\ RightOf(fen.board, token) = <<right[1], right[2]>>
    BY <1>1, <1>3, <2>1
  <2>3. file = RookOf(fen.board, frc, token)
    BY <1>1, <1>2, <1>4 DEF token
  <2> QED BY <1>3, <2>2, <2>3, RightRook
<1> QED BY <1>2, <1>4

\* A position that is read from a FEN the sanitizer accepts is sound.
LEMMA BegunSound ==
  ASSUME NEW fen, WellFormed(fen), Accepted(fen), EpExplained(fen), NEW frc \in Implied960(fen)
  PROVE  Sound(BoardOf(Sanitized(fen), frc))
<1> DEFINE f == Sanitized(fen)
           p == BoardOf(f, frc)
<1>1. /\ p.board = fen.board /\ p.stm = fen.stm /\ p.frc = frc /\ p.cr = RightsOf(f, frc)
      /\ p.ep # NoSq => p.ep = fen.ep /\ EpPossible(fen)
      /\ p.path = [right \in Right |-> IF p.cr[right] = NoFile THEN {} ELSE PathOf(p, right)]
      /\ p \in [board : {p.board}, stm : {p.stm}, ep : {p.ep}, frc : {p.frc}, cr : {p.cr}, path : {p.path}]
  <2>1. /\ p.board = f.board /\ p.stm = f.stm /\ p.frc = frc /\ p.cr = RightsOf(f, frc)
        /\ p.ep # NoSq => p.ep = f.ep
        /\ p.path = [right \in Right |-> IF p.cr[right] = NoFile THEN {} ELSE PathOf(p, right)]
        /\ p \in [board : {p.board}, stm : {p.stm}, ep : {p.ep}, frc : {p.frc}, cr : {p.cr}, path : {p.path}]
    BY BoardIs
  <2>2. f.board = fen.board /\ f.stm = fen.stm /\ f.ep = IF EpKept(fen) THEN fen.ep ELSE NoSq
    BY SanitizedIs
  <2> HIDE DEF p, f
  <2> QED BY <2>1, <2>2 DEF EpKept
<1>2. \A right \in Right : \/ p.cr[right] = NoFile
                           \/ /\ AtHome(fen, right[1], right[2], p.cr[right])
                              /\ ~frc => FileOf(KingSq(fen, right[1])) = 4 /\ p.cr[right] = Corner(right[2])
  BY <1>1, RightsBegun
<1>3. DOMAIN p.cr = Right /\ p.cr = [right \in Right |-> p.cr[right]]
  BY <1>1 DEF RightsOf
<1> HIDE DEF p, f
<1>4. /\ Occ(p) = Occ(fen) /\ \A c : Us(p, c) = Us(fen, c) /\ KingSq(p, c) = KingSq(fen, c)
      /\ \A types, c : Pieces(p, types, c) = Pieces(fen, types, c)
  BY <1>1, SameBoard
<1>5. /\ \A c \in Color : PlacementOK(fen, c) /\ ChecksOK(fen, c)
      /\ fen.stm \in Color /\ fen.ep \in Square \cup {NoSq} /\ frc \in BOOLEAN
  <2> DEFINE b == \/ \E token \in Castling(fen) : IsLetter(token)
                  \/ \E right \in Kept(fen) \cap Right : HomeFile(fen, right[1]) # 4
                  \/ \E right \in Castling(fen) \cap Right : ~CornerOK(fen, right)
  <2>1. b \in BOOLEAN
    OBVIOUS
  <2>2. Implied960(fen) = IF fen.cr # {} /\ Kept(fen) = {} THEN BOOLEAN ELSE {b}
    BY DEF Implied960
  <2> HIDE DEF b
  <2>3. frc \in BOOLEAN
    BY <2>1, <2>2
  <2> QED BY <2>3 DEF Accepted, WellFormed
<1>6. /\ fen.board \in Boards /\ OneKing(fen) /\ PawnsInside(fen) /\ Calm(fen) /\ FewChecks(fen)
      /\ \A c \in Color : KingSq(fen, c) \in Square
      /\ \A types, c : Pieces(fen, types, c) \in SUBSET Square
  BY <1>5, FenBoard, CalmAccepted, FewAccepted
<1>7. ASSUME NEW right \in Right, p.cr[right] # NoFile
      PROVE  /\ RightHeld(p, right) /\ PathOf(p, right) \in SUBSET Square
  <2> DEFINE king == KingSq(p, right[1])
             rook == SquareAt(p.cr[right], RankOf(king))
  <2>1. right[1] \in Color /\ right[2] \in Side
    BY DEF Right
  <2>2. /\ BackRank(king, right[1]) /\ rook \in Pieces(p, {"r"}, right[1])
        /\ rook > king <=> right[2] = "king"
        /\ p.cr[right] \in File
        /\ ~p.frc => FileOf(king) = 4 /\ p.cr[right] = Corner(right[2])
    BY <1>1, <1>2, <1>4, <1>7 DEF AtHome
  <2>3. p.path[right] = PathOf(p, right)
    BY <1>1, <1>7
  <2>4. king \in Square /\ rook \in Square
    BY <1>4, <1>6, <2>1, <2>2
  <2>5. KingTo(right[2], right[1]) \in Square /\ RookTo(right[2], right[1]) \in Square
    BY <2>1, HomeSquares
  <2> HIDE DEF king, rook
  <2>6. Between[rook][RookTo(right[2], right[1])] \subseteq Square /\ Between[king][KingTo(right[2], right[1])] \subseteq Square
    BY <2>4, <2>5, BetweenIs
  <2>7. PathOf(p, right) \in SUBSET Square
    BY <2>6 DEF PathOf, king, rook
  <2> QED BY <2>2, <2>3, <2>7 DEF RightHeld, king, rook
<1>8. p.cr \in [Right -> File \cup {NoFile}]
  BY <1>2, <1>3 DEF AtHome
<1>9. p.path \in [Right -> SUBSET Square]
  <2>1. \A right \in Right : (IF p.cr[right] = NoFile THEN {} ELSE PathOf(p, right)) \in SUBSET Square
    BY <1>7
  <2> QED BY <1>1, <2>1
<1>10. p.ep \in Square \cup {NoSq}
  BY <1>1, <1>5
<1>11. p \in Position
  BY <1>1, <1>5, <1>6, <1>8, <1>9, <1>10, Assembled
<1>12. OneKing(p) /\ PawnsInside(p)
  BY <1>1, <1>4, <1>6 DEF OneKing, PawnsInside
<1>13. Calm(p)
  BY <1>1, <1>4, <1>6 DEF Calm, Hits
<1>14. FewChecks(p)
  BY <1>1, <1>4, <1>6 DEF FewChecks, ByLeap, ByDiagonal, ByLine, ByPawn, ByKnight, OnDiagonals, OnLines
<1>15. EpHeld(p)
  <2>1. SUFFICES ASSUME p.ep # NoSq
                 PROVE  /\ RankOf(p.ep) = RelRank(5, p.stm) /\ p.ep \notin Occ(p)
                        /\ EpSquare(p.ep) \in Pieces(p, {"p"}, Other(p.stm))
                        /\ EpQuiet(p)
    BY DEF EpHeld
  <2>2. /\ RankOf(fen.ep) = RelRank(5, fen.stm) /\ fen.ep \notin Occ(fen)
        /\ EpSquare(fen.ep) \in Pieces(fen, {"p"}, Other(fen.stm))
        /\ EpQuiet(fen)
    BY <1>1, <2>1, QuietAccepted
  <2>3. EpQuiet(p)
    BY <1>1, <1>4, <2>1, <2>2 DEF EpQuiet, OwnKing
  <2> QED BY <1>1, <1>4, <2>1, <2>2, <2>3
<1>16. RightsHeld(p)
  BY <1>7 DEF RightsHeld
<1> QED BY <1>11, <1>12, <1>13, <1>14, <1>15, <1>16 DEF Sound, p, f

----------------------------------------
(* A sound position written as a FEN *)

\* A position that was played gives a FEN that is well formed and explained.
LEMMA FenOfSound ==
  ASSUME NEW p, Sound(p)
  PROVE  WellFormed(GetFen(p)) /\ EpExplained(GetFen(p))
<1> DEFINE fen == GetFen(p)
<1>1. /\ fen.board = p.board /\ fen.stm = p.stm /\ fen.ep = p.ep /\ fen.cr = CastleTokens(p)
      /\ fen = [board |-> fen.board, stm |-> fen.stm, cr |-> fen.cr, ep |-> fen.ep]
  BY DEF GetFen
<1> HIDE DEF fen
<1>2. /\ Occ(fen) = Occ(p) /\ \A c : KingSq(fen, c) = KingSq(p, c)
      /\ \A types, c : Pieces(fen, types, c) = Pieces(p, types, c)
  BY <1>1, SameBoard
<1>3. /\ p \in Position /\ Occ(p) \in SUBSET Square /\ p.board \in [Occ(p) -> Piece] /\ p.stm \in Color
      /\ p.ep \in Square \cup {NoSq}
  BY PositionTypes DEF Sound
<1>4. fen.cr \subseteq Right \cup {Letter(c, f) : c \in Color, f \in File}
  <2>1. p.cr \in [Right -> File \cup {NoFile}]
    BY <1>3 DEF Position
  <2>2. ASSUME NEW right \in Right, p.cr[right] # NoFile
        PROVE  Letter(right[1], p.cr[right]) \in {Letter(c, f) : c \in Color, f \in File}
    <3>1. right[1] \in Color /\ p.cr[right] \in File
      BY <2>1, <2>2 DEF Right
    <3> QED BY <3>1
  <2>3. \A right \in Right : p.cr[right] # NoFile =>
           (IF p.frc THEN Letter(right[1], p.cr[right]) ELSE right) \in Right \cup {Letter(c, f) : c \in Color, f \in File}
    BY <2>2
  <2> QED BY <1>1, <2>3 DEF CastleTokens
<1>5. WellFormed(fen)
  <2>1. fen.board = [s \in Occ(fen) |-> fen.board[s]] /\ \A s \in Occ(fen) : fen.board[s] \in Piece
    BY <1>1, <1>2, <1>3
  <2> QED BY <1>1, <1>2, <1>3, <1>4, <2>1 DEF WellFormed
<1>6. EpExplained(fen)
  <2>1. SUFFICES ASSUME EpPossible(fen)
                 PROVE  /\ fen.ep \notin Occ(fen)
                        /\ BishopAttacks(KingSq(fen, fen.stm), Occ(fen) \ {EpSquare(fen.ep)})
                              \cap Pieces(fen, {"b", "q"}, Other(fen.stm))
                           \subseteq BishopAttacks(KingSq(fen, fen.stm), Occ(fen))
    BY DEF EpExplained
  <2>2. p.ep # NoSq
    BY <1>1, <2>1 DEF EpPossible
  <2>3. p.ep \notin Occ(p) /\ EpQuiet(p)
    BY <2>2 DEF Sound, EpHeld
  <2> DEFINE k == OwnKing(p)
  <2>4. k \in Square
    BY Sides
  <2> HIDE DEF k
  <2>5. ASSUME NEW a \in Pieces(p, {"b", "q"}, Other(p.stm)), a \in BishopAttacks(k, Occ(p) \ {EpSquare(p.ep)})
        PROVE  a \in BishopAttacks(k, Occ(p))
    <3>1. a \in Square /\ Diag(k, a) /\ Clear(k, a, Occ(p) \ {EpSquare(p.ep)})
      BY <2>4, <2>5, BishopSees
    <3>2. Clear(k, a, Occ(p))
      BY <2>3, <3>1 DEF EpQuiet, k
    <3> QED BY <2>4, <3>1, <3>2, BishopSees
  <2> QED BY <1>1, <1>2, <2>3, <2>5 DEF k, OwnKing
<1> QED BY <1>5, <1>6 DEF fen

\* The two forms of a legal move.
LEMMA LegalKinds ==
  ASSUME NEW p, Sound(p), NEW m \in LegalMoves(p)
  PROVE  Travels(p, m) \/ \E side \in Side : Castles(p, m, side)
<1>1. KingMove(p, m) \/ CastlingMove(p, m) \/ OtherMove(p, m)
  <2>1. p.ep \in Int /\ p.stm \in Color /\ Pieces(p, {"p"}, p.stm) \in SUBSET Int
    BY Sides, PositionTypes DEF Square
  <2> QED BY <2>1, LegalShape
<1> QED BY <1>1, CastlingIs, KingTravels, OtherTravels

\* What is in an exclusive or.
LEMMA XorIn ==
  ASSUME NEW A, NEW B, NEW x
  PROVE  x \in A ## B <=> (x \in A <=> x \notin B)
BY DEF ##, SymDiff

RightsOn(p) == {right \in Right : p.cr[right] # NoFile}

\* Features of different kinds differ.
LEMMA Tags ==
  ASSUME NEW x
  PROVE  /\ \A board : x \in Features(board) => x[1] = "piece"
         /\ \A rights : x \in RightKeys(rights) => x[1] = "castling"
         /\ \A ep : x \in EpKey(ep) => x[1] = "enpassant"
         /\ x \in StmKey => x[1] = "stm"
<1>1. ASSUME NEW board, x \in Features(board) PROVE x[1] = "piece"
  <2>1. PICK s \in DOMAIN board : x = <<"piece", board[s], s>>
    BY <1>1 DEF Features
  <2> QED BY <2>1
<1>2. ASSUME NEW rights, x \in RightKeys(rights) PROVE x[1] = "castling"
  BY <1>2 DEF RightKeys
<1>3. ASSUME NEW ep, x \in EpKey(ep) PROVE x[1] = "enpassant"
  BY <1>3 DEF EpKey
<1>4. x \in StmKey => x[1] = "stm"
  BY DEF StmKey
<1> QED BY <1>1, <1>2, <1>3, <1>4

\* The parts of two keys are toggled one by one.
LEMMA KeyByParts ==
  ASSUME NEW p, NEW q, NEW off, NEW on, NEW lost,
         p.stm \in Color, q.stm = Other(p.stm),
         \A x : x \in Features(q.board) <=> (x \in Features(p.board) /\ x \notin Features(off)) \/ x \in Features(on),
         \A x : x \in Features(off) => x \in Features(p.board),
         \A x : x \in Features(on) => x \notin Features(p.board) \/ x \in Features(off),
         RightsOn(q) = RightsOn(p) \ lost, lost \subseteq RightsOn(p)
  PROVE  Zobrist(q) = Zobrist(p) ## (EpKey(p.ep) ## RightKeys(lost) ## EpKey(q.ep)
                                     ## Features(off) ## Features(on) ## StmKey)
<1> DEFINE Z(r) == Features(r.board) \cup EpKey(r.ep) \cup RightKeys(RightsOn(r)) \cup IF r.stm = White THEN StmKey ELSE {}
           toggles == EpKey(p.ep) ## RightKeys(lost) ## EpKey(q.ep) ## Features(off) ## Features(on) ## StmKey
<1>1. Zobrist(p) = Z(p) /\ Zobrist(q) = Z(q)
  BY DEF Zobrist, RightsOn
<1>2. ASSUME NEW x PROVE x \in Z(q) <=> (x \in Z(p) <=> x \notin toggles)
  <2>1. x \in RightKeys(RightsOn(q)) <=> x \in RightKeys(RightsOn(p)) /\ x \notin RightKeys(lost)
    BY DEF RightKeys
  <2>2. x \in RightKeys(lost) => x \in RightKeys(RightsOn(p))
    BY DEF RightKeys
  <2>3. (p.stm = White) <=> ~(q.stm = White)
    BY DEF Color, White, Black, Other
  <2> DEFINE e1 == x \in EpKey(p.ep)
             e2 == x \in EpKey(q.ep)
             f1 == x \in Features(p.board)
             f2 == x \in Features(q.board)
             fo == x \in Features(off)
             fn == x \in Features(on)
             r1 == x \in RightKeys(RightsOn(p))
             r2 == x \in RightKeys(RightsOn(q))
             rl == x \in RightKeys(lost)
             s == x \in StmKey
             w1 == p.stm = White
             w2 == q.stm = White
  <2>4. x \in Z(p) <=> f1 \/ e1 \/ r1 \/ (w1 /\ s)
    OBVIOUS
  <2>5. x \in Z(q) <=> f2 \/ e2 \/ r2 \/ (w2 /\ s)
    OBVIOUS
  <2>6. x \in toggles <=> ~(~(~(~(~(e1 <=> rl) <=> e2) <=> fo) <=> fn) <=> s)
    BY XorIn
  <2>7. /\ f1 \/ f2 \/ fo \/ fn => ~e1 /\ ~e2 /\ ~r1 /\ ~r2 /\ ~rl /\ ~s
        /\ e1 \/ e2 => ~r1 /\ ~r2 /\ ~rl /\ ~s
        /\ r1 \/ r2 \/ rl => ~s
    BY Tags
  <2>8. /\ f2 <=> (f1 /\ ~fo) \/ fn
        /\ fo => f1
        /\ fn => ~f1 \/ fo
        /\ r2 <=> r1 /\ ~rl
        /\ rl => r1
        /\ w1 <=> ~w2
    BY <2>1, <2>2, <2>3
  <2> HIDE DEF e1, e2, f1, f2, fo, fn, r1, r2, rl, s, w1, w2, Z, toggles
  <2> QED BY <2>4, <2>5, <2>6, <2>7, <2>8
<1> HIDE DEF Z, toggles
<1>3. \A x : x \in Z(q) <=> x \in Z(p) ## toggles
  BY <1>2, XorIn
<1>4. Z(q) = Z(p) ## toggles
  BY <1>3
<1> QED BY <1>1, <1>4 DEF toggles

\* The features of a board are its pieces on their squares.
LEMMA FeatureIs ==
  ASSUME NEW board, NEW x
  PROVE  x \in Features(board) <=> \E s \in DOMAIN board : x = <<"piece", board[s], s>>
BY DEF Features

\* The pieces of a board after some are taken off and some put on.
LEMMA FeaturesMade ==
  ASSUME NEW board, NEW left1 \in SUBSET (DOMAIN board), NEW new,
         \A s \in DOMAIN new : s \in DOMAIN board => s \in left1, NEW x
  PROVE  LET after == Placed(new, board, DOMAIN board \ left1)
             off == Restrict(board, left1)
         IN /\ x \in Features(after) <=> (x \in Features(board) /\ x \notin Features(off)) \/ x \in Features(new)
            /\ x \in Features(off) => x \in Features(board)
            /\ x \in Features(new) => x \notin Features(board) \/ x \in Features(off)
<1> DEFINE after == Placed(new, board, DOMAIN board \ left1)
           off == Restrict(board, left1)
           F(b, s) == x = <<"piece", b[s], s>>
<1>1. /\ DOMAIN after = DOMAIN new \cup (DOMAIN board \ left1)
      /\ \A s \in DOMAIN new : after[s] = new[s]
      /\ \A s \in DOMAIN board \ left1 : after[s] = board[s]
  BY DEF Placed
<1>2. DOMAIN off = left1 /\ \A s \in left1 : off[s] = board[s]
  BY DEF Restrict
<1> HIDE DEF after, off
<1>3. /\ x \in Features(after) <=> \E s \in DOMAIN after : F(after, s)
      /\ x \in Features(off) <=> \E s \in DOMAIN off : F(off, s)
      /\ x \in Features(board) <=> \E s \in DOMAIN board : F(board, s)
      /\ x \in Features(new) <=> \E s \in DOMAIN new : F(new, s)
  BY FeatureIs
<1>4. ASSUME NEW b1, NEW b2, NEW s, NEW t, F(b1, s), F(b2, t) PROVE s = t
  BY <1>4
<1>5. \A s \in left1 : F(off, s) <=> F(board, s)
  BY <1>2
<1>6. \A s \in DOMAIN new : F(after, s) <=> F(new, s)
  BY <1>1
<1>7. \A s \in DOMAIN board \ left1 : F(after, s) <=> F(board, s)
  BY <1>1
<1> HIDE DEF F
<1>8. x \in Features(off) => x \in Features(board)
  BY <1>2, <1>3, <1>5
<1>9. x \in Features(board) /\ x \notin Features(off) <=> \E s \in DOMAIN board \ left1 : F(board, s)
  BY <1>2, <1>3, <1>4, <1>5
<1>10. x \in Features(after) <=> (x \in Features(board) /\ x \notin Features(off)) \/ x \in Features(new)
  BY <1>1, <1>3, <1>6, <1>7, <1>9
<1>11. x \in Features(new) => x \notin Features(board) \/ x \in Features(off)
  BY <1>2, <1>3, <1>4, <1>5
<1> QED BY <1>8, <1>10, <1>11 DEF after, off

\* The fields of a move, of whatever kind.
LEMMA MadeFields ==
  ASSUME NEW p \in Position, NEW m
  PROVE  LET q == MakeMove(p, m)
         IN /\ q.board = Placed(Moved(p, m), p.board, Occ(p) \ Left(p, m)) /\ q.stm = Other(p.stm)
            /\ q.ep = EpAfter(p, m) /\ q.frc = p.frc /\ q.path = p.path
            /\ q.cr = [right \in Right |-> IF right \in RightsLost(p, m) THEN NoFile ELSE p.cr[right]]
            /\ q \in [board : {q.board}, stm : {q.stm}, ep : {q.ep}, frc : {q.frc}, cr : {q.cr}, path : {q.path}]
<1> DEFINE q == MakeMove(p, m)
           r == [right \in Right |-> IF right \in RightsLost(p, m) THEN NoFile ELSE p.cr[right]]
           b == Placed(Moved(p, m), p.board, Occ(p) \ Left(p, m))
<1>1. q = [p EXCEPT !.board = b, !.stm = Other(p.stm), !.ep = EpAfter(p, m), !.cr = r]
  BY DEF MakeMove
<1> HIDE DEF q, b, r
<1>2. q.board = b /\ q.stm = Other(p.stm) /\ q.ep = EpAfter(p, m) /\ q.cr = r /\ q.frc = p.frc /\ q.path = p.path
  BY <1>1, Refielded
<1>3. q \in [board : {q.board}, stm : {q.stm}, ep : {q.ep}, frc : {q.frc}, cr : {q.cr}, path : {q.path}]
  BY <1>1, Refielded
<1> QED BY <1>2, <1>3 DEF q, r, b

\* Only rights that are there are lost, so that the key loses them once.
LEMMA LostAreOn ==
  ASSUME NEW p, Sound(p), NEW m \in LegalMoves(p)
  PROVE  RightsLost(p, m) \subseteq RightsOn(p)
<1>1. p.stm \in Color /\ Other(p.stm) \in Color /\ m.from \in Square /\ m.to \in Square
  <2>1. CASE Travels(p, m)
    BY <2>1, Sides DEF Travels, Ordinary
  <2>2. CASE \E side \in Side : Castles(p, m, side)
    BY <2>2, Sides DEF Castles, Exchanges
  <2> QED BY <2>1, <2>2, LegalKinds
<1>2. ASSUME NEW c \in Color, NEW s \in Square PROVE RookRights(p, c, s) \subseteq RightsOn(p)
  <2>1. FileOf(s) # NoFile
    BY Coordinates DEF NoFile
  <2>2. <<c, ClosestSide(s, KingSq(p, c))>> \in Right
    BY DEF Right, Side, ClosestSide, KingSideIf
  <2> QED BY <2>1, <2>2 DEF RookRights, RightsOn
<1>3. {right \in Right : right[1] = p.stm /\ p.cr[right] # NoFile} \subseteq RightsOn(p)
  BY DEF RightsOn
<1> DEFINE c == p.stm
           type == TypeOf(p.board[m.from])
           a == IF IsCapture(p, m) /\ TypeOf(p.board[m.to]) = "r" THEN RookRights(p, Other(c), m.to) ELSE {}
           b == CASE type = "k" -> {right \in Right : right[1] = c /\ p.cr[right] # NoFile}
                  [] type = "r" -> RookRights(p, c, m.from)
                  [] OTHER -> {}
<1>4. RightsLost(p, m) = a \cup b
  BY DEF RightsLost
<1>5. a \subseteq RightsOn(p)
  BY <1>1, <1>2
<1>6. b \subseteq RightsOn(p)
  <2>1. CASE type = "k"
    BY <1>3, <2>1
  <2>2. CASE type = "r"
    BY <1>1, <1>2, <2>2
  <2>3. CASE type # "k" /\ type # "r"
    BY <2>3
  <2> QED BY <2>1, <2>2, <2>3
<1> QED BY <1>4, <1>5, <1>6

\* What leaves the board stood there, and what comes finds its square empty.
LEMMA Leaves ==
  ASSUME NEW p, Sound(p), NEW m \in LegalMoves(p)
  PROVE  /\ Left(p, m) \in SUBSET Occ(p)
         /\ \A s \in DOMAIN Moved(p, m) : s \in Occ(p) => s \in Left(p, m)
<1>1. CASE Travels(p, m)
  <2>1. Ordinary(p, m) /\ Us(p, Other(p.stm)) \subseteq Occ(p)
    BY <1>1, Sides DEF Travels
  <2>2. Left(p, m) \in SUBSET Occ(p)
    BY <2>1 DEF Left, Ordinary
  <2>3. DOMAIN Moved(p, m) = {m.to}
    BY <2>1 DEF Moved, Ordinary, Plain
  <2> QED BY <2>2, <2>3 DEF Left
<1>2. ASSUME NEW side \in Side, Castles(p, m, side) PROVE
         /\ Left(p, m) \in SUBSET Occ(p)
         /\ \A s \in DOMAIN Moved(p, m) : s \in Occ(p) => s \in Left(p, m)
  <2>1. /\ m.kind = "castling" /\ m.from = OwnKing(p) /\ CastledTo(m) = side
        /\ \A u \in Occ(p) : u # OwnKing(p) /\ u # m.to => u # KingTo(side, p.stm) /\ u # RookTo(side, p.stm)
    BY <1>2 DEF Castles, Exchanges
  <2>2. Left(p, m) = {m.from, m.to} \cap Occ(p)
    BY <2>1 DEF Left
  <2>3. DOMAIN Moved(p, m) = {KingTo(side, p.stm), RookTo(side, p.stm)}
    BY <2>1 DEF Moved
  <2> QED BY <2>1, <2>2, <2>3
<1> QED BY <1>1, <1>2, LegalKinds

\* The key of the position after a legal move.
LEMMA KeyMade ==
  ASSUME NEW p, Sound(p), NEW m \in LegalMoves(p)
  PROVE  Zobrist(MakeMove(p, m)) = Zobrist(p) ## MoveToggles(p, m)
<1> DEFINE q == MakeMove(p, m)
           off == Restrict(p.board, Left(p, m))
           on == Moved(p, m)
           lost == RightsLost(p, m)
<1>1. p \in Position /\ p.stm \in Color /\ Occ(p) = DOMAIN p.board
  BY Sides DEF Occ
<1>2. /\ q.board = Placed(on, p.board, Occ(p) \ Left(p, m)) /\ q.stm = Other(p.stm)
      /\ q.ep = EpAfter(p, m)
      /\ q.cr = [right \in Right |-> IF right \in lost THEN NoFile ELSE p.cr[right]]
  BY <1>1, MadeFields
<1>3. Left(p, m) \in SUBSET (DOMAIN p.board) /\ \A s \in DOMAIN on : s \in DOMAIN p.board => s \in Left(p, m)
  BY <1>1, Leaves
<1>4. lost \subseteq RightsOn(p)
  BY LostAreOn
<1> HIDE DEF q, off, on, lost
<1>5. \A x : /\ x \in Features(q.board) <=> (x \in Features(p.board) /\ x \notin Features(off)) \/ x \in Features(on)
             /\ x \in Features(off) => x \in Features(p.board)
             /\ x \in Features(on) => x \notin Features(p.board) \/ x \in Features(off)
  <2> DEFINE b == p.board
             L == Left(p, m)
             after == Placed(on, b, DOMAIN b \ L)
  <2>1. q.board = after
    BY <1>1, <1>2
  <2>2. L \in SUBSET (DOMAIN b) /\ \A s \in DOMAIN on : s \in DOMAIN b => s \in L
    BY <1>3
  <2> HIDE DEF b, L
  <2>3. \A x : /\ x \in Features(after) <=> (x \in Features(b) /\ x \notin Features(Restrict(b, L))) \/ x \in Features(on)
               /\ x \in Features(Restrict(b, L)) => x \in Features(b)
               /\ x \in Features(on) => x \notin Features(b) \/ x \in Features(Restrict(b, L))
    BY <2>2, FeaturesMade
  <2> QED BY <2>1, <2>3 DEF off, b, L
<1>6. RightsOn(q) = RightsOn(p) \ lost
  BY <1>2 DEF RightsOn
<1>7. Zobrist(q) = Zobrist(p) ## (EpKey(p.ep) ## RightKeys(lost) ## EpKey(q.ep)
                                     ## Features(off) ## Features(on) ## StmKey)
  BY <1>1, <1>2, <1>4, <1>5, <1>6, KeyByParts
<1>8. MoveToggles(p, m) = EpKey(p.ep) ## RightKeys(lost) ## EpKey(q.ep) ## Features(off) ## Features(on) ## StmKey
  BY <1>2 DEF MoveToggles, lost, off, on
<1> QED BY <1>7, <1>8 DEF q

\* The key after a pass.
LEMMA KeyPassed ==
  ASSUME NEW p, Sound(p)
  PROVE  Zobrist(MakeNullMove(p)) = Zobrist(p) ## NullToggles(p)
<1> DEFINE q == MakeNullMove(p)
<1>1. p \in Position /\ p.stm \in Color
  BY Sides
<1>2. q.board = p.board /\ q.stm = Other(p.stm) /\ q.ep = NoSq /\ q.cr = p.cr
  BY <1>1 DEF MakeNullMove, Position
<1> HIDE DEF q
<1>3. RightsOn(q) = RightsOn(p)
  BY <1>2 DEF RightsOn
<1>4. EpKey(q.ep) = {}
  BY <1>2 DEF EpKey
<1> DEFINE rest == Features(p.board) \cup RightKeys(RightsOn(p))
           A == EpKey(p.ep)
           B == IF p.stm = White THEN StmKey ELSE {}
           C == IF q.stm = White THEN StmKey ELSE {}
<1>5. Zobrist(p) = rest \cup A \cup B /\ Zobrist(q) = rest \cup C
  BY <1>2, <1>3, <1>4 DEF Zobrist, RightsOn
<1>6. (B = StmKey /\ C = {}) \/ (B = {} /\ C = StmKey)
  BY <1>1, <1>2 DEF Color, White, Black, Other
<1>7. \A x : /\ x \in rest => x \notin A /\ x \notin StmKey
             /\ x \in A => x \notin StmKey
  BY Tags
<1> HIDE DEF rest, A, B, C
<1>8. \A x : x \in rest \cup C <=> (x \in rest \cup A \cup B <=> x \notin StmKey ## A)
  BY <1>6, <1>7, XorIn
<1>9. rest \cup C = (rest \cup A \cup B) ## (StmKey ## A)
  BY <1>8, XorIn
<1> QED BY <1>5, <1>9 DEF NullToggles, A, q

\* When a board is what Placed puts together.
LEMMA PlacedIs ==
  ASSUME NEW D, NEW f \in [D -> Piece], NEW new, NEW board, NEW S, DOMAIN new \cup S = D,
         \A s \in DOMAIN new : new[s] = f[s],
         \A s \in S : s \notin DOMAIN new => board[s] = f[s]
  PROVE  Placed(new, board, S) = f
<1>1. Placed(new, board, S) = [s \in D |-> IF s \in DOMAIN new THEN new[s] ELSE board[s]]
  BY DEF Placed
<1>2. \A s \in D : (IF s \in DOMAIN new THEN new[s] ELSE board[s]) = f[s]
  OBVIOUS
<1> QED BY <1>1, <1>2

\* A position is known by its fields.
LEMMA FieldsSame ==
  ASSUME NEW p \in Position, NEW q \in Position,
         q.board = p.board, q.stm = p.stm, q.ep = p.ep, q.frc = p.frc, q.cr = p.cr, q.path = p.path
  PROVE  q = p
<1>1. \A r \in Position : r = [board |-> r.board, stm |-> r.stm, ep |-> r.ep, frc |-> r.frc, cr |-> r.cr, path |-> r.path]
  BY DEF Position
<1>2. q = [board |-> q.board, stm |-> q.stm, ep |-> q.ep, frc |-> q.frc, cr |-> q.cr, path |-> q.path]
  BY <1>1
<1>3. p = [board |-> p.board, stm |-> p.stm, ep |-> p.ep, frc |-> p.frc, cr |-> p.cr, path |-> p.path]
  BY <1>1
<1> QED BY <1>2, <1>3, Zenon

Refit(q, b, s, e, r) == [q EXCEPT !.board = b, !.stm = s, !.ep = e, !.cr = r]

\* A position with all its fields put back is the position.
LEMMA TakenBack ==
  ASSUME NEW p \in Position, NEW q \in Position, NEW b, NEW s, NEW e, NEW r,
         b = p.board, s = p.stm, e = p.ep, r = p.cr, q.frc = p.frc, q.path = p.path
  PROVE  Refit(q, b, s, e, r) = p
<1> DEFINE o == [q EXCEPT !.board = b, !.stm = s, !.ep = e, !.cr = r]
<1>1. /\ o.board = b /\ o.stm = s /\ o.ep = e /\ o.cr = r /\ o.frc = q.frc /\ o.path = q.path
      /\ o \in [board : {o.board}, stm : {o.stm}, ep : {o.ep}, frc : {o.frc}, cr : {o.cr}, path : {o.path}]
  BY Refielded
<1> HIDE DEF o
<1>2. /\ o.board = p.board /\ o.stm = p.stm /\ o.ep = p.ep /\ o.cr = p.cr /\ o.frc = p.frc /\ o.path = p.path
  BY <1>1
<1>3. p.board \in Boards /\ p.stm \in Color /\ p.ep \in Square \cup {NoSq} /\ p.frc \in BOOLEAN
      /\ p.cr \in [Right -> File \cup {NoFile}] /\ p.path \in [Right -> SUBSET Square]
  BY DEF Position
<1>4. o \in Position
  BY <1>1, <1>2, <1>3, Assembled
<1>5. o = p
  BY <1>2, <1>4, FieldsSame
<1> QED BY <1>5 DEF o, Refit

\* The parts unmakeMove puts on and takes off.
Came(p, m) ==
  LET c == Other(p.stm)
      castles == m.kind = "castling"
      back(s) ==
        CASE castles -> <<c, IF s = m.from THEN "k" ELSE "r">>
          [] m.kind = "promotion" -> <<c, "p">>
          [] OTHER -> p.board[m.to]
  IN [s \in IF castles THEN {m.from, m.to} ELSE {m.from} |-> back(s)]
Went(p, m) ==
  IF m.kind = "castling"
  THEN {KingTo(CastledTo(m), Other(p.stm)), RookTo(CastledTo(m), Other(p.stm))} ELSE {m.to}
Rest(p, m, prev) == Placed(Taken(p, m, prev), p.board, Occ(p) \ Went(p, m))

\* unmakeMove in the parts it puts on and takes off.
LEMMA UnmakeIs ==
  ASSUME NEW q, NEW m, NEW prev
  PROVE  UnmakeMove(q, m, prev)
           = [q EXCEPT !.board = Placed(Came(q, m), Rest(q, m, prev), DOMAIN Rest(q, m, prev)),
                       !.stm = Other(q.stm), !.ep = prev.ep, !.cr = prev.cr]
BY DEF UnmakeMove, Came, Rest, Went

\* The board comes back from its parts.
LEMMA BoardBack ==
  ASSUME NEW D, NEW f \in [D -> Piece], NEW came, NEW taken, NEW board, NEW S,
         DOMAIN came \cup DOMAIN taken \cup S = D,
         \A s \in DOMAIN came : came[s] = f[s],
         \A s \in DOMAIN taken : taken[s] = f[s],
         \A s \in S : board[s] = f[s]
  PROVE  Placed(came, Placed(taken, board, S), DOMAIN Placed(taken, board, S)) = f
<1> DEFINE rest == Placed(taken, board, S)
<1>1. DOMAIN rest = DOMAIN taken \cup S
  BY DEF Placed
<1>2. \A s \in DOMAIN taken \cup S : rest[s] = f[s]
  BY DEF Placed
<1> HIDE DEF rest
<1> QED BY <1>1, <1>2, PlacedIs DEF rest

\* What stands where a set of pieces has a square.
LEMMA PieceIs ==
  ASSUME NEW p \in Position, NEW s, NEW c
  PROVE  /\ s \in Pieces(p, {"p"}, c) => p.board[s] = <<c, "p">>
         /\ s \in Pieces(p, {"r"}, c) => p.board[s] = <<c, "r">>
         /\ s \in Pieces(p, {"k"}, c) => p.board[s] = <<c, "k">>
<1>1. s \in Occ(p) => p.board[s] \in Piece
  BY PositionTypes
<1> QED BY <1>1 DEF Piece, ColorOf, TypeOf, Pieces

\* No piece is the sign for nothing.
LEMMA NoPieceNone ==
  ASSUME NEW piece \in Piece
  PROVE  piece # None
<1>1. Len(piece) = 2 /\ Len(None) = 1
  BY DEF Piece, None
<1> QED BY <1>1

\* Taking back a move that is no castling gives the position from before it.
LEMMA TravelBack ==
  ASSUME NEW p, Sound(p), NEW m \in LegalMoves(p), Travels(p, m), NEW n
  PROVE  UnmakeMove(MakeMove(p, m), m, StateOf(p, n, CapturedBy(p, m))) = p
<1> DEFINE q == MakeMove(p, m)
           prev == StateOf(p, n, CapturedBy(p, m))
           c == p.stm
           e == Other(p.stm)
           came == Came(q, m)
           taken == Taken(q, m, prev)
           S == Occ(q) \ Went(q, m)
<1>1. /\ p \in Position /\ Ordinary(p, m) /\ c \in Color /\ Other(e) = c /\ Occ(p) \subseteq Square
      /\ p.board \in [Occ(p) -> Piece] /\ Us(p, e) \subseteq Occ(p) /\ Us(p, c) \subseteq Occ(p)
  BY Sides, PositionTypes DEF Travels
<1>2. /\ q.stm = e /\ Occ(q) = (Occ(p) \ Gone(m)) \cup {m.to} /\ q.board[m.to] = Became(p, m)
      /\ \A u \in Occ(p) : u \notin Gone(m) /\ u # m.to => q.board[u] = p.board[u]
      /\ q.frc = p.frc /\ q.path = p.path
      /\ q \in [board : {q.board}, stm : {q.stm}, ep : {q.ep}, frc : {q.frc}, cr : {q.cr}, path : {q.path}]
  BY <1>1, MadeBoard
<1>3. prev.cr = p.cr /\ prev.ep = p.ep /\ prev.captured = CapturedBy(p, m)
  BY DEF StateOf
<1>4. m.kind \in Plain /\ m.from \in Occ(p) /\ ColorOf(p.board[m.from]) = c
  BY <1>1 DEF Ordinary, Us
<1> HIDE DEF q, prev, c, e
<1>5. DOMAIN came = {m.from} /\ came[m.from] = p.board[m.from]
  <2>1. DOMAIN came = {m.from} /\ came[m.from] = IF m.kind = "promotion" THEN <<Other(q.stm), "p">> ELSE q.board[m.to]
    BY <1>4 DEF Came, Plain
  <2>2. m.kind = "promotion" => p.board[m.from] = <<c, "p">>
    <3>1. m.kind = "promotion" => m.from \in Pieces(p, {"p"}, c)
      BY <1>1, <1>4 DEF Ordinary, Pieces
    <3> QED BY <1>1, <3>1, PieceIs
  <2>3. m.kind # "promotion" => q.board[m.to] = p.board[m.from]
    BY <1>2 DEF Became
  <2> HIDE DEF came
  <2> QED BY <1>1, <1>2, <2>1, <2>2, <2>3
<1>6. S = Occ(p) \ (Gone(m) \cup {m.to})
  BY <1>2, <1>4 DEF Went, Plain
<1>7. /\ \A s \in DOMAIN taken : taken[s] = p.board[s]
      /\ DOMAIN taken = ({m.to} \cap Occ(p)) \cup (Gone(m) \ {m.from})
  <2>1. CASE m.kind = "enpassant"
    <3>1. m.to = p.ep /\ EpSquare(m.to) \in Pieces(p, {"p"}, e) /\ m.to \notin Occ(p) /\ EpSquare(m.to) \in Us(p, e)
      BY <1>1, <2>1 DEF Travels, Ordinary, e
    <3>2. EpSquare(m.to) # m.from
      BY <1>1, <3>1, Sides DEF Ordinary, e, c
    <3>3. taken = [s \in {EpSquare(m.to)} |-> <<e, "p">>]
      BY <1>2, <1>3, <2>1, <3>1 DEF Taken
    <3>4. p.board[EpSquare(m.to)] = <<e, "p">>
      BY <1>1, <3>1, PieceIs
    <3>5. Gone(m) \ {m.from} = {EpSquare(m.to)}
      BY <2>1, <3>2 DEF Gone
    <3> HIDE DEF taken
    <3> QED BY <3>1, <3>3, <3>4, <3>5
  <2>2. CASE m.kind # "enpassant" /\ m.to \in Occ(p)
    <3>1. prev.captured = p.board[m.to] /\ prev.captured # None
      BY <1>1, <1>3, <2>2, NoPieceNone DEF CapturedBy
    <3>2. taken = [s \in {m.to} |-> p.board[m.to]]
      BY <1>4, <2>2, <3>1 DEF Taken, Plain
    <3>3. Gone(m) \ {m.from} = {}
      BY <2>2 DEF Gone
    <3> HIDE DEF taken
    <3> QED BY <2>2, <3>2, <3>3
  <2>3. CASE m.kind # "enpassant" /\ m.to \notin Occ(p)
    <3>1. prev.captured = None
      BY <1>3, <2>3 DEF CapturedBy
    <3>2. taken = <<>>
      BY <1>4, <2>3, <3>1 DEF Taken, Plain
    <3>3. Gone(m) \ {m.from} = {}
      BY <2>3 DEF Gone
    <3> HIDE DEF taken
    <3> QED BY <2>3, <3>2, <3>3
  <2> QED BY <2>1, <2>2, <2>3
<1>8. Gone(m) \subseteq Occ(p) /\ m.from \in Gone(m)
  BY <1>1, <1>4 DEF Gone, Ordinary, e
<1>9. DOMAIN came \cup DOMAIN taken \cup S = Occ(p)
  <2> HIDE DEF came, taken, S
  <2> QED BY <1>5, <1>6, <1>7, <1>8
<1>10. /\ \A s \in DOMAIN came : came[s] = p.board[s]
       /\ \A s \in S : q.board[s] = p.board[s]
  <2> HIDE DEF came, taken, S
  <2> QED BY <1>2, <1>5, <1>6
<1>11. Placed(came, Rest(q, m, prev), DOMAIN Rest(q, m, prev)) = p.board
  <2>1. Rest(q, m, prev) = Placed(taken, q.board, S)
    BY DEF Rest
  <2> HIDE DEF came, taken, S
  <2> QED BY <1>1, <1>7, <1>9, <1>10, <2>1, BoardBack
<1>12. Other(q.stm) = p.stm
  BY <1>1, <1>2 DEF c
<1> DEFINE board == Placed(came, Rest(q, m, prev), DOMAIN Rest(q, m, prev))
<1>13. Refit(q, board, Other(q.stm), prev.ep, prev.cr) = p
  <2>1. board = p.board
    BY <1>11
  <2>2. q \in Position /\ p \in Position
    BY <1>1, MoveSound DEF q, Sound
  <2>3. q.frc = p.frc /\ q.path = p.path
    BY <1>2
  <2> HIDE DEF board
  <2> QED BY <1>3, <1>12, <2>1, <2>2, <2>3, TakenBack
<1> QED BY <1>13, UnmakeIs DEF q, prev, Refit

\* Taking back a castling does, too.
LEMMA CastleBack ==
  ASSUME NEW p, Sound(p), NEW m \in LegalMoves(p), NEW side \in Side, Castles(p, m, side), NEW n
  PROVE  UnmakeMove(MakeMove(p, m), m, StateOf(p, n, CapturedBy(p, m))) = p
<1> DEFINE q == MakeMove(p, m)
           prev == StateOf(p, n, CapturedBy(p, m))
           c == p.stm
           e == Other(p.stm)
           k == OwnKing(p)
           kt == KingTo(side, c)
           rt == RookTo(side, c)
           came == Came(q, m)
           taken == Taken(q, m, prev)
           S == Occ(q) \ Went(q, m)
<1>1. /\ p \in Position /\ c \in Color /\ Other(e) = c /\ p.board \in [Occ(p) -> Piece]
      /\ k \in Pieces(p, {"k"}, c) /\ m.to \in Pieces(p, {"r"}, c)
      /\ m.kind = "castling" /\ m.from = k /\ m.to # k /\ CastledTo(m) = side
      /\ \A types, d : Pieces(p, types, d) \subseteq Occ(p)
  <2>1. k \in Pieces(p, {"k"}, c)
    BY Sides DEF OneKing, OwnKing
  <2>2. \A types, d : Pieces(p, types, d) \subseteq Occ(p)
    BY DEF Pieces
  <2> QED BY <2>1, <2>2, Sides, PositionTypes DEF Castles, Exchanges
<1>2. /\ q.stm = e
      /\ \A u : u \in Occ(q) <=> (u \in Occ(p) /\ u # k /\ u # m.to) \/ u = kt \/ u = rt
      /\ \A u \in Occ(p) : u # k /\ u # m.to => q.board[u] = p.board[u] /\ u # kt /\ u # rt
      /\ q.frc = p.frc /\ q.path = p.path
      /\ q \in [board : {q.board}, stm : {q.stm}, ep : {q.ep}, frc : {q.frc}, cr : {q.cr}, path : {q.path}]
  <2>1. AfterCastling(p, m, q, kt, rt)
    BY MadeCastle DEF Castles
  <2> HIDE DEF q, kt, rt
  <2> QED BY <2>1 DEF AfterCastling
<1>3. prev.cr = p.cr /\ prev.ep = p.ep
  BY DEF StateOf
<1>4. p.board[k] = <<c, "k">> /\ p.board[m.to] = <<c, "r">>
  BY <1>1, PieceIs
<1> HIDE DEF q, prev, c, e, k, kt, rt
<1>5. DOMAIN came = {k, m.to} /\ came[k] = <<c, "k">> /\ came[m.to] = <<c, "r">>
  <2>1. came = [s \in {m.from, m.to} |-> <<Other(q.stm), IF s = m.from THEN "k" ELSE "r">>]
    BY <1>1 DEF Came
  <2> HIDE DEF came
  <2> QED BY <1>1, <1>2, <2>1
<1>6. taken = <<>> /\ DOMAIN taken = {}
  BY <1>1 DEF Taken
<1>7. S = Occ(p) \ {k, m.to}
  <2>1. Went(q, m) = {kt, rt}
    BY <1>1, <1>2 DEF Went, kt, rt
  <2> QED BY <1>2, <2>1
<1>8. Placed(came, Rest(q, m, prev), DOMAIN Rest(q, m, prev)) = p.board
  <2>1. Rest(q, m, prev) = Placed(taken, q.board, S)
    BY DEF Rest
  <2> HIDE DEF came, taken, S
  <2>2. DOMAIN came \cup DOMAIN taken \cup S = Occ(p)
    BY <1>1, <1>5, <1>6, <1>7
  <2>3. /\ \A s \in DOMAIN came : came[s] = p.board[s]
        /\ \A s \in DOMAIN taken : taken[s] = p.board[s]
        /\ \A s \in S : q.board[s] = p.board[s]
    BY <1>2, <1>4, <1>5, <1>6, <1>7
  <2> QED BY <1>1, <2>1, <2>2, <2>3, BoardBack
<1>9. Other(q.stm) = p.stm
  BY <1>1, <1>2 DEF c
<1> DEFINE board == Placed(came, Rest(q, m, prev), DOMAIN Rest(q, m, prev))
<1>10. Refit(q, board, Other(q.stm), prev.ep, prev.cr) = p
  <2>1. board = p.board
    BY <1>8
  <2> HIDE DEF board
  <2>2. q \in Position /\ p \in Position
    BY <1>1, MoveSound DEF q, Sound
  <2>3. q.frc = p.frc /\ q.path = p.path
    BY <1>2
  <2> HIDE DEF board
  <2> QED BY <1>3, <1>9, <2>1, <2>2, <2>3, TakenBack
<1> QED BY <1>10, UnmakeIs DEF q, prev, Refit

\* unmakeMove brings back the position a legal move was made in.
LEMMA MoveBack ==
  ASSUME NEW p, Sound(p), NEW m \in LegalMoves(p), NEW n
  PROVE  UnmakeMove(MakeMove(p, m), m, StateOf(p, n, CapturedBy(p, m))) = p
BY LegalKinds, TravelBack, CastleBack

\* Taking back a pass does, too.
LEMMA PassBack ==
  ASSUME NEW p, Sound(p), ~InCheck(p), NEW n
  PROVE  UnmakeNullMove(MakeNullMove(p), StateOf(p, n, None)) = p
<1> DEFINE q == MakeNullMove(p)
           prev == StateOf(p, n, None)
<1>1. p \in Position /\ q \in Position /\ Other(Other(p.stm)) = p.stm
  BY Sides, PassSound DEF Sound
<1>2. /\ q.board = p.board /\ q.stm = Other(p.stm) /\ q.frc = p.frc /\ q.path = p.path
  BY <1>1 DEF MakeNullMove, Position
<1>3. prev.ep = p.ep /\ prev.cr = p.cr
  BY DEF StateOf
<1>4. UnmakeNullMove(q, prev) = [q EXCEPT !.stm = Other(q.stm), !.ep = prev.ep, !.cr = prev.cr]
  BY DEF UnmakeNullMove
<1> HIDE DEF q, prev
<1>5. [q EXCEPT !.stm = Other(q.stm), !.ep = prev.ep, !.cr = prev.cr]
        = [q EXCEPT !.board = q.board, !.stm = Other(q.stm), !.ep = prev.ep, !.cr = prev.cr]
  BY <1>1 DEF Position
<1>6. Other(q.stm) = p.stm
  BY <1>1, <1>2
<1>7. Refit(q, q.board, Other(q.stm), prev.ep, prev.cr) = p
  BY <1>1, <1>2, <1>3, <1>6, TakenBack
<1> QED BY <1>4, <1>5, <1>7 DEF q, prev, Refit

----------------------------------------
(* The game *)

Clock == 0..ClockSize - 1

\* What a move does to the halfmove clock.
LEMMA ClockRuns ==
  ASSUME NEW p, NEW m, NEW h \in Clock
  PROVE  /\ 0 \in Clock /\ Clock \subseteq Nat /\ Ticked(p, m, h) \in Clock
         /\ Irreversible(p, m) => Ticked(p, m, h) = 0
         /\ ~Irreversible(p, m) /\ h # ClockSize - 1 => Ticked(p, m, h) = h + 1
BY DEF Clock, ClockSize, Ticked

\* What an entry of prev_states says: it was made in a sound position, keeps
\* its key and its state, and led to the position that came next.
LedBy(e, n, next) ==
  \/ /\ e.move \in LegalMoves(e.pos) /\ next = MakeMove(e.pos, e.move)
     /\ e.state = StateOf(e.pos, n, CapturedBy(e.pos, e.move))
  \/ /\ e.move = NullMove /\ ~InCheck(e.pos) /\ next = MakeNullMove(e.pos)
     /\ e.state = StateOf(e.pos, n, None)
Led(e, next) == /\ Sound(e.pos) /\ e.key = Zobrist(e.pos)
                /\ \E n \in Clock : LedBy(e, n, next)

PosAfter(stack, p, i) == IF i = Len(stack) THEN p ELSE stack[i + 1].pos
Chain(stack, p) == /\ stack \in Seq(Range(stack))
                   /\ \A i \in 1..Len(stack) : Led(stack[i], PosAfter(stack, p, i))

\* The inductive invariant: the position is sound, the key is its key, and the
\* stack is the way to it.
Played == Sound(pos) /\ key = Zobrist(pos) /\ hfm \in Clock /\ left \in Nat /\ Chain(prev_states, pos)

\* An empty stack is a chain, from wherever the game begins.
LEMMA ChainEmpty ==
  ASSUME NEW p
  PROVE  Chain(<<>>, p)
BY DEF Chain, Range

\* A sequence is one over its own elements.
LEMMA SequenceOfRange ==
  ASSUME NEW S, NEW q \in Seq(S)
  PROVE  q \in Seq(Range(q)) /\ Len(q) \in Nat
BY DEF Range

\* A move adds a link to the chain.
LEMMA ChainGrows ==
  ASSUME NEW stack, NEW p, Chain(stack, p), NEW e, e.pos = p, NEW q, Led(e, q)
  PROVE  Chain(Append(stack, e), q) /\ Len(Append(stack, e)) = Len(stack) + 1
<1> DEFINE S == Range(stack) \cup {e}
           longer == Append(stack, e)
           n == Len(stack)
<1>1. stack \in Seq(Range(stack)) /\ stack \in Seq(S) /\ e \in S
  BY DEF Chain
<1>2. /\ longer \in Seq(S) /\ Len(longer) = n + 1 /\ n \in Nat
      /\ \A i \in 1..n : longer[i] = stack[i]
      /\ longer[n + 1] = e
  BY <1>1
<1> HIDE DEF longer, S
<1>3. longer \in Seq(Range(longer))
  BY <1>2, SequenceOfRange
<1>4. ASSUME NEW i \in 1..n + 1
      PROVE  Led(longer[i], PosAfter(longer, q, i))
  <2>1. CASE i = n + 1
    <3>1. PosAfter(longer, q, i) = q /\ longer[i] = e
      BY <1>2, <2>1 DEF PosAfter
    <3> QED BY <3>1
  <2>2. CASE i = n
    <3>1. PosAfter(longer, q, i) = p /\ longer[i] = stack[i] /\ PosAfter(stack, p, i) = p
      BY <1>2, <2>2 DEF PosAfter
    <3> QED BY <1>2, <2>2, <3>1 DEF Chain
  <2>3. CASE i < n
    <3>1. PosAfter(longer, q, i) = stack[i + 1].pos /\ longer[i] = stack[i] /\ PosAfter(stack, p, i) = stack[i + 1].pos
      BY <1>2, <2>3 DEF PosAfter
    <3> QED BY <1>2, <2>3, <3>1 DEF Chain
  <2> QED BY <1>2, <2>1, <2>2, <2>3
<1> QED BY <1>2, <1>3, <1>4 DEF Chain, longer

\* A sequence without its last element.
LEMMA BeforeLast ==
  ASSUME NEW S, NEW q \in Seq(S), q # <<>>
  PROVE  /\ Front(q) \in Seq(S) /\ Len(Front(q)) = Len(q) - 1
         /\ \A i \in 1..Len(q) - 1 : Front(q)[i] = q[i]
<1>1. Len(q) \in Nat /\ Len(q) > 0 /\ \A i \in 1..Len(q) : q[i] \in S
  OBVIOUS
<1> DEFINE front == SubSeq(q, 1, Len(q) - 1)
<1>2. 1 \in Int /\ Len(q) - 1 \in Int /\ \A i \in 1..Len(q) - 1 : q[i] \in S
  BY <1>1
<1>3. /\ front \in Seq(S) /\ Len(front) = IF 1 <= Len(q) - 1 THEN (Len(q) - 1) - 1 + 1 ELSE 0
      /\ \A i \in 1..(Len(q) - 1) - 1 + 1 : front[i] = q[1 + i - 1]
  BY <1>2, SubSeqProperties
<1> HIDE DEF front
<1>4. front \in Seq(S) /\ Len(front) = Len(q) - 1 /\ \A i \in 1..Len(q) - 1 : front[i] = q[i]
  <2>1. Len(front) = Len(q) - 1
    <3>1. \A k \in Nat : k > 0 => (IF 1 <= k - 1 THEN (k - 1) - 1 + 1 ELSE 0) = k - 1
      OBVIOUS
    <3>2. Len(q) \in Nat /\ Len(q) > 0
      BY <1>1
    <3>3. (IF 1 <= Len(q) - 1 THEN (Len(q) - 1) - 1 + 1 ELSE 0) = Len(q) - 1
      BY <3>1, <3>2, Zenon
    <3>4. Len(front) = IF 1 <= Len(q) - 1 THEN (Len(q) - 1) - 1 + 1 ELSE 0
      BY <1>3
    <3> QED BY <3>3, <3>4
  <2>2. ASSUME NEW i \in 1..Len(q) - 1 PROVE front[i] = q[i]
    <3>1. i \in 1..(Len(q) - 1) - 1 + 1 /\ 1 + i - 1 = i
      BY <1>1
    <3> QED BY <1>3, <3>1
  <2> QED BY <1>3, <2>1, <2>2
<1> QED BY <1>4 DEF front, Front

\* Taking back removes the last link, which leads to the present position.
LEMMA ChainShrinks ==
  ASSUME NEW stack, NEW p, Chain(stack, p), stack # <<>>
  PROVE  /\ Chain(Front(stack), Last(stack).pos) /\ Led(Last(stack), p)
         /\ Len(Front(stack)) = Len(stack) - 1
<1> DEFINE n == Len(stack)
           front == Front(stack)
<1>1. stack \in Seq(Range(stack)) /\ n \in Nat /\ n > 0 /\ Last(stack) = stack[n]
  BY DEF Chain, Last
<1>2. front \in Seq(Range(stack)) /\ Len(front) = n - 1 /\ \A i \in 1..n - 1 : front[i] = stack[i]
  BY <1>1, BeforeLast
<1> HIDE DEF front
<1>3. Led(Last(stack), p)
  BY <1>1 DEF Chain, PosAfter
<1>4. front \in Seq(Range(front))
  BY <1>2, SequenceOfRange
<1>5. ASSUME NEW i \in 1..n - 1
      PROVE  Led(front[i], PosAfter(front, Last(stack).pos, i))
  <2>1. Led(stack[i], stack[i + 1].pos)
    <3>1. i \in 1..n /\ i # n
      BY <1>1
    <3>2. PosAfter(stack, p, i) = stack[i + 1].pos
      BY <3>1 DEF PosAfter
    <3> QED BY <3>1, <3>2 DEF Chain
  <2>2. front[i] = stack[i]
    BY <1>2
  <2>3. PosAfter(front, Last(stack).pos, i) = stack[i + 1].pos
    BY <1>1, <1>2 DEF PosAfter
  <2> QED BY <2>1, <2>2, <2>3
<1> QED BY <1>2, <1>3, <1>4, <1>5 DEF Chain, front

\* A pass is not a move the generator gives.
LEMMA NoLegalPass ==
  ASSUME NEW p, Sound(p)
  PROVE  NullMove \notin LegalMoves(p)
<1> SUFFICES ASSUME NullMove \in LegalMoves(p) PROVE FALSE
  OBVIOUS
<1>1. Travels(p, NullMove) \/ \E side \in Side : Castles(p, NullMove, side)
  BY LegalKinds
<1>2. NullMove.kind = "null"
  BY DEF NullMove, Move
<1> QED BY <1>1, <1>2 DEF Travels, Ordinary, Castles, Exchanges, Plain

\* What is taken back is the move that was made, and its position comes back.
LEMMA LedBack ==
  ASSUME NEW e, NEW p, Led(e, p)
  PROVE  /\ e.move # NullMove => UnmakeMove(p, e.move, e.state) = e.pos
         /\ e.move = NullMove => UnmakeNullMove(p, e.state) = e.pos
         /\ e.state.hfm \in Clock
<1>1. PICK n \in Clock : LedBy(e, n, p)
  BY DEF Led
<1>2. Sound(e.pos)
  BY DEF Led
<1>3. CASE /\ e.move \in LegalMoves(e.pos) /\ p = MakeMove(e.pos, e.move)
           /\ e.state = StateOf(e.pos, n, CapturedBy(e.pos, e.move))
  <2>1. e.move # NullMove
    BY <1>2, <1>3, NoLegalPass
  <2>2. UnmakeMove(p, e.move, e.state) = e.pos
    BY <1>2, <1>3, MoveBack
  <2>3. e.state.hfm = n
    BY <1>3 DEF StateOf
  <2> QED BY <2>1, <2>2, <2>3
<1>4. CASE /\ e.move = NullMove /\ ~InCheck(e.pos) /\ p = MakeNullMove(e.pos)
           /\ e.state = StateOf(e.pos, n, None)
  <2>1. UnmakeNullMove(p, e.state) = e.pos
    BY <1>2, <1>4, PassBack
  <2>2. e.state.hfm = n
    BY <1>4 DEF StateOf
  <2> QED BY <1>4, <2>1, <2>2
<1> QED BY <1>1, <1>3, <1>4 DEF LedBy

\* A game begins as Played says, from every start that is explained.
LEMMA BegunPlayed ==
  ASSUME StartsExplained, Init
  PROVE  Played
<1>1. PICK start \in Starts : \E frc \in BOOLEAN :
        /\ Accepted(start[1]) /\ frc \in Implied960(start[1])
        /\ Begun(BoardOf(Sanitized(start[1]), frc)) /\ left = start[2]
  BY DEF Init
<1>2. PICK frc \in BOOLEAN :
        /\ Accepted(start[1]) /\ frc \in Implied960(start[1])
        /\ Begun(BoardOf(Sanitized(start[1]), frc)) /\ left = start[2]
  BY <1>1
<1>3. WellFormed(start[1]) /\ start[2] \in Nat /\ EpExplained(start[1])
  BY StartsAssumption DEF StartsExplained
<1> DEFINE p == BoardOf(Sanitized(start[1]), frc)
<1>4. Sound(p)
  BY <1>2, <1>3, BegunSound
<1> HIDE DEF p
<1>5. pos = p /\ key = Zobrist(p) /\ hfm = 0 /\ hfm \in Clock /\ prev_states = <<>>
  BY <1>2 DEF Begun, p, Clock, ClockSize
<1> QED BY <1>2, <1>3, <1>4, <1>5, ChainEmpty DEF Played

\* A move keeps Played.
LEMMA MakePlayed ==
  ASSUME Played, NEW m \in LegalMoves(pos), Make(m)
  PROVE  Played' /\ Len(prev_states') = Len(prev_states) + 1
<1> DEFINE e == [state |-> StateOf(pos, hfm, IF m = NullMove THEN None ELSE CapturedBy(pos, m)),
                 key |-> key, move |-> m, pos |-> pos]
<1>1. Sound(pos) /\ key = Zobrist(pos) /\ hfm \in Clock /\ left \in Nat /\ Chain(prev_states, pos)
  BY DEF Played
<1>2. m # NullMove
  BY <1>1, NoLegalPass
<1>3. /\ e.pos = pos /\ e.key = key /\ e.move = m /\ e.state = StateOf(pos, hfm, CapturedBy(pos, m))
  BY <1>2
<1>4. /\ prev_states' = Append(prev_states, e) /\ pos' = MakeMove(pos, m) /\ key' = key ## MoveToggles(pos, m)
      /\ hfm' \in Clock /\ left' \in Nat
  BY <1>1, ClockRuns DEF Make, Pushed
<1> HIDE DEF e
<1>5. LedBy(e, hfm, pos')
  BY <1>3, <1>4 DEF LedBy
<1>6. Led(e, pos')
  BY <1>1, <1>3, <1>5 DEF Led
<1>7. Chain(prev_states', pos') /\ Len(prev_states') = Len(prev_states) + 1
  BY <1>1, <1>3, <1>4, <1>6, ChainGrows
<1>8. Sound(pos')
  BY <1>1, <1>4, MoveSound
<1>9. key' = Zobrist(pos')
  BY <1>1, <1>4, KeyMade
<1> QED BY <1>4, <1>7, <1>8, <1>9 DEF Played

\* A pass keeps Played.
LEMMA PassPlayed ==
  ASSUME Played, Pass
  PROVE  Played' /\ Len(prev_states') = Len(prev_states) + 1
<1> DEFINE e == [state |-> StateOf(pos, hfm, IF NullMove = NullMove THEN None ELSE CapturedBy(pos, NullMove)),
                 key |-> key, move |-> NullMove, pos |-> pos]
<1>1. Sound(pos) /\ key = Zobrist(pos) /\ hfm \in Clock /\ left \in Nat /\ Chain(prev_states, pos)
  BY DEF Played
<1>2. /\ e.pos = pos /\ e.key = key /\ e.move = NullMove /\ e.state = StateOf(pos, hfm, None)
  OBVIOUS
<1>3. /\ prev_states' = Append(prev_states, e) /\ pos' = MakeNullMove(pos) /\ key' = key ## NullToggles(pos)
      /\ hfm' \in Clock /\ left' \in Nat /\ ~InCheck(pos)
  BY <1>1 DEF Pass, Pushed
<1> HIDE DEF e
<1>4. LedBy(e, hfm, pos')
  BY <1>2, <1>3 DEF LedBy
<1>5. Led(e, pos')
  BY <1>1, <1>2, <1>4 DEF Led
<1>6. Chain(prev_states', pos') /\ Len(prev_states') = Len(prev_states) + 1
  BY <1>1, <1>2, <1>3, <1>5, ChainGrows
<1>7. Sound(pos')
  BY <1>1, <1>3, PassSound
<1>8. key' = Zobrist(pos')
  BY <1>1, <1>3, KeyPassed
<1> QED BY <1>3, <1>6, <1>7, <1>8 DEF Played

\* Taking back keeps Played and returns to the last entry's position.
LEMMA UnmakePlayed ==
  ASSUME Played, Unmake \/ UnmakePass
  PROVE  Played' /\ pos' = Last(prev_states).pos
<1> DEFINE e == Last(prev_states)
<1>1. Chain(prev_states, pos) /\ left \in Nat
  BY DEF Played
<1>2. /\ prev_states # <<>> /\ prev_states' = Front(prev_states) /\ left' \in Nat
      /\ key' = e.key /\ hfm' = e.state.hfm
      /\ \/ e.move # NullMove /\ pos' = UnmakeMove(pos, e.move, e.state)
         \/ e.move = NullMove /\ pos' = UnmakeNullMove(pos, e.state)
  BY <1>1 DEF Unmake, UnmakePass
<1>3. Chain(Front(prev_states), e.pos) /\ Led(e, pos)
  BY <1>1, <1>2, ChainShrinks
<1> HIDE DEF e
<1>4. pos' = e.pos /\ hfm' \in Clock
  BY <1>2, <1>3, LedBack
<1>5. Sound(e.pos) /\ e.key = Zobrist(e.pos)
  BY <1>3 DEF Led
<1> QED BY <1>2, <1>3, <1>4, <1>5 DEF Played, e

\* Writing out and reading again keeps Played: what is read is sound.
LEMMA ReloadPlayed ==
  ASSUME Played, Reload
  PROVE  Played'
<1>1. PICK frc \in Implied960(GetFen(pos)) :
        Accepted(GetFen(pos)) /\ Fresh(BoardOf(Sanitized(GetFen(pos)), frc))
  BY DEF Reload
<1>2. left' \in Nat /\ Sound(pos)
  BY DEF Reload, Played
<1> DEFINE p == BoardOf(Sanitized(GetFen(pos)), frc)
<1>3. Sound(p)
  BY <1>1, <1>2, FenOfSound, BegunSound
<1> HIDE DEF p
<1>4. pos' = p /\ key' = Zobrist(p) /\ hfm' \in Clock /\ prev_states' = <<>>
  BY <1>1 DEF Fresh, p, Clock, ClockSize
<1> QED BY <1>2, <1>3, <1>4, ChainEmpty DEF Played

\* Every step keeps Played.
LEMMA StepPlayed ==
  ASSUME Played, [Next]_vars
  PROVE  Played'
<1>1. CASE \E m \in LegalMoves(pos) : Make(m)
  BY <1>1, MakePlayed
<1>2. CASE Unmake \/ UnmakePass
  BY <1>2, UnmakePlayed
<1>3. CASE Pass
  BY <1>3, PassPlayed
<1>4. CASE Reload
  BY <1>4, ReloadPlayed
<1>5. CASE UNCHANGED vars
  BY <1>5 DEF Played, vars
<1> QED BY <1>1, <1>2, <1>3, <1>4, <1>5 DEF Next

\* The inductive invariant holds of every game from every position the sanitizer
\* accepts whose en passant square a push explains.
THEOREM AlwaysPlayed ==
  ASSUME StartsExplained
  PROVE  Spec => []Played
<1>1. Init => Played
  BY BegunPlayed
<1>2. Played /\ [Next]_vars => Played'
  BY StepPlayed
<1> QED BY <1>1, <1>2, PTL DEF Spec

\* The fields of a Board keep their types, whatever is played, taken back, passed
\* and reloaded.
THEOREM TypeCorrect ==
  ASSUME StartsExplained
  PROVE  Spec => []TypeOK
<1>1. Played => TypeOK
  <2> SUFFICES ASSUME Played PROVE TypeOK
    OBVIOUS
  <2>1. pos \in Position
    BY DEF Played, Sound
  <2>2. /\ Occ(pos) \subseteq Square /\ pos.board \in [Occ(pos) -> Piece] /\ pos.stm \in Color
        /\ pos.ep \in Square \cup {NoSq}
    BY <2>1, PositionTypes
  <2>3. Range(pos.board) \subseteq Piece
    BY <2>2 DEF Range
  <2>4. pos.frc \in BOOLEAN /\ pos.cr \in [Right -> File \cup {NoFile}] /\ pos.path \in [Right -> SUBSET Square]
    BY <2>1 DEF Position
  <2>5. hfm \in 0..ClockSize - 1 /\ left \in Nat
    BY DEF Played, Clock
  <2> QED BY <2>2, <2>3, <2>4, <2>5 DEF TypeOK
<1> QED BY <1>1, AlwaysPlayed, PTL

\* The key that makeMove and makeNullMove keep up by exclusive ors is the key of
\* the position, after moves, passes, takebacks and reloads in any order.
THEOREM KeyAlwaysExact ==
  ASSUME StartsExplained
  PROVE  Spec => []KeyExact
<1>1. Played => KeyExact
  BY DEF Played, KeyExact
<1> QED BY <1>1, AlwaysPlayed, PTL

\* No move of legalmoves leaves the king of the side that moves attacked.
THEOREM KingNeverLeft ==
  ASSUME StartsExplained
  PROVE  Spec => [](\A m \in LegalMoves(pos) : Safe(pos, m))
<1>1. Played => \A m \in LegalMoves(pos) : Safe(pos, m)
  BY LegalSafe DEF Played
<1> QED BY <1>1, AlwaysPlayed, PTL

\* unmakeMove and unmakeNullMove bring back the position that was left, its
\* castling rights, en passant square and taken pieces with it.
THEOREM MovesTakenBack ==
  ASSUME StartsExplained
  PROVE  Spec => TakesBack
<1> DEFINE A == Len(prev_states') = Len(prev_states) - 1 /\ left' > left
                  => pos' = Last(prev_states).pos
<1>1. Played /\ [Next]_vars => [A]_vars
  <2> SUFFICES ASSUME Played, [Next]_vars PROVE [A]_vars
    OBVIOUS
  <2>0. left \in Nat /\ Len(prev_states) \in Nat
    BY SequenceOfRange DEF Played, Chain
  <2>1. CASE \E m \in LegalMoves(pos) : Make(m)
    BY <2>0, <2>1, MakePlayed
  <2>2. CASE Unmake \/ UnmakePass
    BY <2>2, UnmakePlayed
  <2>3. CASE Pass
    BY <2>0, <2>3, PassPlayed
  <2>4. CASE Reload
    BY <2>0, <2>4 DEF Reload
  <2>5. CASE UNCHANGED vars
    BY <2>5
  <2> QED BY <2>1, <2>2, <2>3, <2>4, <2>5 DEF Next
<1> QED BY <1>1, AlwaysPlayed, PTL DEF Spec, TakesBack

----------------------------------------
(* The moves of the rules *)

\* A knight, bishop, rook or queen on s sees t.
Reaches(p, s, t) ==
  \/ s \in Pieces(p, {"n"}, p.stm) /\ KnightStep(s, t)
  \/ s \in Pieces(p, {"b", "q"}, p.stm) /\ Diag(s, t) /\ Clear(s, t, Occ(p))
  \/ s \in Pieces(p, {"r", "q"}, p.stm) /\ Orth(s, t) /\ Clear(s, t, Occ(p))

PawnReaches(p, s, t) ==
  \/ PawnStep(p.stm, s, t) /\ t \in Us(p, Other(p.stm))
  \/ t = s + Forward(p.stm) /\ t \notin Occ(p)
  \/ /\ RankOf(s) = RelRank(1, p.stm) /\ t = s + 2 * Forward(p.stm) /\ t \notin Occ(p)
     /\ s + Forward(p.stm) \notin Occ(p)

KingGoes(p, m) ==
  \E t \in Square \ Us(p, p.stm) : m = Normal(OwnKing(p), t) /\ KingStep(OwnKing(p), t)
PieceGoes(p, m) ==
  \E s \in Square, t \in Square \ Us(p, p.stm) : m = Normal(s, t) /\ Reaches(p, s, t)
PawnGoes(p, m) ==
  \E s \in Pieces(p, {"p"}, p.stm), t \in Square \ Us(p, p.stm) :
    /\ PawnReaches(p, s, t)
    /\ m \in IF RankOf(t) = RelRank(7, p.stm) THEN Promotions(s, t) ELSE {Normal(s, t)}
EpGoes(p, m) ==
  \E s \in Pieces(p, {"p"}, p.stm) :
    p.ep # NoSq /\ m = Move(s, p.ep, "enpassant", "n") /\ PawnStep(p.stm, s, p.ep)

Reach(p, s) ==
  CASE TypeOf(p.board[s]) = "n" -> KnightAttacks[s]
    [] TypeOf(p.board[s]) = "b" -> BishopAttacks(s, Occ(p))
    [] TypeOf(p.board[s]) = "r" -> RookAttacks(s, Occ(p))
    [] TypeOf(p.board[s]) = "q" -> QueenAttacks(s, Occ(p))
    [] TypeOf(p.board[s]) = "k" -> KingAttacks[s]
    [] TypeOf(p.board[s]) = "p" ->
         LET step == IF p.stm = White THEN 8 ELSE -8
             one == {s + step} \ Occ(p)
             two == IF RankOf(s) = RelRank(1, p.stm) /\ one # {} THEN {s + 2 * step} \ Occ(p) ELSE {}
         IN one \cup two \cup (PawnAttacks[p.stm][s] \cap Us(p, Other(p.stm)))
Turns(p, s, t) ==
  IF IsPawn(p, s) /\ RankOf(t) \in {0, 7} THEN Promotions(s, t) ELSE {Normal(s, t)}

\* The moves of the rules before the king's safety is asked, one by one.
LEMMA PseudoMembers ==
  ASSUME NEW p, NEW m
  PROVE  m \in Pseudo(p) <=>
           \/ \E s \in Us(p, p.stm) : \E t \in Reach(p, s) \cap (Square \ Us(p, p.stm)) : m \in Turns(p, s, t)
           \/ \E s \in Pieces(p, {"p"}, p.stm) :
                p.ep # NoSq /\ p.ep \in PawnAttacks[p.stm][s] /\ m = Move(s, p.ep, "enpassant", "n")
<1> DEFINE A == UNION {UNION {Turns(p, s, t) : t \in Reach(p, s) \cap (Square \ Us(p, p.stm))} : s \in Us(p, p.stm)}
           B == {Move(s, p.ep, "enpassant", "n") : s \in
                 {s \in Pieces(p, {"p"}, p.stm) : p.ep # NoSq /\ p.ep \in PawnAttacks[p.stm][s]}}
<1>1. Pseudo(p) = A \cup B
  BY DEF Pseudo, Reach, Turns
<1>2. m \in A <=> \E s \in Us(p, p.stm) : \E t \in Reach(p, s) \cap (Square \ Us(p, p.stm)) : m \in Turns(p, s, t)
  OBVIOUS
<1>3. m \in B <=> \E s \in Pieces(p, {"p"}, p.stm) :
                    p.ep # NoSq /\ p.ep \in PawnAttacks[p.stm][s] /\ m = Move(s, p.ep, "enpassant", "n")
  OBVIOUS
<1> HIDE DEF A, B
<1> QED BY <1>1, <1>2, <1>3

\* A pawn reaches the last rank of its color or none.
LEMMA LastRank ==
  ASSUME NEW p, Sound(p), NEW s \in Pieces(p, {"p"}, p.stm), NEW t \in Square, PawnReaches(p, s, t)
  PROVE  RankOf(t) \in {0, 7} <=> RankOf(t) = RelRank(7, p.stm)
<1>1. s \in Square /\ p.stm \in Color /\ s \in Occ(p) /\ TypeOf(p.board[s]) = "p"
  BY Sides DEF Pieces
<1>2. RankOf(s) \in 1..6
  BY <1>1, Coordinates DEF PawnsInside, Sound
<1>3. RankOf(t) \in 0..7 /\ RankOf(t) - RankOf(s) \in {Up1(p.stm), 2 * Up1(p.stm)}
  <2>1. s + Forward(p.stm) \in Square /\ RankOf(s + Forward(p.stm)) = RankOf(s) + Up1(p.stm)
    BY <1>1, <1>2, PushIs
  <2>2. RankOf(s + 2 * Forward(p.stm)) = RankOf(s) + 2 * Up1(p.stm) \/ RankOf(s) # RelRank(1, p.stm)
    BY <1>1, <1>2 DEF RankOf, Forward, Up1, RelRank, Color, White, Black, Square
  <2> QED BY <1>1, <1>2, <2>1, <2>2, Coordinates DEF PawnReaches, PawnStep, Up1
<1> QED BY <1>1, <1>2, <1>3 DEF RelRank, Up1, Color, White, Black

\* Where the rules let a piece go.
LEMMA ReachIs ==
  ASSUME NEW p, Sound(p), NEW s \in Us(p, p.stm), NEW t \in Square
  PROVE  t \in Reach(p, s) <=> \/ s = OwnKing(p) /\ KingStep(s, t)
                               \/ Reaches(p, s, t)
                               \/ s \in Pieces(p, {"p"}, p.stm) /\ PawnReaches(p, s, t)
<1>1. s \in Square /\ s \in Occ(p) /\ ColorOf(p.board[s]) = p.stm /\ p.board[s] \in Piece /\ p.stm \in Color
  <2>1. p.board \in [Occ(p) -> Piece] /\ s \in Occ(p)
    BY Sides, PositionTypes
  <2> QED BY <2>1, Sides DEF Us
<1>2. \A types : s \in Pieces(p, types, p.stm) <=> TypeOf(p.board[s]) \in types
  BY <1>1 DEF Pieces
<1>3. s = OwnKing(p) <=> TypeOf(p.board[s]) = "k"
  BY <1>2, Sides DEF OneKing, OwnKing
<1>4. TypeOf(p.board[s]) \in Type
  BY <1>1 DEF Piece, TypeOf
<1>5. CASE TypeOf(p.board[s]) = "n"
  BY <1>1, <1>2, <1>3, <1>5, KnightSees DEF Reach, Reaches
<1>6. CASE TypeOf(p.board[s]) = "b"
  BY <1>1, <1>2, <1>3, <1>6, BishopSees DEF Reach, Reaches
<1>7. CASE TypeOf(p.board[s]) = "r"
  BY <1>1, <1>2, <1>3, <1>7, RookSees DEF Reach, Reaches
<1>8. CASE TypeOf(p.board[s]) = "q"
  BY <1>1, <1>2, <1>3, <1>8, BishopSees, RookSees DEF Reach, Reaches, QueenAttacks
<1>9. CASE TypeOf(p.board[s]) = "k"
  BY <1>1, <1>2, <1>3, <1>9, KingSees DEF Reach, Reaches
<1>10. CASE TypeOf(p.board[s]) = "p"
  <2> DEFINE step == Forward(p.stm)
             one == {s + step} \ Occ(p)
             two == IF RankOf(s) = RelRank(1, p.stm) /\ one # {} THEN {s + 2 * step} \ Occ(p) ELSE {}
  <2>1. Reach(p, s) = one \cup two \cup (PawnAttacks[p.stm][s] \cap Us(p, Other(p.stm)))
    BY <1>10 DEF Reach, Forward
  <2>2. t \in PawnAttacks[p.stm][s] <=> PawnStep(p.stm, s, t)
    BY <1>1, PawnSees
  <2>3. t \in two <=> RankOf(s) = RelRank(1, p.stm) /\ t = s + 2 * step /\ t \notin Occ(p) /\ s + step \notin Occ(p)
    OBVIOUS
  <2>4. t \in one <=> t = s + step /\ t \notin Occ(p)
    OBVIOUS
  <2> HIDE DEF one, two, step
  <2>5. t \in Reach(p, s) <=> PawnReaches(p, s, t)
    BY <2>1, <2>2, <2>3, <2>4 DEF PawnReaches, step
  <2> QED BY <1>2, <1>3, <1>10, <2>5 DEF Reaches
<1> QED BY <1>4, <1>5, <1>6, <1>7, <1>8, <1>9, <1>10 DEF Type

\* The moves of Pseudo by the piece that makes them.
LEMMA PseudoIs ==
  ASSUME NEW p, Sound(p), NEW m
  PROVE  m \in Pseudo(p) <=> KingGoes(p, m) \/ PieceGoes(p, m) \/ PawnGoes(p, m) \/ EpGoes(p, m)
<1> DEFINE free == Square \ Us(p, p.stm)
           c == p.stm
<1>1. /\ c \in Color /\ OwnKing(p) \in Us(p, c) /\ Us(p, c) \subseteq Square
      /\ \A types : Pieces(p, types, c) \subseteq Us(p, c) /\ Pieces(p, types, c) \subseteq Square
  BY Sides
<1>2. \A s \in Us(p, c) : IsPawn(p, s) <=> s \in Pieces(p, {"p"}, c)
  BY DEF IsPawn, Pieces, Us
<1>3. (\E s \in Us(p, c) : \E t \in Reach(p, s) \cap free : m \in Turns(p, s, t))
      => KingGoes(p, m) \/ PieceGoes(p, m) \/ PawnGoes(p, m)
  <2>1. SUFFICES ASSUME NEW s \in Us(p, c), NEW t \in free, t \in Reach(p, s), m \in Turns(p, s, t)
                 PROVE  KingGoes(p, m) \/ PieceGoes(p, m) \/ PawnGoes(p, m)
    OBVIOUS
  <2>2. CASE s = OwnKing(p) /\ KingStep(s, t)
    <3>1. s \notin Pieces(p, {"p"}, c)
      BY <2>2, Sides, KingStands DEF OwnKing
    <3>2. m = Normal(s, t)
      BY <1>2, <2>1, <3>1 DEF Turns
    <3> QED BY <2>2, <3>2 DEF KingGoes
  <2>3. CASE Reaches(p, s, t)
    <3>1. s \notin Pieces(p, {"p"}, c)
      BY <2>3 DEF Reaches, Pieces
    <3>2. m = Normal(s, t)
      BY <1>2, <2>1, <3>1 DEF Turns
    <3> QED BY <1>1, <2>3, <3>2 DEF PieceGoes
  <2>4. CASE s \in Pieces(p, {"p"}, c) /\ PawnReaches(p, s, t)
    <3>1. m \in IF RankOf(t) = RelRank(7, c) THEN Promotions(s, t) ELSE {Normal(s, t)}
      BY <1>2, <2>1, <2>4, LastRank DEF Turns
    <3> QED BY <2>4, <3>1 DEF PawnGoes
  <2> QED BY <2>1, <2>2, <2>3, <2>4, ReachIs
<1>4. KingGoes(p, m) => \E s \in Us(p, c) : \E t \in Reach(p, s) \cap free : m \in Turns(p, s, t)
  <2>1. SUFFICES ASSUME NEW t \in free, m = Normal(OwnKing(p), t), KingStep(OwnKing(p), t)
                 PROVE  t \in Reach(p, OwnKing(p)) /\ m \in Turns(p, OwnKing(p), t)
    BY <1>1 DEF KingGoes
  <2>2. OwnKing(p) \notin Pieces(p, {"p"}, c)
    BY Sides, KingStands DEF OwnKing
  <2> QED BY <1>1, <1>2, <2>1, <2>2, ReachIs DEF Turns
<1>5. PieceGoes(p, m) => \E s \in Us(p, c) : \E t \in Reach(p, s) \cap free : m \in Turns(p, s, t)
  <2>1. SUFFICES ASSUME NEW s \in Square, NEW t \in free, m = Normal(s, t), Reaches(p, s, t)
                 PROVE  s \in Us(p, c) /\ t \in Reach(p, s) /\ m \in Turns(p, s, t)
    BY DEF PieceGoes
  <2>2. s \in Us(p, c)
    BY <1>1, <2>1 DEF Reaches
  <2>3. s \notin Pieces(p, {"p"}, c)
    BY <2>1 DEF Reaches, Pieces
  <2> QED BY <1>2, <2>1, <2>2, <2>3, ReachIs DEF Turns
<1>6. PawnGoes(p, m) => \E s \in Us(p, c) : \E t \in Reach(p, s) \cap free : m \in Turns(p, s, t)
  <2>1. SUFFICES ASSUME NEW s \in Pieces(p, {"p"}, c), NEW t \in free, PawnReaches(p, s, t),
                        m \in IF RankOf(t) = RelRank(7, c) THEN Promotions(s, t) ELSE {Normal(s, t)}
                 PROVE  s \in Us(p, c) /\ t \in Reach(p, s) /\ m \in Turns(p, s, t)
    BY DEF PawnGoes
  <2> QED BY <1>1, <1>2, <2>1, ReachIs, LastRank DEF Turns
<1>7. (\E s \in Pieces(p, {"p"}, c) :
          p.ep # NoSq /\ p.ep \in PawnAttacks[c][s] /\ m = Move(s, p.ep, "enpassant", "n"))
      <=> EpGoes(p, m)
  <2>1. p.ep # NoSq => p.ep \in Square
    BY Sides, PositionTypes
  <2>2. \A s \in Pieces(p, {"p"}, c) : p.ep # NoSq => (p.ep \in PawnAttacks[c][s] <=> PawnStep(c, s, p.ep))
    BY <1>1, <2>1, PawnSees
  <2> QED BY <2>2 DEF EpGoes
<1> HIDE DEF c, free
<1> QED BY <1>3, <1>4, <1>5, <1>6, <1>7, PseudoMembers DEF c, free

\* No pawn that could take en passant bares the king.
EpListed(p, m) ==
  /\ EpMove(p, m)
  /\ \A t \in Pieces(p, {"p"}, p.stm) :
       t \in PawnAttacks[Other(p.stm)][p.ep] => ~Bared(p, OwnKing(p), EpPawn(p), t)

\* The en passant generator lists every such capture.
LEMMA EpLists ==
  ASSUME NEW p, NEW m, EpListed(p, m)
  PROVE  m \in EPMoves(p, Check(p).mask, DiagPins(p), Pieces(p, {"p"}, p.stm) \ LinePins(p), p.ep, p.stm)
<1> DEFINE from == {s \in PawnAttacks[Other(p.stm)][p.ep] \cap (Pieces(p, {"p"}, p.stm) \ LinePins(p)) :
                      s \in DiagPins(p) => p.ep \in DiagPins(p)}
           stop == {s \in from : Bared(p, OwnKing(p), EpPawn(p), s)}
           kept == {s \in from : \A t \in stop : s < t}
<1>1. stop = {}
  BY DEF EpListed
<1>2. PICK s \in Pieces(p, {"p"}, p.stm) :
        /\ m = Move(s, p.ep, "enpassant", "n")
        /\ s \in PawnAttacks[Other(p.stm)][p.ep] /\ s \notin LinePins(p)
        /\ (s \in DiagPins(p) => p.ep \in DiagPins(p))
        /\ Check(p).mask \cap {EpPawn(p), p.ep} # {}
  BY DEF EpListed, EpMove
<1>3. s \in kept
  <2>1. s \in from
    BY <1>2
  <2> QED BY <1>1, <2>1
<1>4. EPMoves(p, Check(p).mask, DiagPins(p), Pieces(p, {"p"}, p.stm) \ LinePins(p), p.ep, p.stm)
        = IF Check(p).mask \cap {EpPawn(p), p.ep} = {} THEN {} ELSE {Move(x, p.ep, "enpassant", "n") : x \in kept}
  BY DEF EPMoves, EpPawn, OwnKing
<1> HIDE DEF kept
<1> QED BY <1>2, <1>3, <1>4

\* The pawn generator lists every such move.
LEMMA PawnLists ==
  ASSUME NEW p, NEW m, PawnMove(p, m) \/ EpListed(p, m)
  PROVE  m \in PawnMoves(p, p.stm, DiagPins(p), LinePins(p), Check(p).mask)
<1> DEFINE to(s) == PawnTargets(p, s, p.stm, DiagPins(p), LinePins(p), Check(p).mask)
           moves(s, t) == IF RankOf(t) = RelRank(7, p.stm) THEN Promotions(s, t) ELSE {Normal(s, t)}
           A == UNION {UNION {moves(s, t) : t \in to(s)} : s \in Pieces(p, {"p"}, p.stm)}
           B == EPMoves(p, Check(p).mask, DiagPins(p), Pieces(p, {"p"}, p.stm) \ LinePins(p), p.ep, p.stm)
<1>1. PawnMoves(p, p.stm, DiagPins(p), LinePins(p), Check(p).mask) = A \cup IF p.ep = NoSq THEN {} ELSE B
  BY DEF PawnMoves
<1>2. CASE PawnMove(p, m)
  <2>1. PICK s \in Pieces(p, {"p"}, p.stm) : \E t : PawnTo(p, s, t) /\ m \in moves(s, t)
    BY <1>2 DEF PawnMove
  <2>2. PICK t : PawnTo(p, s, t) /\ m \in moves(s, t)
    BY <2>1
  <2>3. t \in to(s)
    BY <2>2 DEF PawnTargets, PawnTo, PawnTakes, PawnPush, PawnPush2, Forward
  <2>4. m \in A
    <3> HIDE DEF to, moves
    <3> QED BY <2>2, <2>3
  <2> HIDE DEF A, B
  <2> QED BY <1>1, <2>4
<1>3. CASE EpListed(p, m)
  <2>1. m \in B /\ p.ep # NoSq
    BY <1>3, EpLists DEF EpListed, EpMove
  <2> HIDE DEF A, B
  <2> QED BY <1>1, <2>1
<1> QED BY <1>2, <1>3

\* Moves of these forms are generated.
LEMMA LegalBack ==
  ASSUME NEW p, NEW m,
         \/ KingMove(p, m) \/ CastlingMove(p, m)
         \/ Check(p).checks # 2 /\ (PieceMove(p, m) \/ PawnMove(p, m) \/ EpListed(p, m))
  PROVE  m \in LegalMoves(p)
<1> DEFINE c == p.stm
           k == OwnKing(p)
           empty == Square \ Us(p, c)
           mask == Check(p).mask
           K == {Normal(k, t) : t \in (KingAttacks[k] \cap empty) \ Seen(p)}
           C == IF Check(p).checks # 0 THEN {}
                ELSE {Move(k, t, "castling", "n") : t \in CastleMoves(p, c, Seen(p), LinePins(p))}
           P == PawnMoves(p, c, DiagPins(p), LinePins(p), mask)
           N == UNION {{Normal(s, t) : t \in KnightAttacks[s] \cap empty \cap mask}
                       : s \in Pieces(p, {"n"}, c) \ (DiagPins(p) \cup LinePins(p))}
           B == UNION {{Normal(s, t) : t \in BishopMoves(p, s, DiagPins(p)) \cap empty \cap mask}
                       : s \in Pieces(p, {"b"}, c) \ LinePins(p)}
           R == UNION {{Normal(s, t) : t \in RookMoves(p, s, LinePins(p)) \cap empty \cap mask}
                       : s \in Pieces(p, {"r"}, c) \ DiagPins(p)}
           Q == UNION {{Normal(s, t) : t \in QueenMoves(p, s, DiagPins(p), LinePins(p)) \cap empty \cap mask}
                       : s \in Pieces(p, {"q"}, c) \ (DiagPins(p) \cap LinePins(p))}
<1>1. LegalMoves(p) = K \cup C \cup IF Check(p).checks = 2 THEN {} ELSE P \cup N \cup B \cup R \cup Q
  BY DEF LegalMoves, MovesWithin, OwnKing, Check, LinePins, DiagPins, Seen
<1>2. KingMove(p, m) => m \in K
  BY DEF KingMove
<1>3. CastlingMove(p, m) => m \in C
  BY DEF CastlingMove
<1>4. PawnMove(p, m) \/ EpListed(p, m) => m \in P
  BY PawnLists
<1>5. PieceMove(p, m) => m \in N \cup B \cup R \cup Q
  <2>1. SUFFICES ASSUME NEW s, NEW t, m = Normal(s, t), PieceTo(p, s, t), t \in empty \cap mask
                 PROVE  m \in N \cup B \cup R \cup Q
    BY DEF PieceMove
  <2>2. s \in Pieces(p, {"n"}, c) \ (DiagPins(p) \cup LinePins(p)) /\ t \in KnightAttacks[s] => m \in N
    BY <2>1
  <2>3. s \in Pieces(p, {"b"}, c) \ LinePins(p) /\ t \in BishopMoves(p, s, DiagPins(p)) => m \in B
    BY <2>1
  <2>4. s \in Pieces(p, {"r"}, c) \ DiagPins(p) /\ t \in RookMoves(p, s, LinePins(p)) => m \in R
    BY <2>1
  <2>5. s \in Pieces(p, {"q"}, c) \ (DiagPins(p) \cap LinePins(p))
        /\ t \in QueenMoves(p, s, DiagPins(p), LinePins(p)) => m \in Q
    BY <2>1
  <2> HIDE DEF N, B, R, Q
  <2> QED BY <2>1, <2>2, <2>3, <2>4, <2>5 DEF PieceTo
<1> HIDE DEF K, C, P, N, B, R, Q
<1> QED BY <1>1, <1>2, <1>3, <1>4, <1>5

----------------------------------------
(* What a safe move tells *)

\* A king that is safe after a move is hit by nobody.
LEMMA SafeBack ==
  ASSUME NEW p, Sound(p), NEW m, NEW k \in Square,
         Pieces(MakeMove(p, m), {"k"}, p.stm) = {k}, Occ(MakeMove(p, m)) \subseteq Square,
         MakeMove(p, m).stm = Other(p.stm), Safe(p, m)
  PROVE  \A a \in Square : ~Hits(MakeMove(p, m), Other(p.stm), a, k)
<1> DEFINE q == MakeMove(p, m)
<1>1. KingSq(q, p.stm) = k
  BY SmallestOne DEF KingSq
<1>2. Other(p.stm) \in Color
  BY Sides
<1>3. ~IsAttacked(q, k, Other(p.stm))
  BY <1>1 DEF Safe
<1> HIDE DEF q
<1> QED BY <1>2, <1>3, AttackedHit DEF q

\* Nothing that is still there hits the king, wherever it went.
LEMMA SafeSays ==
  ASSUME NEW p, Sound(p), NEW m, Ordinary(p, m), Safe(p, m),
         NEW k, k = IF m.from = OwnKing(p) THEN m.to ELSE OwnKing(p),
         NEW a \in Square, a # m.to, a \notin Gone(m)
  PROVE  /\ ~(a \in Pieces(p, {"p"}, Other(p.stm)) /\ PawnStep(Other(p.stm), a, k))
         /\ ~(a \in Pieces(p, {"n"}, Other(p.stm)) /\ KnightStep(a, k))
         /\ ~(a \in Pieces(p, {"k"}, Other(p.stm)) /\ KingStep(a, k))
         /\ ~(Aims(p, Other(p.stm), a, k) /\ Clear(k, a, (Occ(p) \ Gone(m)) \cup {m.to}))
<1> DEFINE q == MakeMove(p, m)
           e == Other(p.stm)
<1>1. p \in Position /\ OneKing(p) /\ OwnKing(p) \in Square /\ Pieces(p, {"k"}, p.stm) = {OwnKing(p)} /\ p.stm \in Color
  BY Sides DEF OneKing, OwnKing
<1>2. m.to \in Square /\ m.from \in Us(p, p.stm) /\ k \in Square /\ m.to \notin Us(p, p.stm)
  BY <1>1 DEF Ordinary
<1>3. q.stm = e /\ Occ(q) = (Occ(p) \ Gone(m)) \cup {m.to}
  BY <1>1, MadeBoard
<1>4. TypeOf(Became(p, m)) = "k" <=> m.from = OwnKing(p)
  <2>1. m.from \in Pieces(p, {"k"}, p.stm) <=> TypeOf(p.board[m.from]) = "k"
    BY <1>2 DEF Pieces, Us
  <2> QED BY <1>1, <2>1 DEF Became, Ordinary, TypeOf
<1>5. Pieces(q, {"k"}, p.stm) = {k}
  BY <1>1, <1>2, <1>4, MadePieces
<1>6. \A types : Pieces(q, types, e) = Pieces(p, types, e) \ (Gone(m) \cup {m.to})
  BY <1>1, MadePieces
<1>7. Occ(q) \subseteq Square
  BY <1>2, <1>3, Sides
<1>8. ~Hits(q, e, a, k)
  BY <1>2, <1>3, <1>5, <1>7, SafeBack
<1>9. \A types : a \in Pieces(p, types, e) => a \in Pieces(q, types, e)
  BY <1>6
<1> HIDE DEF q
<1>10. Aims(p, e, a, k) => Aims(q, e, a, k)
  BY <1>9 DEF Aims
<1> QED BY <1>3, <1>8, <1>9, <1>10, HitsBy

\* Two squares are on a diagonal, on a rank or file, or a knight's step apart.
LEMMA LinesDiffer ==
  ASSUME NEW s \in Square, NEW t \in Square
  PROVE  ~(Diag(s, t) /\ Orth(s, t)) /\ (KnightStep(s, t) => ~Diag(s, t) /\ ~Orth(s, t))
<1>1. /\ FileOf(s) \in 0..7 /\ RankOf(s) \in 0..7 /\ FileOf(t) \in 0..7 /\ RankOf(t) \in 0..7
      /\ (FileOf(s) = FileOf(t) /\ RankOf(s) = RankOf(t) => s = t)
  BY Coordinates, SameSquare
<1> QED BY <1>1 DEF Diag, Orth, KnightStep

\* Of two squares between a king and an attacker one is before the other.
LEMMA SameLine ==
  ASSUME NEW k \in Square, NEW s \in Square, NEW t \in Square, NEW a \in Square,
         Amid(k, s, a), Amid(k, t, a), s # t
  PROVE  Amid(k, s, t) \/ Amid(k, t, s)
<1>1. /\ FileOf(k) \in 0..7 /\ FileOf(s) \in 0..7 /\ FileOf(a) \in 0..7 /\ FileOf(t) \in 0..7
      /\ RankOf(k) \in 0..7 /\ RankOf(s) \in 0..7 /\ RankOf(a) \in 0..7 /\ RankOf(t) \in 0..7
  BY Coordinates
<1>2. FileOf(s) # FileOf(t) \/ RankOf(s) # RankOf(t)
  BY SameSquare
<1> QED BY <1>1, <1>2, SMTT(60) DEF Amid, Up

----------------------------------------
(* Counting checks *)

Checks(p) == ByLeap(p) \cup ByDiagonal(p) \cup ByLine(p)

\* The checkers of the four kinds are different pieces.
LEMMA ChecksApart ==
  ASSUME NEW p, Sound(p)
  PROVE  /\ ByPawn(p, p.stm) \cap ByKnight(p, p.stm) = {} /\ ByLeap(p) \cap ByDiagonal(p) = {}
         /\ ByLeap(p) \cap ByLine(p) = {} /\ ByDiagonal(p) \cap ByLine(p) = {}
         /\ Checks(p) \subseteq Occ(p) \cap Us(p, Other(p.stm)) /\ Checks(p) \subseteq Square
         /\ ByLeap(p) = ByPawn(p, p.stm) \cup ByKnight(p, p.stm)
<1>1. /\ p \in Position /\ OneKing(p) /\ OwnKing(p) \in Square
      /\ \A types, c : Pieces(p, types, c) \subseteq Us(p, c) /\ Pieces(p, types, c) \subseteq Square
      /\ Us(p, Other(p.stm)) \subseteq Occ(p)
  BY Sides
<1>2. \A a : /\ ~(a \in Pieces(p, {"p"}, Other(p.stm)) /\ a \in Pieces(p, {"n"}, Other(p.stm)))
             /\ ~(a \in Pieces(p, {"p"}, Other(p.stm)) /\ a \in Pieces(p, {"b", "q"}, Other(p.stm)))
             /\ ~(a \in Pieces(p, {"n"}, Other(p.stm)) /\ a \in Pieces(p, {"b", "q"}, Other(p.stm)))
             /\ ~(a \in Pieces(p, {"p"}, Other(p.stm)) /\ a \in Pieces(p, {"r", "q"}, Other(p.stm)))
             /\ ~(a \in Pieces(p, {"n"}, Other(p.stm)) /\ a \in Pieces(p, {"r", "q"}, Other(p.stm)))
  BY DEF Pieces
<1>3. \A a : a \in ByPawn(p, p.stm) => a \in Pieces(p, {"p"}, Other(p.stm))
  BY <1>1, ChecksAre
<1>4. \A a : a \in ByKnight(p, p.stm) => a \in Pieces(p, {"n"}, Other(p.stm))
  BY <1>1, ChecksAre
<1>5. \A a : a \in ByDiagonal(p) => a \in Pieces(p, {"b", "q"}, Other(p.stm)) /\ Diag(OwnKing(p), a)
  BY <1>1, ChecksAre
<1>6. \A a : a \in ByLine(p) => a \in Pieces(p, {"r", "q"}, Other(p.stm)) /\ Orth(OwnKing(p), a)
  BY <1>1, ChecksAre
<1>7. \A a \in Square : ~(Diag(OwnKing(p), a) /\ Orth(OwnKing(p), a))
  BY <1>1, LinesDiffer
<1>8. ByLeap(p) = ByPawn(p, p.stm) \cup ByKnight(p, p.stm)
  BY DEF ByLeap
<1> QED BY <1>1, <1>2, <1>3, <1>4, <1>5, <1>6, <1>7, <1>8 DEF Checks

\* One checker at most is never counted as two, and none as none.
LEMMA CountIs ==
  ASSUME NEW p, Sound(p)
  PROVE  /\ (\A a, b \in Checks(p) : a = b) => Check(p).checks # 2
         /\ Check(p).checks = 0 <=> Checks(p) = {}
         /\ Checks(p) = {} => Check(p).mask = Square
<1> DEFINE k == OwnKing(p)
           knights == ByKnight(p, p.stm)
           pawns == ByPawn(p, p.stm)
           D == ByDiagonal(p)
           L == ByLine(p)
<1>1. Check(p) = MetBy(k, knights, pawns, D, L)
  BY DEF Check, CheckMask, OwnKing, ByKnight, ByPawn, ByDiagonal, ByLine, OnDiagonals, OnLines
<1>2. Checks(p) = knights \cup pawns \cup D \cup L /\ Checks(p) \subseteq Square
      /\ pawns \cap knights = {} /\ (pawns \cup knights) \cap D = {} /\ (pawns \cup knights) \cap L = {} /\ D \cap L = {}
  BY ChecksApart DEF Checks
<1>3. IsFiniteSet(L)
  BY <1>2, SquaresFinite
<1>4. Cardinality(L) > 1 <=> \E x, y \in L : x # y
  BY <1>3, CardinalityOne
<1>5. Check(p).checks = IF Cardinality(L) > 1 THEN 2
                        ELSE One(knights # {}) + One(pawns # {}) + One(D # {}) + One(L # {})
  BY <1>1 DEF MetBy
<1> HIDE DEF k, knights, pawns, D, L
<1>6. ASSUME \A a, b \in Checks(p) : a = b PROVE Check(p).checks # 2
  <2>1. ~(Cardinality(L) > 1)
    BY <1>2, <1>4, <1>6
  <2>2. /\ knights = {} \/ (pawns = {} /\ D = {} /\ L = {})
        /\ pawns = {} \/ (D = {} /\ L = {})
        /\ D = {} \/ L = {}
    BY <1>2, <1>6
  <2> QED BY <1>5, <2>1, <2>2 DEF One
<1>7. Check(p).checks = 0 <=> Checks(p) = {}
  <2>1. CASE Cardinality(L) > 1
    BY <1>2, <1>4, <1>5, <2>1
  <2>2. CASE ~(Cardinality(L) > 1)
    BY <1>2, <1>5, <2>2 DEF One
  <2> QED BY <2>1, <2>2
<1>8. ASSUME Checks(p) = {} PROVE Check(p).mask = Square
  <2>1. knights = {} /\ pawns = {} /\ D = {} /\ L = {}
    BY <1>2, <1>8
  <2>2. ~(Cardinality(L) > 1)
    BY <1>4, <2>1
  <2>3. MetBy(k, {}, {}, {}, {}).mask = Square
    <3>1. Cardinality({}) = 0
      BY FS_EmptySet
    <3> QED BY <3>1 DEF MetBy
  <2> QED BY <1>1, <2>1, <2>3
<1> QED BY <1>6, <1>7, <1>8

\* A square that meets every check is on the mask.
LEMMA MetAll ==
  ASSUME NEW p, Sound(p), NEW t \in Square,
         \A a \in ByLeap(p) : t = a,
         \A a \in ByDiagonal(p) \cup ByLine(p) : t = a \/ Amid(OwnKing(p), t, a)
  PROVE  Check(p).checks # 2 /\ t \in Check(p).mask
<1> DEFINE k == OwnKing(p)
<1>1. p \in Position /\ OneKing(p) /\ k \in Square /\ FewChecks(p)
  BY Sides DEF Sound
<1>2. \A a \in Checks(p) : a \in Square /\ a \in Occ(p)
  BY ChecksApart
<1>3. \A a \in ByDiagonal(p) \cup ByLine(p) : Clear(k, a, Occ(p))
  BY <1>1, ChecksAre
<1>4. ASSUME NEW a \in Checks(p), NEW b \in ByDiagonal(p) \cup ByLine(p) PROVE ~Amid(k, a, b)
  BY <1>2, <1>3, <1>4 DEF Clear
<1>5. ASSUME NEW a \in ByDiagonal(p) \cup ByLine(p), NEW b \in ByDiagonal(p) \cup ByLine(p) PROVE a = b
  <2>1. a \in Checks(p) /\ b \in Checks(p) /\ a \in Square /\ b \in Square
    BY <1>2 DEF Checks
  <2>2. ~Amid(k, a, b) /\ ~Amid(k, b, a)
    BY <1>4, <2>1
  <2>3. (t = a \/ Amid(k, t, a)) /\ (t = b \/ Amid(k, t, b))
    OBVIOUS
  <2> HIDE DEF k
  <2> QED BY <1>1, <2>1, <2>2, <2>3, TwoBehind
<1>6. ASSUME NEW a \in ByLeap(p), NEW b \in ByDiagonal(p) \cup ByLine(p) PROVE FALSE
  <2>1. a \in Checks(p) /\ t = a
    BY DEF Checks
  <2>2. ~Amid(k, t, b)
    BY <1>4, <2>1
  <2>3. a \notin ByDiagonal(p) \cup ByLine(p)
    BY ChecksApart
  <2> QED BY <2>1, <2>2, <2>3
<1>7. \A a, b \in Checks(p) : a = b
  BY <1>5, <1>6 DEF Checks
<1>8. Check(p).checks # 2
  BY <1>7, CountIs
<1>9. CASE Checks(p) = {}
  BY <1>8, <1>9, CountIs
<1>10. CASE ByLeap(p) # {}
  BY <1>1, <1>8, <1>10, MaskIs
<1>11. CASE ByDiagonal(p) \cup ByLine(p) # {}
  BY <1>1, <1>8, <1>11, MaskIs
<1> QED BY <1>9, <1>10, <1>11 DEF Checks

----------------------------------------
(* Pins *)

\* The line a piece is pinned on.
LEMMA PinnedOn ==
  ASSUME NEW p, Occ(p) \subseteq Square, NEW c \in Color, Occ(p) = Us(p, c) \cup Us(p, Other(c)),
         NEW k \in Square, NEW types, NEW dirs, NEW s \in Us(p, c), s \in PinMask(p, c, k, dirs, types)
  PROVE  \E a \in Pieces(p, types, Other(c)) :
           /\ a \in SliderAttacks(k, dirs, Us(p, Other(c))) /\ a \in Square
           /\ Between[k][a] \subseteq PinMask(p, c, k, dirs, types)
           /\ Between[k][a] \cap Us(p, c) = {s}
<1> DEFINE snipers == SliderAttacks(k, dirs, Us(p, Other(c))) \cap Pieces(p, types, Other(c))
           lines == {Between[k][x] : x \in snipers}
           sole == {line \in lines : Cardinality(line \cap Us(p, c)) = 1}
<1>1. PinMask(p, c, k, dirs, types) = UNION sole
  BY DEF PinMask
<1>2. PICK line \in sole : s \in line
  BY <1>1
<1>3. PICK a \in snipers : line = Between[k][a]
  BY <1>2
<1>4. a \in Pieces(p, types, Other(c)) /\ a \in SliderAttacks(k, dirs, Us(p, Other(c))) /\ a \in Square
  BY <1>3 DEF Pieces
<1>5. line \subseteq UNION sole /\ Cardinality(line \cap Us(p, c)) = 1 /\ s \in line \cap Us(p, c)
  BY <1>2
<1>6. IsFiniteSet(line \cap Us(p, c))
  <2>1. line \cap Us(p, c) \subseteq Square
    BY DEF Us
  <2> HIDE DEF lines
  <2> QED BY <2>1, SquaresFinite
<1> HIDE DEF sole, snipers
<1>7. line \cap Us(p, c) = {s}
  BY <1>5, <1>6, CardinalityOne
<1> QED BY <1>1, <1>3, <1>4, <1>5, <1>7

\* A piece in a pin mask stands between the king and a slider with nothing else between.
LEMMA PinnedBy ==
  ASSUME NEW p, Sound(p), NEW s \in Us(p, p.stm)
  PROVE  /\ s \in DiagPins(p) =>
              \E a \in Square : /\ Aims(p, Other(p.stm), a, OwnKing(p)) /\ Diag(OwnKing(p), a)
                                /\ Amid(OwnKing(p), s, a) /\ Clear(OwnKing(p), a, Occ(p) \ {s})
                                /\ Between[OwnKing(p)][a] \subseteq DiagPins(p)
         /\ s \in LinePins(p) =>
              \E a \in Square : /\ Aims(p, Other(p.stm), a, OwnKing(p)) /\ Orth(OwnKing(p), a)
                                /\ Amid(OwnKing(p), s, a) /\ Clear(OwnKing(p), a, Occ(p) \ {s})
                                /\ Between[OwnKing(p)][a] \subseteq LinePins(p)
<1> DEFINE k == OwnKing(p)
           c == p.stm
           e == Other(p.stm)
<1>1. /\ k \in Square /\ c \in Color /\ Occ(p) \subseteq Square /\ Occ(p) = Us(p, c) \cup Us(p, e)
      /\ Us(p, c) \cap Us(p, e) = {} /\ s \in Square
      /\ \A types : Pieces(p, types, e) \subseteq Us(p, e)
  BY Sides
<1> HIDE DEF k
<1>2. ASSUME NEW a \in Square, a \in Us(p, e), Clear(k, a, Us(p, e)), Between[k][a] \cap Us(p, c) = {s}
      PROVE  Amid(k, s, a) /\ Clear(k, a, Occ(p) \ {s})
  <2>1. \A u \in Square : Amid(k, u, a) => u \in Between[k][a]
    BY <1>1, BetweenIs
  <2>2. s \in Between[k][a] /\ s # a
    BY <1>1, <1>2
  <2>3. Amid(k, s, a)
    BY <1>1, <2>2, BetweenIs
  <2>4. ASSUME NEW u \in Occ(p), u # s, u \in Square, Amid(k, u, a) PROVE FALSE
    BY <1>1, <1>2, <2>1, <2>4 DEF Clear
  <2> QED BY <2>3, <2>4 DEF Clear
<1>3. ASSUME s \in DiagPins(p)
      PROVE  \E a \in Square : /\ Aims(p, e, a, k) /\ Diag(k, a)
                               /\ Amid(k, s, a) /\ Clear(k, a, Occ(p) \ {s})
                               /\ Between[k][a] \subseteq DiagPins(p)
  <2>1. DiagPins(p) = PinMask(p, c, k, Diagonal, {"b", "q"})
    BY DEF DiagPins, PinD, k, OwnKing
  <2>2. PICK a \in Pieces(p, {"b", "q"}, e) :
           /\ a \in SliderAttacks(k, Diagonal, Us(p, e)) /\ a \in Square
           /\ Between[k][a] \subseteq DiagPins(p)
           /\ Between[k][a] \cap Us(p, c) = {s}
    BY <1>1, <1>3, <2>1, PinnedOn
  <2>3. Diag(k, a) /\ Clear(k, a, Us(p, e))
    BY <1>1, <2>2, BishopSees DEF BishopAttacks
  <2> QED BY <1>1, <1>2, <2>2, <2>3 DEF Aims
<1>4. ASSUME s \in LinePins(p)
      PROVE  \E a \in Square : /\ Aims(p, e, a, k) /\ Orth(k, a)
                               /\ Amid(k, s, a) /\ Clear(k, a, Occ(p) \ {s})
                               /\ Between[k][a] \subseteq LinePins(p)
  <2>1. LinePins(p) = PinMask(p, c, k, Orthogonal, {"r", "q"})
    BY DEF LinePins, PinHV, k, OwnKing
  <2>2. PICK a \in Pieces(p, {"r", "q"}, e) :
           /\ a \in SliderAttacks(k, Orthogonal, Us(p, e)) /\ a \in Square
           /\ Between[k][a] \subseteq LinePins(p)
           /\ Between[k][a] \cap Us(p, c) = {s}
    BY <1>1, <1>4, <2>1, PinnedOn
  <2>3. Orth(k, a) /\ Clear(k, a, Us(p, e))
    BY <1>1, <2>2, RookSees DEF RookAttacks
  <2> QED BY <1>1, <1>2, <2>2, <2>3 DEF Aims
<1> QED BY <1>3, <1>4 DEF k

----------------------------------------
(* Safe moves of pieces and pawns are generated *)

\* A safe move of a piece meets the checks and the sliders it uncovers.
LEMMA SafeMeets ==
  ASSUME NEW p, Sound(p), NEW m, Ordinary(p, m), m.from # OwnKing(p), m.kind # "enpassant", Safe(p, m)
  PROVE  /\ Check(p).checks # 2 /\ m.to \in Check(p).mask
         /\ \A a \in Square :
              /\ Aims(p, Other(p.stm), a, OwnKing(p)) /\ Amid(OwnKing(p), m.from, a)
              /\ Clear(OwnKing(p), a, Occ(p) \ {m.from})
              => m.to = a \/ Amid(OwnKing(p), m.to, a)
<1> DEFINE k == OwnKing(p)
           e == Other(p.stm)
           s == m.from
           t == m.to
<1>1. /\ p \in Position /\ OneKing(p) /\ k \in Square /\ Occ(p) \subseteq Square /\ Us(p, p.stm) \cap Us(p, e) = {}
      /\ \A types : Pieces(p, types, e) \subseteq Us(p, e) /\ Pieces(p, types, e) \subseteq Square
  BY Sides
<1>2. s \in Us(p, p.stm) /\ t \in Square /\ Gone(m) = {s}
  BY DEF Ordinary, Gone
<1>3. ASSUME NEW a \in Square, a \in Us(p, e), a # t
      PROVE  /\ ~(a \in Pieces(p, {"p"}, e) /\ PawnStep(e, a, k))
             /\ ~(a \in Pieces(p, {"n"}, e) /\ KnightStep(a, k))
             /\ ~(Aims(p, e, a, k) /\ Clear(k, a, (Occ(p) \ {s}) \cup {t}))
  <2>1. a \notin Gone(m)
    BY <1>1, <1>2, <1>3
  <2> QED BY <1>2, <1>3, <2>1, SafeSays
<1>4. ASSUME NEW a \in Square, Aims(p, e, a, k), Clear(k, a, Occ(p) \ {s})
      PROVE  t = a \/ Amid(k, t, a)
  <2>1. a \in Us(p, e)
    BY <1>1, <1>4 DEF Aims
  <2>2. SUFFICES ASSUME t # a, ~Amid(k, t, a) PROVE FALSE
    OBVIOUS
  <2>3. Clear(k, a, (Occ(p) \ {s}) \cup {t})
    BY <1>4, <2>2 DEF Clear
  <2> QED BY <1>3, <1>4, <2>1, <2>2, <2>3
<1> HIDE DEF k, e, s, t
<1>5. ASSUME NEW a \in ByLeap(p) PROVE t = a
  <2>1. \/ a \in Pieces(p, {"p"}, e) /\ PawnStep(e, a, k)
        \/ a \in Pieces(p, {"n"}, e) /\ KnightStep(a, k)
    BY <1>1, <1>5, ChecksAre DEF k, e
  <2>2. a \in Us(p, e) /\ a \in Square
    BY <1>1, <2>1
  <2> QED BY <1>3, <2>1, <2>2
<1>6. ASSUME NEW a \in ByDiagonal(p) \cup ByLine(p) PROVE t = a \/ Amid(k, t, a)
  <2>1. /\ \/ a \in Pieces(p, {"b", "q"}, e) /\ Diag(k, a)
           \/ a \in Pieces(p, {"r", "q"}, e) /\ Orth(k, a)
        /\ Clear(k, a, Occ(p))
    BY <1>1, <1>6, ChecksAre DEF k, e
  <2>2. Aims(p, e, a, k) /\ a \in Square /\ Clear(k, a, Occ(p) \ {s})
    BY <1>1, <2>1 DEF Aims, Clear
  <2> QED BY <1>4, <2>2
<1>7. Check(p).checks # 2 /\ t \in Check(p).mask
  BY <1>2, <1>5, <1>6, MetAll DEF k
<1> QED BY <1>4, <1>7 DEF k, e, s, t

\* A pinned piece that moves safely stays on the line it is pinned on.
LEMMA PinFollows ==
  ASSUME NEW p, Sound(p), NEW m, Ordinary(p, m), m.from # OwnKing(p), m.kind # "enpassant", Safe(p, m),
         m.from # m.to
  PROVE  /\ m.from \in DiagPins(p) => m.to \in DiagPins(p) /\ Diag(m.from, m.to)
         /\ m.from \in LinePins(p) => m.to \in LinePins(p) /\ Orth(m.from, m.to)
         /\ m.from \in LinePins(p) =>
              \E a \in Square : /\ Orth(OwnKing(p), a) /\ Amid(OwnKing(p), m.from, a)
                                /\ m.to = a \/ Amid(OwnKing(p), m.to, a)
                                /\ Between[OwnKing(p)][a] \subseteq LinePins(p)
                                /\ Aims(p, Other(p.stm), a, OwnKing(p))
<1> DEFINE k == OwnKing(p)
           e == Other(p.stm)
           s == m.from
           t == m.to
<1>1. k \in Square /\ s \in Us(p, p.stm) /\ s \in Square /\ t \in Square
  BY Sides DEF Ordinary
<1> HIDE DEF k, e, s, t
<1>2. ASSUME NEW a \in Square, Aims(p, e, a, k), Amid(k, s, a), Clear(k, a, Occ(p) \ {s})
      PROVE  (t = a \/ Amid(k, t, a)) /\ t \in Between[k][a]
             /\ (Diag(k, a) => Diag(s, t)) /\ (Orth(k, a) => Orth(s, t))
  <2>1. t = a \/ Amid(k, t, a)
    BY <1>2, SafeMeets DEF k, e, s, t
  <2>2. t \in Between[k][a]
    BY <1>1, <2>1, BetweenIs
  <2>3. CASE t = a
    BY <1>1, <1>2, <2>1, <2>2, <2>3, AmidFacts
  <2>4. CASE Amid(k, t, a)
    <3>1. s # t
      BY DEF s, t
    <3>2. Amid(k, s, t) \/ Amid(k, t, s)
      BY <1>1, <1>2, <2>4, <3>1, SameLine
    <3>3. /\ Diag(k, a) => Diag(k, s) /\ Diag(k, t)
          /\ Orth(k, a) => Orth(k, s) /\ Orth(k, t)
      BY <1>1, <1>2, <2>4, AmidFacts
    <3>4. (Diag(k, a) => Diag(s, t) \/ Diag(t, s)) /\ (Orth(k, a) => Orth(s, t) \/ Orth(t, s))
      BY <1>1, <3>2, <3>3, AmidFacts
    <3> QED BY <1>1, <2>1, <2>2, <3>4, StepsBack
  <2> QED BY <2>1, <2>3, <2>4
<1>3. ASSUME s \in DiagPins(p) PROVE t \in DiagPins(p) /\ Diag(s, t)
  <2>1. PICK a \in Square : /\ Aims(p, e, a, k) /\ Diag(k, a)
                            /\ Amid(k, s, a) /\ Clear(k, a, Occ(p) \ {s})
                            /\ Between[k][a] \subseteq DiagPins(p)
    BY <1>1, <1>3, PinnedBy DEF k, e
  <2> QED BY <1>2, <2>1
<1>4. ASSUME s \in LinePins(p)
      PROVE  /\ t \in LinePins(p) /\ Orth(s, t)
             /\ \E a \in Square : /\ Orth(k, a) /\ Amid(k, s, a)
                                  /\ t = a \/ Amid(k, t, a)
                                  /\ Between[k][a] \subseteq LinePins(p) /\ Aims(p, e, a, k)
  <2>1. PICK a \in Square : /\ Aims(p, e, a, k) /\ Orth(k, a)
                            /\ Amid(k, s, a) /\ Clear(k, a, Occ(p) \ {s})
                            /\ Between[k][a] \subseteq LinePins(p)
    BY <1>1, <1>4, PinnedBy DEF k, e
  <2> QED BY <1>2, <2>1
<1> QED BY <1>3, <1>4 DEF k, e, s, t

\* Every safe move of a piece is generated.
LEMMA PieceAll ==
  ASSUME NEW p, Sound(p), NEW m, PieceGoes(p, m), Safe(p, m)
  PROVE  Check(p).checks # 2 /\ PieceMove(p, m)
<1>1. PICK s \in Square, t \in Square \ Us(p, p.stm) : m = Normal(s, t) /\ Reaches(p, s, t)
  BY DEF PieceGoes
<1>2. m.from = s /\ m.to = t /\ m.kind = "normal" /\ m.promo = "n"
  BY <1>1 DEF Normal, Move
<1>3. s \in Us(p, p.stm) /\ s # OwnKing(p) /\ s # t
  <2>1. \A types : "k" \notin types => OwnKing(p) \notin Pieces(p, types, p.stm)
    BY Sides, KingStands DEF OwnKing
  <2>2. \E types : "k" \notin types /\ s \in Pieces(p, types, p.stm)
    BY <1>1 DEF Reaches
  <2> QED BY <1>1, <2>1, <2>2, Sides
<1>4. Ordinary(p, m)
  BY <1>1, <1>2, <1>3 DEF Ordinary, Plain
<1>5. Check(p).checks # 2 /\ t \in Check(p).mask
  BY <1>2, <1>3, <1>4, SafeMeets
<1>6. /\ s \in DiagPins(p) => t \in DiagPins(p) /\ Diag(s, t)
      /\ s \in LinePins(p) => t \in LinePins(p) /\ Orth(s, t)
  BY <1>2, <1>3, <1>4, PinFollows
<1>7. ~(Diag(s, t) /\ Orth(s, t)) /\ (KnightStep(s, t) => ~Diag(s, t) /\ ~Orth(s, t))
  BY <1>1, LinesDiffer
<1>8. Diag(s, t) /\ Clear(s, t, Occ(p)) => t \in BishopAttacks(s, Occ(p))
  BY <1>1, BishopSees
<1>9. Orth(s, t) /\ Clear(s, t, Occ(p)) => t \in RookAttacks(s, Occ(p))
  BY <1>1, RookSees
<1>10. PieceTo(p, s, t)
  <2>1. CASE s \in Pieces(p, {"n"}, p.stm) /\ KnightStep(s, t)
    <3>1. t \in KnightAttacks[s]
      BY <1>1, <2>1, KnightSees
    <3> QED BY <1>6, <1>7, <2>1, <3>1 DEF PieceTo
  <2>2. CASE s \in Pieces(p, {"b"}, p.stm) /\ Diag(s, t) /\ Clear(s, t, Occ(p))
    <3>1. t \in BishopMoves(p, s, DiagPins(p))
      BY <1>1, <1>6, <1>8, <2>2 DEF BishopMoves
    <3> QED BY <1>6, <1>7, <2>2, <3>1 DEF PieceTo
  <2>3. CASE s \in Pieces(p, {"r"}, p.stm) /\ Orth(s, t) /\ Clear(s, t, Occ(p))
    <3>1. t \in RookMoves(p, s, LinePins(p))
      BY <1>1, <1>6, <1>9, <2>3 DEF RookMoves
    <3> QED BY <1>6, <1>7, <2>3, <3>1 DEF PieceTo
  <2>4. CASE s \in Pieces(p, {"q"}, p.stm)
    <3>1. (Diag(s, t) \/ Orth(s, t)) /\ Clear(s, t, Occ(p))
      BY <1>1, <2>4 DEF Reaches, Pieces
    <3>2. CASE s \in DiagPins(p)
      <4>1. QueenMoves(p, s, DiagPins(p), LinePins(p)) = BishopAttacks(s, Occ(p)) \cap DiagPins(p)
        BY <3>2 DEF QueenMoves
      <4> QED BY <1>6, <1>7, <1>8, <2>4, <3>1, <3>2, <4>1 DEF PieceTo
    <3>3. CASE s \in LinePins(p) \ DiagPins(p)
      <4>1. QueenMoves(p, s, DiagPins(p), LinePins(p)) = RookAttacks(s, Occ(p)) \cap LinePins(p)
        BY <3>3 DEF QueenMoves
      <4> QED BY <1>6, <1>7, <1>9, <2>4, <3>1, <3>3, <4>1 DEF PieceTo
    <3>4. CASE s \notin DiagPins(p) /\ s \notin LinePins(p)
      <4>1. QueenMoves(p, s, DiagPins(p), LinePins(p)) = QueenAttacks(s, Occ(p))
        BY <3>4 DEF QueenMoves
      <4> QED BY <1>8, <1>9, <2>4, <3>1, <3>4, <4>1 DEF PieceTo, QueenAttacks
    <3> QED BY <3>2, <3>3, <3>4
  <2>5. /\ s \in Pieces(p, {"b", "q"}, p.stm) => s \in Pieces(p, {"b"}, p.stm) \/ s \in Pieces(p, {"q"}, p.stm)
        /\ s \in Pieces(p, {"r", "q"}, p.stm) => s \in Pieces(p, {"r"}, p.stm) \/ s \in Pieces(p, {"q"}, p.stm)
    BY DEF Pieces
  <2> QED BY <1>1, <2>1, <2>2, <2>3, <2>4, <2>5 DEF Reaches
<1> QED BY <1>1, <1>5, <1>10 DEF PieceMove

\* Where a pawn goes, by its coordinates.
LEMMA PawnGeometry ==
  ASSUME NEW p, Sound(p), NEW s \in Pieces(p, {"p"}, p.stm), NEW t \in Square, PawnReaches(p, s, t)
  PROVE  /\ s \in Square /\ s # t
         /\ \/ PawnStep(p.stm, s, t) /\ t \in Us(p, Other(p.stm)) /\ Diag(s, t)
            \/ /\ t = s + Forward(p.stm) /\ t \notin Occ(p) /\ Orth(s, t) /\ FileOf(s) = FileOf(t)
            \/ \E u \in Square :
                 /\ u = s + Forward(p.stm) /\ u \notin Occ(p) /\ RankOf(u) = RelRank(2, p.stm)
                 /\ t = u + Forward(p.stm) /\ t \notin Occ(p) /\ Orth(s, t) /\ FileOf(s) = FileOf(t)
                 /\ Amid(s, u, t)
<1>1. s \in Square /\ p.stm \in Color /\ s \in Occ(p) /\ TypeOf(p.board[s]) = "p"
  BY Sides DEF Pieces
<1>2. RankOf(s) \in 1..6 /\ FileOf(s) \in 0..7
  BY <1>1, Coordinates DEF PawnsInside, Sound
<1>3. s + Forward(p.stm) \in Square /\ FileOf(s + Forward(p.stm)) = FileOf(s)
      /\ RankOf(s + Forward(p.stm)) = RankOf(s) + Up1(p.stm)
  BY <1>1, <1>2, PushIs
<1>4. Up1(p.stm) \in {1, -1}
  BY DEF Up1
<1>5. CASE PawnStep(p.stm, s, t) /\ t \in Us(p, Other(p.stm))
  <2>1. Diag(s, t)
    BY <1>1, <1>5, Near
  <2> QED BY <1>1, <1>5, <2>1 DEF Diag
<1>6. CASE t = s + Forward(p.stm) /\ t \notin Occ(p)
  <2>1. Orth(s, t)
    BY <1>1, <1>3, <1>6, Near
  <2> QED BY <1>1, <1>3, <1>6, <2>1 DEF Orth
<1>7. CASE RankOf(s) = RelRank(1, p.stm) /\ t = s + 2 * Forward(p.stm) /\ t \notin Occ(p) /\ s + Forward(p.stm) \notin Occ(p)
  <2> DEFINE u == s + Forward(p.stm)
  <2>1. RankOf(u) = RelRank(2, p.stm) /\ RankOf(u) \notin {0, 7}
    BY <1>1, <1>2, <1>3, <1>7 DEF RelRank, Up1, Color, White, Black
  <2>2. t = u + Forward(p.stm)
    BY <1>1, <1>7 DEF Forward, Square
  <2> HIDE DEF u
  <2>3. FileOf(t) = FileOf(u) /\ RankOf(t) = RankOf(u) + Up1(p.stm) /\ FileOf(u) = FileOf(s)
        /\ RankOf(u) = RankOf(s) + Up1(p.stm) /\ u \in Square
    BY <1>1, <1>3, <2>1, <2>2, PushIs DEF u
  <2>4. Amid(s, u, t) /\ Orth(s, t) /\ s # t
    BY <1>1, <1>2, <1>4, <2>3 DEF Amid, Up, Orth
  <2> QED BY <1>1, <1>7, <2>1, <2>2, <2>3, <2>4 DEF u
<1> QED BY <1>5, <1>6, <1>7 DEF PawnReaches

\* What is between two squares of a line is on the line.
LEMMA MidAmid ==
  ASSUME NEW k \in Square, NEW s \in Square, NEW u \in Square, NEW t \in Square, NEW a \in Square,
         Amid(k, s, a), Amid(k, t, a), Amid(s, u, t)
  PROVE  Amid(k, u, a)
<1>1. /\ FileOf(k) \in 0..7 /\ FileOf(s) \in 0..7 /\ FileOf(a) \in 0..7 /\ FileOf(t) \in 0..7 /\ FileOf(u) \in 0..7
      /\ RankOf(k) \in 0..7 /\ RankOf(s) \in 0..7 /\ RankOf(a) \in 0..7 /\ RankOf(t) \in 0..7 /\ RankOf(u) \in 0..7
  BY Coordinates
<1> QED BY <1>1, SMTT(60) DEF Amid, Up

\* Every safe move of a pawn is generated.
LEMMA PawnAll ==
  ASSUME NEW p, Sound(p), NEW m, PawnGoes(p, m), Safe(p, m)
  PROVE  Check(p).checks # 2 /\ PawnMove(p, m)
<1>1. PICK s \in Pieces(p, {"p"}, p.stm), t \in Square \ Us(p, p.stm) :
        /\ PawnReaches(p, s, t)
        /\ m \in IF RankOf(t) = RelRank(7, p.stm) THEN Promotions(s, t) ELSE {Normal(s, t)}
  BY DEF PawnGoes
<1>2. m.from = s /\ m.to = t /\ m.kind \in {"normal", "promotion"} /\ m.promo \in {"q", "r", "b", "n"}
  BY <1>1 DEF Normal, Move, Promotions
<1>3. s \in Us(p, p.stm) /\ s # OwnKing(p) /\ s # t /\ TypeOf(p.board[s]) = "p" /\ s \in Square /\ p.stm \in Color
      /\ OwnKing(p) \in Square
  <2>1. OwnKing(p) \notin Pieces(p, {"p"}, p.stm)
    BY Sides, KingStands DEF OwnKing
  <2>2. TypeOf(p.board[s]) = "p"
    BY <1>1 DEF Pieces
  <2> QED BY <1>1, <2>1, <2>2, Sides
<1>4. Ordinary(p, m)
  BY <1>1, <1>2, <1>3 DEF Ordinary, Plain
<1>5. Check(p).checks # 2 /\ t \in Check(p).mask
  BY <1>2, <1>3, <1>4, SafeMeets
<1>6. /\ s \in DiagPins(p) => t \in DiagPins(p) /\ Diag(s, t)
      /\ s \in LinePins(p) => t \in LinePins(p) /\ Orth(s, t)
      /\ s \in LinePins(p) =>
           \E a \in Square : /\ Orth(OwnKing(p), a) /\ Amid(OwnKing(p), s, a)
                             /\ t = a \/ Amid(OwnKing(p), t, a)
                             /\ Between[OwnKing(p)][a] \subseteq LinePins(p)
                             /\ Aims(p, Other(p.stm), a, OwnKing(p))
  BY <1>2, <1>3, <1>4, PinFollows
<1>7. ~(Diag(s, t) /\ Orth(s, t))
  BY <1>1, <1>3, LinesDiffer
<1>8. /\ s # t
      /\ \/ PawnStep(p.stm, s, t) /\ t \in Us(p, Other(p.stm)) /\ Diag(s, t)
         \/ /\ t = s + Forward(p.stm) /\ t \notin Occ(p) /\ Orth(s, t) /\ FileOf(s) = FileOf(t)
         \/ \E u \in Square :
              /\ u = s + Forward(p.stm) /\ u \notin Occ(p) /\ RankOf(u) = RelRank(2, p.stm)
              /\ t = u + Forward(p.stm) /\ t \notin Occ(p) /\ Orth(s, t) /\ FileOf(s) = FileOf(t)
              /\ Amid(s, u, t)
  BY <1>1, PawnGeometry
<1>9. CASE PawnStep(p.stm, s, t) /\ t \in Us(p, Other(p.stm)) /\ Diag(s, t)
  <2>1. t \in PawnAttacks[p.stm][s]
    BY <1>3, <1>9, PawnSees
  <2>2. PawnTakes(p, s, t)
    BY <1>6, <1>7, <1>9, <2>1 DEF PawnTakes
  <2> QED BY <1>1, <1>5, <2>2 DEF PawnMove, PawnTo
<1>10. CASE t = s + Forward(p.stm) /\ t \notin Occ(p) /\ Orth(s, t)
  <2>1. PawnPush(p, s, t)
    BY <1>6, <1>7, <1>10 DEF PawnPush
  <2> QED BY <1>1, <1>5, <2>1 DEF PawnMove, PawnTo
<1>11. ASSUME NEW u \in Square,
              u = s + Forward(p.stm), u \notin Occ(p), RankOf(u) = RelRank(2, p.stm),
              t = u + Forward(p.stm), t \notin Occ(p), Orth(s, t), Amid(s, u, t)
       PROVE  PawnMove(p, m)
  <2>0. t \in Square /\ Amid(s, u, t)
    BY <1>1, <1>11
  <2>1. s \in LinePins(p) => u \in LinePins(p)
    <3>1. SUFFICES ASSUME s \in LinePins(p) PROVE u \in LinePins(p)
      OBVIOUS
    <3>2. PICK a \in Square : /\ Amid(OwnKing(p), s, a) /\ (t = a \/ Amid(OwnKing(p), t, a))
                              /\ Between[OwnKing(p)][a] \subseteq LinePins(p)
                              /\ Aims(p, Other(p.stm), a, OwnKing(p))
      BY <1>6, <3>1
    <3>3. a \in Occ(p)
      BY <3>2, Sides DEF Aims
    <3>4. Amid(OwnKing(p), t, a)
      BY <1>11, <3>2, <3>3
    <3>5. Amid(OwnKing(p), u, a)
      BY <1>3, <2>0, <3>2, <3>4, MidAmid
    <3> QED BY <1>3, <3>2, <3>5, BetweenIs
  <2>2. PawnPush(p, s, u)
    BY <1>6, <1>7, <1>11, <2>1 DEF PawnPush
  <2>3. PawnPush2(p, s, t)
    BY <1>11, <2>2 DEF PawnPush2
  <2> QED BY <1>1, <1>5, <2>3 DEF PawnMove, PawnTo
<1> QED BY <1>5, <1>8, <1>9, <1>10, <1>11

----------------------------------------
(* Safe moves of the king and captures en passant are generated *)

\* A square that is seen is hit, were the king not on the board.
LEMMA SeenBy ==
  ASSUME NEW p, Sound(p), NEW t \in Square, t \in Seen(p)
  PROVE  \E a \in Square :
           \/ a \in Pieces(p, {"p"}, Other(p.stm)) /\ PawnStep(Other(p.stm), a, t)
           \/ a \in Pieces(p, {"n"}, Other(p.stm)) /\ KnightStep(a, t)
           \/ a \in Pieces(p, {"k"}, Other(p.stm)) /\ KingStep(a, t)
           \/ Aims(p, Other(p.stm), a, t) /\ Clear(t, a, Occ(p) \ {OwnKing(p)})
<1> DEFINE e == Other(p.stm)
           own == KingSq(p, Other(e))
           occ == Occ(p) \ {own}
           Pawn(s) == PawnAttacks[e][s]
           Knight(s) == KnightAttacks[s]
           Bishop(s) == BishopAttacks(s, occ)
           Rook(s) == RookAttacks(s, occ)
           short == KingAttacks[own] \cap (Square \ Us(p, p.stm)) = {} /\ ~p.frc
           king == KingAttacks[KingSq(p, e)]
           seen == (UNION {Pawn(s) : s \in Pieces(p, {"p"}, e)}) \cup (UNION {Knight(s) : s \in Pieces(p, {"n"}, e)})
                \cup (UNION {Bishop(s) : s \in Pieces(p, {"b", "q"}, e)})
                \cup (UNION {Rook(s) : s \in Pieces(p, {"r", "q"}, e)}) \cup king
<1>1. /\ e \in Color /\ Other(e) = p.stm /\ KingSq(p, e) \in Square
      /\ \A types : Pieces(p, types, e) \subseteq Square
      /\ KingSq(p, e) \in Pieces(p, {"k"}, e)
  BY Sides DEF OneKing
<1>2. Seen(p) = IF short THEN {} ELSE seen
  BY DEF Seen, SeenSquares
<1>3. own = OwnKing(p)
  BY <1>1 DEF OwnKing
<1>4. t \in seen
  <2> HIDE DEF seen, short
  <2> QED BY <1>2
<1>5. \/ \E a \in Pieces(p, {"p"}, e) : t \in Pawn(a)
      \/ \E a \in Pieces(p, {"n"}, e) : t \in Knight(a)
      \/ \E a \in Pieces(p, {"b", "q"}, e) : t \in Bishop(a)
      \/ \E a \in Pieces(p, {"r", "q"}, e) : t \in Rook(a)
      \/ t \in king
  <2> HIDE DEF Pawn, Knight, Bishop, Rook, e, king
  <2> QED BY <1>4
<1>6. ASSUME NEW a \in Pieces(p, {"p"}, e), t \in Pawn(a) PROVE PawnStep(e, a, t) /\ a \in Square
  BY <1>1, <1>6, PawnSees
<1>7. ASSUME NEW a \in Pieces(p, {"n"}, e), t \in Knight(a) PROVE KnightStep(a, t) /\ a \in Square
  BY <1>1, <1>7, KnightSees
<1>8. ASSUME NEW a \in Pieces(p, {"b", "q"}, e), t \in Bishop(a)
      PROVE  a \in Square /\ Diag(t, a) /\ Clear(t, a, occ)
  BY <1>1, <1>8, BishopSees, StepsBack, ClearBack
<1>9. ASSUME NEW a \in Pieces(p, {"r", "q"}, e), t \in Rook(a)
      PROVE  a \in Square /\ Orth(t, a) /\ Clear(t, a, occ)
  BY <1>1, <1>9, RookSees, StepsBack, ClearBack
<1>10. t \in king => KingStep(KingSq(p, e), t)
  BY <1>1, KingSees
<1> HIDE DEF Pawn, Knight, Bishop, Rook, king, e, own
<1> QED BY <1>1, <1>3, <1>5, <1>6, <1>7, <1>8, <1>9, <1>10 DEF Aims, e

\* Every safe move of the king is generated.
LEMMA KingAll ==
  ASSUME NEW p, Sound(p), NEW m, KingGoes(p, m), Safe(p, m)
  PROVE  KingMove(p, m)
<1> DEFINE k == OwnKing(p)
           e == Other(p.stm)
<1>1. PICK t \in Square \ Us(p, p.stm) : m = Normal(k, t) /\ KingStep(k, t)
  BY DEF KingGoes
<1>2. m.from = k /\ m.to = t /\ m.kind = "normal" /\ m.promo = "n" /\ Gone(m) = {k}
  BY <1>1 DEF Normal, Move, Gone
<1>3. k \in Us(p, p.stm) /\ k \in Square /\ Us(p, p.stm) \cap Us(p, e) = {}
      /\ \A types : Pieces(p, types, e) \subseteq Us(p, e)
  BY Sides
<1>4. Ordinary(p, m)
  BY <1>1, <1>2, <1>3 DEF Ordinary, Plain
<1>5. t \notin Seen(p)
  <2>1. SUFFICES ASSUME t \in Seen(p) PROVE FALSE
    OBVIOUS
  <2>2. PICK a \in Square :
           \/ a \in Pieces(p, {"p"}, e) /\ PawnStep(e, a, t)
           \/ a \in Pieces(p, {"n"}, e) /\ KnightStep(a, t)
           \/ a \in Pieces(p, {"k"}, e) /\ KingStep(a, t)
           \/ Aims(p, e, a, t) /\ Clear(t, a, Occ(p) \ {k})
    BY <1>1, <2>1, SeenBy
  <2>3. a \in Us(p, e) /\ a # k
    BY <1>3, <2>2 DEF Aims
  <2>4. a # t
    <3>1. FileOf(t) \in 0..7 /\ RankOf(t) \in 0..7
      BY <1>1, Coordinates
    <3> QED BY <2>2, <3>1 DEF PawnStep, KnightStep, KingStep, Aims, Diag, Orth
  <2>5. Clear(t, a, Occ(p) \ {k}) => Clear(t, a, (Occ(p) \ Gone(m)) \cup {t})
    BY <1>1, <1>2, AmidFacts DEF Clear
  <2>6. a \notin Gone(m)
    BY <1>2, <2>3
  <2> HIDE DEF k, e
  <2> QED BY <1>1, <1>2, <1>4, <2>2, <2>4, <2>5, <2>6, SafeSays DEF k, e
<1>6. t \in KingAttacks[k]
  BY <1>1, <1>3, KingSees
<1> QED BY <1>1, <1>5, <1>6 DEF KingMove

----------------------------------------
(* En passant *)

\* A safe capture en passant meets every check but that of the pawn it takes.
LEMMA EpMeets ==
  ASSUME NEW p, Sound(p), p.ep # NoSq, NEW m, NEW s \in Pieces(p, {"p"}, p.stm),
         m = Move(s, p.ep, "enpassant", "n"), PawnStep(p.stm, s, p.ep), Safe(p, m),
         NEW a \in Square, a \in Us(p, Other(p.stm)), a # EpPawn(p)
  PROVE  /\ ~(a \in Pieces(p, {"p"}, Other(p.stm)) /\ PawnStep(Other(p.stm), a, OwnKing(p)))
         /\ ~(a \in Pieces(p, {"n"}, Other(p.stm)) /\ KnightStep(a, OwnKing(p)))
         /\ Aims(p, Other(p.stm), a, OwnKing(p)) /\ Clear(OwnKing(p), a, Occ(p) \ {s, EpPawn(p)})
            => Amid(OwnKing(p), p.ep, a)
<1>1. m.from = s /\ m.to = p.ep /\ m.kind = "enpassant" /\ m.promo = "n"
  BY DEF Move
<1>2. /\ p.ep \in Square /\ p.ep \notin Occ(p) /\ EpPawn(p) = EpSquare(p.ep)
      /\ EpPawn(p) \in Pieces(p, {"p"}, Other(p.stm))
  BY EpFacts
<1>3. /\ s \in Us(p, p.stm) /\ Us(p, p.stm) \subseteq Occ(p) /\ EpPawn(p) \in Us(p, Other(p.stm))
      /\ Us(p, p.stm) \cap Us(p, Other(p.stm)) = {} /\ Us(p, Other(p.stm)) \subseteq Occ(p)
  BY <1>2, Sides
<1>4. TypeOf(p.board[s]) = "p"
  BY DEF Pieces
<1>5. Ordinary(p, m)
  BY <1>1, <1>2, <1>3, <1>4 DEF Ordinary, Plain
<1>6. Gone(m) = {s, EpPawn(p)}
  BY <1>1, <1>2 DEF Gone
<1>7. m.from # OwnKing(p)
  BY <1>1, Sides, KingStands DEF OwnKing
<1>8. a # m.to /\ a \notin Gone(m)
  BY <1>1, <1>2, <1>3, <1>6
<1>9. Clear(OwnKing(p), a, Occ(p) \ {s, EpPawn(p)}) /\ ~Amid(OwnKing(p), p.ep, a)
      => Clear(OwnKing(p), a, (Occ(p) \ Gone(m)) \cup {m.to})
  BY <1>1, <1>6 DEF Clear
<1> QED BY <1>5, <1>7, <1>8, <1>9, SafeSays

\* Every safe capture en passant is generated.
LEMMA EpAll ==
  ASSUME NEW p, Sound(p), NEW m, EpGoes(p, m), Safe(p, m)
  PROVE  Check(p).checks # 2 /\ EpListed(p, m)
<1> DEFINE k == OwnKing(p)
           e == Other(p.stm)
           c == p.stm
           w == EpPawn(p)
           x == p.ep
<1>1. PICK s \in Pieces(p, {"p"}, c) : x # NoSq /\ m = Move(s, x, "enpassant", "n") /\ PawnStep(c, s, x)
  BY DEF EpGoes
<1>2. /\ x \in Square /\ x \notin Occ(p) /\ w \in Pieces(p, {"p"}, e) /\ w \in Square
      /\ FileOf(w) = FileOf(x) /\ RankOf(w) = RankOf(x) - Up1(c)
  BY <1>1, EpFacts
<1>3. /\ p \in Position /\ OneKing(p) /\ k \in Square /\ k \in Us(p, c) /\ c \in Color /\ e \in Color
      /\ Us(p, c) \cap Us(p, e) = {} /\ Us(p, c) \subseteq Occ(p) /\ Us(p, e) \subseteq Occ(p)
      /\ Occ(p) \subseteq Square /\ p.board[k] = <<c, "k">>
      /\ \A types, d : Pieces(p, types, d) \subseteq Us(p, d) /\ Pieces(p, types, d) \subseteq Square
  BY Sides, KingStands DEF OwnKing
<1>4. s \in Square /\ s \in Us(p, c) /\ s \in Occ(p) /\ s # x /\ w \in Us(p, e) /\ w \in Occ(p) /\ w # s /\ w # k
  BY <1>1, <1>2, <1>3
<1>5. s \in PawnAttacks[e][x]
  BY <1>1, <1>2, <1>3, <1>4, PawnSees, StepsBack
<1>6. ~Aims(p, e, w, k)
  BY <1>2 DEF Aims, Pieces
<1>7. ASSUME NEW a \in Square, Aims(p, e, a, k) PROVE a \in Us(p, e) /\ a # w /\ a \in Occ(p)
  BY <1>3, <1>6, <1>7 DEF Aims
<1>8. ASSUME NEW a \in Square, Aims(p, e, a, k), Clear(k, a, Occ(p) \ {s, w}) PROVE Amid(k, x, a)
  BY <1>1, <1>7, <1>8, EpMeets
<1> HIDE DEF k, e, c, w, x
<1>9. ASSUME NEW a \in ByLeap(p) PROVE a = w /\ PawnStep(e, w, k)
  <2>1. \/ a \in Pieces(p, {"p"}, e) /\ PawnStep(e, a, k)
        \/ a \in Pieces(p, {"n"}, e) /\ KnightStep(a, k)
    BY <1>3, <1>9, ChecksAre DEF k, e
  <2>2. a \in Square /\ a \in Us(p, e)
    BY <1>3, <2>1
  <2>3. a = w
    BY <1>1, <2>1, <2>2, EpMeets DEF k, e, w, x, c
  <2>4. w \notin Pieces(p, {"n"}, e)
    BY <1>2 DEF Pieces
  <2> QED BY <2>1, <2>3, <2>4
<1>10. ASSUME NEW a \in ByDiagonal(p) \cup ByLine(p) PROVE a \in Square /\ Amid(k, x, a)
  <2>1. /\ \/ a \in Pieces(p, {"b", "q"}, e) /\ Diag(k, a)
           \/ a \in Pieces(p, {"r", "q"}, e) /\ Orth(k, a)
        /\ Clear(k, a, Occ(p))
    BY <1>3, <1>10, ChecksAre DEF k, e
  <2>2. Aims(p, e, a, k) /\ a \in Square /\ Clear(k, a, Occ(p) \ {s, w})
    BY <1>3, <2>1 DEF Aims, Clear
  <2> QED BY <1>8, <2>2
<1>11. Check(p).checks # 2 /\ Check(p).mask \cap {w, x} # {}
  <2>1. CASE ByLeap(p) = {}
    BY <1>2, <1>10, <2>1, MetAll DEF k
  <2>2. CASE ByLeap(p) # {}
    <3>1. PawnStep(e, w, k)
      BY <1>9, <2>2
    <3>2. KnightStep(k, x)
      <4>1. FileOf(w) \in 0..7 /\ FileOf(k) \in 0..7 /\ RankOf(w) \in 0..7 /\ RankOf(k) \in 0..7 /\ RankOf(x) \in 0..7
        BY <1>2, <1>3, Coordinates
      <4>2. Up1(c) \in {1, -1} /\ Up1(e) = -Up1(c)
        BY <1>3 DEF Up1, e, c, Other, Color, White, Black
      <4> QED BY <1>2, <3>1, <4>1, <4>2 DEF PawnStep, KnightStep
    <3>3. ~Diag(k, x) /\ ~Orth(k, x)
      BY <1>2, <1>3, <3>2, LinesDiffer
    <3>4. ByDiagonal(p) \cup ByLine(p) = {}
      <4>1. SUFFICES ASSUME NEW a \in ByDiagonal(p) \cup ByLine(p) PROVE FALSE
        OBVIOUS
      <4>2. a \in Square /\ Amid(k, x, a)
        BY <1>10
      <4> QED BY <1>2, <1>3, <3>3, <4>2, AmidFacts DEF Aligned
    <3> QED BY <1>2, <1>9, <3>4, MetAll
  <2> QED BY <2>1, <2>2
<1>12. Diag(s, x) /\ ~Orth(s, x)
  BY <1>1, <1>2, <1>3, <1>4, Near, LinesDiffer
<1>13. s \notin LinePins(p)
  <2>1. SUFFICES ASSUME s \in LinePins(p) PROVE FALSE
    OBVIOUS
  <2>2. PICK a \in Square : /\ Aims(p, e, a, k) /\ Orth(k, a)
                            /\ Amid(k, s, a) /\ Clear(k, a, Occ(p) \ {s})
    BY <1>4, <2>1, PinnedBy DEF k, e, c
  <2>3. Amid(k, x, a)
    BY <1>8, <2>2 DEF Clear
  <2>4. Amid(k, s, x) \/ Amid(k, x, s)
    BY <1>2, <1>3, <1>4, <2>2, <2>3, SameLine
  <2>5. Orth(k, s) /\ Orth(k, x)
    BY <1>2, <1>3, <1>4, <2>2, <2>3, AmidFacts
  <2>6. Orth(s, x) \/ Orth(x, s)
    BY <1>2, <1>3, <1>4, <2>4, <2>5, AmidFacts
  <2> QED BY <1>2, <1>4, <1>12, <2>6, StepsBack
<1>14. s \in DiagPins(p) => x \in DiagPins(p)
  <2>1. SUFFICES ASSUME s \in DiagPins(p) PROVE x \in DiagPins(p)
    OBVIOUS
  <2>2. PICK a \in Square : /\ Aims(p, e, a, k)
                            /\ Clear(k, a, Occ(p) \ {s})
                            /\ Between[k][a] \subseteq DiagPins(p)
    BY <1>4, <2>1, PinnedBy DEF k, e, c
  <2>3. Amid(k, x, a)
    BY <1>8, <2>2 DEF Clear
  <2> QED BY <1>2, <1>3, <2>2, <2>3, BetweenIs
<1>15. ASSUME NEW t \in Pieces(p, {"p"}, c), t \in PawnAttacks[e][x] PROVE ~Bared(p, k, w, t)
  <2>1. SUFFICES ASSUME Bared(p, k, w, t) PROVE FALSE
    OBVIOUS
  <2>2. t \in Square /\ t \in Occ(p) /\ t \in Us(p, c) /\ t # k
    <3>1. k \notin Pieces(p, {"p"}, c)
      BY <1>3, KingStands DEF k, c, OwnKing
    <3> QED BY <1>3, <1>15, <3>1
  <2>3. SymDiff(Occ(p), {w, t}) = Occ(p) \ {w, t}
    BY <1>4, <2>2 DEF SymDiff
  <2>4. Other(ColorOf(p.board[k])) = e
    BY <1>3 DEF ColorOf, e, c
  <2>5. PICK a : a \in RookAttacks(k, Occ(p) \ {w, t}) /\ a \in Pieces(p, {"r", "q"}, e)
    BY <2>1, <2>3, <2>4 DEF Bared
  <2>6. a \in Square /\ Orth(k, a) /\ Clear(k, a, Occ(p) \ {w, t})
    BY <1>3, <2>5, RookSees
  <2>7. Aims(p, e, a, k)
    BY <2>5, <2>6 DEF Aims
  <2>8. a \in Us(p, e) /\ a # w /\ a \in Occ(p) /\ a # s /\ a # t
    BY <1>3, <1>4, <1>7, <2>2, <2>6, <2>7
  <2>9. RankOf(k) = RankOf(w)
    BY <2>1 DEF Bared
  <2>10. PawnStep(c, t, x)
    <3>1. PawnStep(e, x, t)
      BY <1>2, <1>3, <1>15, PawnSees
    <3>2. e = Other(c)
      BY DEF e, c
    <3> QED BY <1>2, <1>3, <2>2, <3>1, <3>2, StepsBack
  <2>11. /\ FileOf(k) \in 0..7 /\ RankOf(k) \in 0..7 /\ FileOf(a) \in 0..7 /\ RankOf(a) \in 0..7
         /\ FileOf(t) \in 0..7 /\ RankOf(t) \in 0..7 /\ FileOf(s) \in 0..7 /\ RankOf(s) \in 0..7
         /\ FileOf(x) \in 0..7 /\ RankOf(x) \in 0..7 /\ FileOf(w) \in 0..7 /\ Up1(c) \in {1, -1}
    BY <1>2, <1>3, <1>4, <2>2, <2>6, Coordinates DEF Up1
  <2>12. RankOf(s) = RankOf(w) /\ RankOf(t) = RankOf(w) /\ RankOf(x) # RankOf(k)
         /\ FileOf(x) - FileOf(s) \in {1, -1} /\ FileOf(x) - FileOf(t) \in {1, -1}
    BY <1>1, <1>2, <2>9, <2>10, <2>11 DEF PawnStep
  <2>13. FileOf(k) # FileOf(x) /\ FileOf(k) # FileOf(s)
    <3>1. k # s
      BY <1>1, <1>3, KingStands DEF k, c, OwnKing
    <3> QED BY <1>2, <1>3, <1>4, <2>9, <2>12, <3>1, SameSquare
  <2>14. ~Amid(k, x, a)
    BY <2>6, <2>11, <2>12, <2>13, SMTT(60) DEF Amid, Up, Orth
  <2>15. t = s \/ ~Amid(k, t, a)
    <3>1. SUFFICES ASSUME t # s, Amid(k, t, a) PROVE FALSE
      OBVIOUS
    <3>2. ~Amid(k, s, a)
      BY <1>4, <2>6, <3>1 DEF Clear
    <3>3. FileOf(t) # FileOf(s)
      BY <1>4, <2>2, <2>12, <3>1, SameSquare
    <3>4. RankOf(a) = RankOf(k) /\ Up(FileOf(k), FileOf(t), FileOf(a))
      BY <2>6, <2>9, <2>11, <2>12, <3>1, SMTT(60) DEF Amid, Up, Orth
    <3>5. FileOf(a) # FileOf(s) /\ FileOf(a) # FileOf(x)
      BY <1>2, <1>4, <2>6, <2>8, <2>9, <2>12, <3>4, SameSquare
    <3>6. Up(FileOf(k), FileOf(s), FileOf(a))
      BY <2>11, <2>12, <2>13, <3>3, <3>4, <3>5, SMTT(60) DEF Up
    <3> QED BY <2>9, <2>12, <3>2, <3>4, <3>6 DEF Amid
  <2>16. Clear(k, a, Occ(p) \ {s, w})
    BY <2>6, <2>15 DEF Clear
  <2> QED BY <1>8, <2>6, <2>7, <2>14, <2>16
<1>16. ~Bared(p, k, w, s)
  BY <1>1, <1>5, <1>15
<1>17. EpMove(p, m)
  BY <1>1, <1>5, <1>11, <1>13, <1>14, <1>16 DEF EpMove, k, e, c, w, x
<1> QED BY <1>11, <1>15, <1>17 DEF EpListed, k, e, c, w, x

----------------------------------------
(* No other moves *)

\* A generated move of a piece is one of the rules.
LEMMA PieceOnly ==
  ASSUME NEW p, Sound(p), NEW m, PieceMove(p, m)
  PROVE  PieceGoes(p, m)
<1>1. PICK s : \E t : m = Normal(s, t) /\ PieceTo(p, s, t) /\ t \in Square \ Us(p, p.stm) /\ t \in Check(p).mask
  BY DEF PieceMove
<1>2. PICK t : m = Normal(s, t) /\ PieceTo(p, s, t) /\ t \in Square \ Us(p, p.stm)
  BY <1>1
<1>3. \A types : Pieces(p, types, p.stm) \subseteq Square
  BY Sides
<1>4. /\ s \in Pieces(p, {"b"}, p.stm) => s \in Pieces(p, {"b", "q"}, p.stm)
      /\ s \in Pieces(p, {"r"}, p.stm) => s \in Pieces(p, {"r", "q"}, p.stm)
      /\ s \in Pieces(p, {"q"}, p.stm) => s \in Pieces(p, {"b", "q"}, p.stm) /\ s \in Pieces(p, {"r", "q"}, p.stm)
  BY DEF Pieces
<1>5. s \in Square /\ Reaches(p, s, t)
  <2>1. CASE s \in Pieces(p, {"n"}, p.stm) \ (DiagPins(p) \cup LinePins(p)) /\ t \in KnightAttacks[s]
    BY <1>3, <2>1, KnightSees DEF Reaches
  <2>2. CASE s \in Pieces(p, {"b"}, p.stm) \ LinePins(p) /\ t \in BishopMoves(p, s, DiagPins(p))
    <3>1. s \in Square /\ t \in BishopAttacks(s, Occ(p))
      BY <1>3, <2>2 DEF BishopMoves
    <3> QED BY <1>4, <2>2, <3>1, BishopSees DEF Reaches
  <2>3. CASE s \in Pieces(p, {"r"}, p.stm) \ DiagPins(p) /\ t \in RookMoves(p, s, LinePins(p))
    <3>1. s \in Square /\ t \in RookAttacks(s, Occ(p))
      BY <1>3, <2>3 DEF RookMoves
    <3> QED BY <1>4, <2>3, <3>1, RookSees DEF Reaches
  <2>4. CASE /\ s \in Pieces(p, {"q"}, p.stm) \ (DiagPins(p) \cap LinePins(p))
             /\ t \in QueenMoves(p, s, DiagPins(p), LinePins(p))
    <3>1. s \in Square
      BY <1>3, <2>4
    <3>2. t \in BishopAttacks(s, Occ(p)) \/ t \in RookAttacks(s, Occ(p))
      <4>1. CASE s \in DiagPins(p)
        BY <2>4, <4>1 DEF QueenMoves
      <4>2. CASE s \in LinePins(p) \ DiagPins(p)
        BY <2>4, <4>2 DEF QueenMoves
      <4>3. CASE s \notin DiagPins(p) /\ s \notin LinePins(p)
        BY <2>4, <4>3 DEF QueenMoves, QueenAttacks
      <4> QED BY <4>1, <4>2, <4>3
    <3>3. \/ Diag(s, t) /\ Clear(s, t, Occ(p))
          \/ Orth(s, t) /\ Clear(s, t, Occ(p))
      BY <3>1, <3>2, BishopSees, RookSees
    <3> QED BY <1>4, <2>4, <3>1, <3>3 DEF Reaches
  <2> QED BY <1>2, <2>1, <2>2, <2>3, <2>4 DEF PieceTo
<1> QED BY <1>2, <1>5 DEF PieceGoes

\* A generated move of a pawn is one of the rules.
LEMMA PawnOnly ==
  ASSUME NEW p, Sound(p), NEW m, PawnMove(p, m)
  PROVE  PawnGoes(p, m)
<1>1. PICK s \in Pieces(p, {"p"}, p.stm) : \E t :
        /\ PawnTo(p, s, t)
        /\ m \in IF RankOf(t) = RelRank(7, p.stm) THEN Promotions(s, t) ELSE {Normal(s, t)}
  BY DEF PawnMove
<1>2. PICK t : /\ PawnTo(p, s, t)
               /\ m \in IF RankOf(t) = RelRank(7, p.stm) THEN Promotions(s, t) ELSE {Normal(s, t)}
  BY <1>1
<1>3. s \in Square /\ t \in Square \ Us(p, p.stm) /\ p.stm \in Color
  BY <1>2, PawnReach, Sides
<1>4. PawnReaches(p, s, t)
  <2>1. CASE PawnTakes(p, s, t)
    BY <1>3, <2>1, PawnSees DEF PawnTakes, PawnReaches
  <2>2. CASE PawnPush(p, s, t)
    BY <2>2 DEF PawnPush, PawnReaches
  <2>3. CASE PawnPush2(p, s, t)
    <3>1. PICK u : PawnPush(p, s, u) /\ RankOf(u) = RelRank(2, p.stm) /\ t = u + Forward(p.stm)
      BY <2>3 DEF PawnPush2
    <3>2. u = s + Forward(p.stm) /\ u \notin Occ(p) /\ t \notin Occ(p)
      BY <2>3, <3>1 DEF PawnPush, PawnPush2
    <3>3. t = s + 2 * Forward(p.stm)
      BY <1>3, <3>1, <3>2 DEF Forward, Square
    <3>4. RankOf(s) = RelRank(1, p.stm)
      BY <1>3, <3>1, <3>2 DEF RankOf, RelRank, Forward, Square, Color, White, Black
    <3> QED BY <3>2, <3>3, <3>4 DEF PawnReaches
  <2> QED BY <1>2, <2>1, <2>2, <2>3 DEF PawnTo
<1> QED BY <1>2, <1>3, <1>4 DEF PawnGoes

\* A generated capture en passant is one of the rules.
LEMMA EpOnly ==
  ASSUME NEW p, Sound(p), NEW m, EpMove(p, m)
  PROVE  EpGoes(p, m)
<1>1. PICK s \in Pieces(p, {"p"}, p.stm) :
        /\ p.ep # NoSq /\ m = Move(s, p.ep, "enpassant", "n")
        /\ s \in PawnAttacks[Other(p.stm)][p.ep]
  BY DEF EpMove
<1>2. p.ep \in Square /\ s \in Square /\ p.stm \in Color /\ Other(p.stm) \in Color
  BY <1>1, EpFacts, Sides
<1>3. PawnStep(p.stm, s, p.ep)
  <2>1. PawnStep(Other(p.stm), p.ep, s)
    BY <1>1, <1>2, PawnSees
  <2> QED BY <1>2, <2>1, StepsBack
<1> QED BY <1>1, <1>3 DEF EpGoes

\* But for castling, the legal moves are the safe moves of the rules.
LEMMA OrdinaryExact ==
  ASSUME NEW p, Sound(p), NEW m
  PROVE  /\ m \in LegalMoves(p) => (m \in Pseudo(p) /\ Safe(p, m)) \/ CastlingMove(p, m)
         /\ m \in Pseudo(p) /\ Safe(p, m) => m \in LegalMoves(p)
<1>1. ASSUME m \in LegalMoves(p) PROVE (m \in Pseudo(p) /\ Safe(p, m)) \/ CastlingMove(p, m)
  <2>1. p.ep \in Int /\ p.stm \in Color /\ Pieces(p, {"p"}, p.stm) \in SUBSET Int
    BY Sides, PositionTypes DEF Square
  <2>2. KingMove(p, m) \/ CastlingMove(p, m) \/ (Check(p).checks # 2 /\ OtherMove(p, m))
    BY <1>1, <2>1, LegalShape
  <2>3. KingMove(p, m) => KingGoes(p, m)
    BY Sides, KingSees DEF KingMove, KingGoes
  <2>4. OtherMove(p, m) => PieceGoes(p, m) \/ PawnGoes(p, m) \/ EpGoes(p, m)
    BY PieceOnly, PawnOnly, EpOnly DEF OtherMove
  <2>5. Safe(p, m)
    BY <1>1, LegalSafe
  <2> QED BY <2>2, <2>3, <2>4, <2>5, PseudoIs
<1>2. ASSUME m \in Pseudo(p), Safe(p, m) PROVE m \in LegalMoves(p)
  <2>1. KingGoes(p, m) \/ PieceGoes(p, m) \/ PawnGoes(p, m) \/ EpGoes(p, m)
    BY <1>2, PseudoIs
  <2>2. \/ KingMove(p, m)
        \/ Check(p).checks # 2 /\ (PieceMove(p, m) \/ PawnMove(p, m) \/ EpListed(p, m))
    BY <1>2, <2>1, KingAll, PieceAll, PawnAll, EpAll
  <2> QED BY <2>2, LegalBack
<1> QED BY <1>1, <1>2

----------------------------------------
(* Castling of the rules *)

\* From a to b along a rank.
Span(a, b) == {s \in Square : RankOf(s) = RankOf(a) /\ ((a <= s /\ s <= b) \/ (b <= s /\ s <= a))}

\* The board without the king to move.
Lone(p) == [p EXCEPT !.board = Restrict(p.board, Occ(p) \ {OwnKing(p)})]

\* The squares from one to another of a rank, both included.
LEMMA SpanIs ==
  ASSUME NEW a \in Square, NEW b \in Square, RankOf(a) = RankOf(b), NEW s
  PROVE  s \in Span(a, b) <=> s = a \/ s = b \/ (s \in Square /\ Amid(a, s, b))
<1>1. /\ FileOf(a) \in 0..7 /\ RankOf(a) \in 0..7 /\ a = FileOf(a) + 8 * RankOf(a)
      /\ FileOf(b) \in 0..7 /\ RankOf(b) \in 0..7 /\ b = FileOf(b) + 8 * RankOf(b)
  BY Coordinates
<1>2. ASSUME NEW t \in Square, RankOf(t) = RankOf(a)
      PROVE  (a <= t /\ t <= b) \/ (b <= t /\ t <= a) <=> t = a \/ t = b \/ Amid(a, t, b)
  <2>1. FileOf(t) \in 0..7 /\ t = FileOf(t) + 8 * RankOf(a)
    BY <1>2, Coordinates
  <2>2. Amid(a, t, b) <=> Up(FileOf(a), FileOf(t), FileOf(b))
    BY <1>1, <1>2, <2>1 DEF Amid, Up
  <2> QED BY <1>1, <2>1, <2>2 DEF Up
<1>3. ASSUME s \in Square, Amid(a, s, b) PROVE RankOf(s) = RankOf(a)
  <2>1. FileOf(s) \in 0..7 /\ RankOf(s) \in 0..7
    BY <1>3, Coordinates
  <2> QED BY <1>1, <1>3, <2>1, SMTT(60) DEF Amid, Up
<1> QED BY <1>2, <1>3 DEF Span

\* What hits a square when the king is not on the board.
LEMMA LoneHit ==
  ASSUME NEW p, Sound(p), NEW t \in Square
  PROVE  IsAttacked(Lone(p), t, Other(p.stm)) <=>
           \E a \in Square :
             \/ a \in Pieces(p, {"p"}, Other(p.stm)) /\ PawnStep(Other(p.stm), a, t)
             \/ a \in Pieces(p, {"n"}, Other(p.stm)) /\ KnightStep(a, t)
             \/ a \in Pieces(p, {"k"}, Other(p.stm)) /\ KingStep(a, t)
             \/ Aims(p, Other(p.stm), a, t) /\ Clear(t, a, Occ(p) \ {OwnKing(p)})
<1> DEFINE q == Lone(p)
           k == OwnKing(p)
           e == Other(p.stm)
<1>1. /\ p \in Position /\ e \in Color /\ Occ(p) \subseteq Square /\ k \in Us(p, p.stm)
      /\ Us(p, p.stm) \cap Us(p, e) = {}
      /\ \A types : Pieces(p, types, e) \subseteq Us(p, e)
  BY Sides
<1>2. q.board = [s \in Occ(p) \ {k} |-> p.board[s]]
  BY <1>1 DEF Lone, Restrict, Position
<1> HIDE DEF q, k, e
<1>3. Occ(q) = Occ(p) \ {k}
  BY <1>2 DEF Occ
<1>4. ASSUME NEW types PROVE Pieces(q, types, e) = Pieces(p, types, e)
  <2>1. \A s : s \in Pieces(q, types, e) <=> s \in Pieces(p, types, e) /\ s # k
    BY <1>2, <1>3 DEF Pieces
  <2>2. k \notin Pieces(p, types, e)
    BY <1>1
  <2> QED BY <2>1, <2>2
<1>5. \A a : Aims(q, e, a, t) <=> Aims(p, e, a, t)
  BY <1>4 DEF Aims
<1>6. IsAttacked(q, t, e) <=> \E a \in Square : Hits(q, e, a, t)
  BY <1>1, <1>3, AttackedHit
<1> QED BY <1>3, <1>4, <1>5, <1>6, HitsBy DEF q, k, e

\* The king's square is hit exactly when it is in check.
LEMMA LoneHome ==
  ASSUME NEW p, Sound(p)
  PROVE  IsAttacked(Lone(p), OwnKing(p), Other(p.stm)) <=> Check(p).checks # 0
<1> DEFINE k == OwnKing(p)
           e == Other(p.stm)
<1>1. /\ p \in Position /\ OneKing(p) /\ e \in Color /\ k \in Square /\ Occ(p) \subseteq Square
      /\ \A types : Pieces(p, types, e) \subseteq Square
      /\ Pieces(p, {"k"}, e) = {KingSq(p, e)}
  BY Sides DEF OneKing
<1>2. \A a : a \in Pieces(p, {"k"}, e) => ~KingStep(a, k)
  BY <1>1, KingsApart
<1>3. \A a \in Square : ~Amid(k, k, a)
  BY <1>1, AmidFacts
<1>4. \A a \in Square : Clear(k, a, Occ(p) \ {k}) <=> Clear(k, a, Occ(p))
  BY <1>3 DEF Clear
<1>5. ASSUME NEW a \in Square
      PROVE  a \in Checks(p) <=>
             \/ a \in Pieces(p, {"p"}, e) /\ PawnStep(e, a, k)
             \/ a \in Pieces(p, {"n"}, e) /\ KnightStep(a, k)
             \/ Aims(p, e, a, k) /\ Clear(k, a, Occ(p))
  BY <1>1, ChecksAre DEF Checks, Aims
<1>6. Checks(p) \subseteq Square
  BY ChecksApart
<1>7. Check(p).checks = 0 <=> Checks(p) = {}
  BY CountIs
<1> HIDE DEF k, e
<1> QED BY <1>1, <1>2, <1>4, <1>5, <1>6, <1>7, LoneHit DEF k, e

\* The rule, by its parts.
LEMMA MayIs ==
  ASSUME NEW p, NEW side,
         NEW rook, rook = SquareAt(p.cr[<<p.stm, side>>], RankOf(OwnKing(p)))
  PROVE  MayCastle(p, <<p.stm, side>>) <=>
           /\ p.cr[<<p.stm, side>>] # NoFile
           /\ (Span(OwnKing(p), KingTo(side, p.stm)) \cup Span(rook, RookTo(side, p.stm))) \cap Occ(p)
                \subseteq {OwnKing(p), rook}
           /\ \A s \in Span(OwnKing(p), KingTo(side, p.stm)) : ~IsAttacked(Lone(p), s, Other(p.stm))
           /\ Safe(p, Move(OwnKing(p), rook, "castling", "n"))
BY DEF MayCastle, Span, Lone, OwnKing

\* Castling that is generated is castling of the rules.
LEMMA CastlesMay ==
  ASSUME NEW p, Sound(p), NEW m, CastlingMove(p, m)
  PROVE  \E right \in Right : /\ MayCastle(p, right)
                              /\ m = Move(OwnKing(p), SquareAt(p.cr[right], RankOf(OwnKing(p))), "castling", "n")
<1> DEFINE k == OwnKing(p)
           c == p.stm
           e == Other(p.stm)
<1>1. PICK side \in Side : Castles(p, m, side)
  BY CastlingIs
<1> DEFINE kt == KingTo(side, c)
           rt == RookTo(side, c)
           r == m.to
<1>2. /\ m.kind = "castling" /\ m.from = k /\ m.promo = "n"
      /\ r \in Square /\ RankOf(r) = RankOf(k) /\ p.cr[<<c, side>>] = FileOf(r)
      /\ kt \in Square /\ rt \in Square /\ RankOf(kt) = RankOf(k) /\ RankOf(rt) = RankOf(k)
      /\ \A u \in Occ(p) : u # k /\ u # r => u # kt /\ u # rt /\ ~Amid(k, u, kt) /\ ~Amid(r, u, rt)
  BY <1>1 DEF Castles, Exchanges
<1>3. Between[k][kt] \cap Seen(p) = {} /\ Check(p).checks = 0
  BY <1>1 DEF Castles
<1>4. k \in Square /\ Occ(p) \subseteq Square /\ c \in Color
  BY Sides
<1>5. r = SquareAt(p.cr[<<c, side>>], RankOf(k))
  <2>1. r = FileOf(r) + 8 * RankOf(r)
    BY <1>2, Coordinates
  <2> HIDE DEF r, k, c
  <2> QED BY <1>2, <2>1 DEF SquareAt
<1>6. m = Move(k, r, "castling", "n")
  BY <1>5 DEF CastlingMove, Move
<1>7. KingAttacks[k] \cap (Square \ Us(p, c)) # {} \/ p.frc
  BY <1>1, NoShortcut
<1>8. Safe(p, m)
  BY <1>1, CastleSafe
<1> HIDE DEF k, kt, rt, r
<1>9. (Span(k, kt) \cup Span(r, rt)) \cap Occ(p) \subseteq {k, r}
  BY <1>2, <1>4, SpanIs
<1>10. ASSUME NEW s \in Span(k, kt) PROVE ~IsAttacked(Lone(p), s, e)
  <2>1. CASE s = k
    BY <1>3, <2>1, LoneHome DEF k
  <2>2. CASE s # k
    <3>1. s \in Square /\ s \in Between[k][kt]
      BY <1>2, <1>4, <1>10, <2>2, SpanIs, BetweenIs
    <3>2. s \notin Seen(p)
      BY <1>3, <3>1
    <3> QED BY <1>7, <3>1, <3>2, SeenIs, LoneHit DEF k, e, c
  <2> QED BY <2>1, <2>2
<1>11. p.cr[<<c, side>>] # NoFile
  BY <1>2, Coordinates DEF NoFile
<1>12. MayCastle(p, <<c, side>>)
  BY <1>5, <1>6, <1>8, <1>9, <1>10, <1>11, MayIs DEF k, kt, rt, e, c
<1>13. <<c, side>> \in Right
  BY <1>4 DEF Right
<1> QED BY <1>5, <1>6, <1>12, <1>13 DEF k

\* What castling by the rules finds on the board.
LEMMA MayExchange ==
  ASSUME NEW p, Sound(p), NEW side \in Side, MayCastle(p, <<p.stm, side>>),
         NEW rook, rook = SquareAt(p.cr[<<p.stm, side>>], RankOf(OwnKing(p))),
         NEW m, m = Move(OwnKing(p), rook, "castling", "n")
  PROVE  /\ Exchanges(p, m, side) /\ m.to = rook /\ Safe(p, m) /\ p.cr[<<p.stm, side>>] # NoFile
         /\ BackRank(OwnKing(p), p.stm)
         /\ \A s \in Span(OwnKing(p), KingTo(side, p.stm)) : ~IsAttacked(Lone(p), s, Other(p.stm))
         /\ p.path[<<p.stm, side>>] =
              (Between[rook][RookTo(side, p.stm)] \cup Between[OwnKing(p)][KingTo(side, p.stm)]) \ {OwnKing(p), rook}
<1> DEFINE k == OwnKing(p)
           c == p.stm
           kt == KingTo(side, c)
           rt == RookTo(side, c)
           right == <<p.stm, side>>
<1>1. right \in Right /\ right[1] = c /\ right[2] = side /\ c \in Color /\ k \in Square /\ Occ(p) \subseteq Square
  BY Sides DEF Right
<1>2. /\ p.cr[right] # NoFile
      /\ (Span(k, kt) \cup Span(rook, rt)) \cap Occ(p) \subseteq {k, rook}
      /\ \A s \in Span(k, kt) : ~IsAttacked(Lone(p), s, Other(p.stm))
      /\ Safe(p, m)
  BY MayIs
<1>3. RightHeld(p, right)
  BY <1>1, <1>2 DEF Sound, RightsHeld
<1>4. /\ BackRank(k, c) /\ rook \in Pieces(p, {"r"}, c) /\ (rook > k <=> side = "king")
      /\ p.path[right] = PathOf(p, right)
  BY <1>1, <1>3 DEF RightHeld, OwnKing
<1>5. rook \in Square /\ rook # k
  <2>1. k \notin Pieces(p, {"r"}, c)
    BY <1>1, Sides, KingStands DEF OwnKing
  <2> QED BY <1>4, <2>1, Sides
<1>6. p.cr[right] \in 0..7 /\ FileOf(rook) = p.cr[right] /\ RankOf(rook) = RankOf(k)
  <2>1. p.cr \in [Right -> File \cup {NoFile}]
    BY Sides DEF Position
  <2>2. p.cr[right] \in 0..7
    BY <1>1, <1>2, <2>1 DEF File
  <2> HIDE DEF right, k
  <2> QED BY <1>1, <2>2, SquareOf, Coordinates DEF right, k
<1>7. kt \in Square /\ rt \in Square /\ RankOf(kt) = RankOf(k) /\ RankOf(rt) = RankOf(k)
      /\ RankOf(k) = RelRank(0, c)
      /\ FileOf(kt) = (IF side = "king" THEN 6 ELSE 2) /\ FileOf(rt) = IF side = "king" THEN 5 ELSE 3
  BY <1>1, <1>4, HomeSquares DEF BackRank
<1>8. m.kind = "castling" /\ m.from = k /\ m.to = rook /\ m.promo = "n"
  BY DEF Move
<1>9. CastledTo(m) = side
  BY <1>4, <1>8 DEF CastledTo, KingSideIf, Side
<1>10. p.path[right] = (Between[rook][rt] \cup Between[k][kt]) \ {k, rook}
  BY <1>1, <1>4 DEF PathOf, OwnKing
<1> HIDE DEF k, kt, rt, right
<1>11. ASSUME NEW u \in Occ(p), u # k, u # rook
       PROVE  u # kt /\ u # rt /\ ~Amid(k, u, kt) /\ ~Amid(rook, u, rt)
  BY <1>1, <1>2, <1>5, <1>6, <1>7, <1>11, SpanIs
<1>12. IF side = "king" THEN FileOf(rook) > FileOf(k) ELSE FileOf(rook) < FileOf(k)
  <2>1. rook = FileOf(rook) + 8 * RankOf(rook) /\ k = FileOf(k) + 8 * RankOf(k)
        /\ FileOf(rook) \in 0..7 /\ FileOf(k) \in 0..7 /\ RankOf(k) \in 0..7
    BY <1>1, <1>5, Coordinates
  <2> QED BY <1>4, <1>5, <1>6, <2>1
<1>13. Exchanges(p, m, side)
  BY <1>4, <1>5, <1>6, <1>7, <1>8, <1>9, <1>11, <1>12 DEF Exchanges, k, kt, rt, right
<1> QED BY <1>2, <1>4, <1>8, <1>10, <1>13 DEF k, kt, rt, right

\* The slider a rook is pinned by sees the castled king.
LEMMA BehindRook ==
  ASSUME NEW k \in Square, NEW r \in Square, NEW a \in Square, NEW kt \in Square, NEW side \in Side,
         RankOf(r) = RankOf(k), RankOf(kt) = RankOf(k), FileOf(kt) = (IF side = "king" THEN 6 ELSE 2),
         IF side = "king" THEN FileOf(r) > FileOf(k) ELSE FileOf(r) < FileOf(k),
         Orth(k, a), Amid(k, r, a), a # kt, ~Amid(k, a, kt)
  PROVE  /\ Orth(kt, a) /\ RankOf(a) = RankOf(k)
         /\ \A u \in Square : Amid(kt, u, a) => FileOf(u) = 1 /\ Amid(k, u, a)
<1>1. /\ FileOf(k) \in 0..7 /\ FileOf(r) \in 0..7 /\ FileOf(a) \in 0..7 /\ FileOf(kt) \in 0..7
      /\ RankOf(k) \in 0..7 /\ RankOf(r) \in 0..7 /\ RankOf(a) \in 0..7 /\ RankOf(kt) \in 0..7
  BY Coordinates
<1>2. RankOf(a) = RankOf(k) /\ Up(FileOf(k), FileOf(r), FileOf(a))
  BY <1>1, SMTT(60) DEF Amid, Up, Orth
<1>3. FileOf(a) # FileOf(kt)
  BY <1>2, SameSquare
<1>4. ~Up(FileOf(k), FileOf(a), FileOf(kt))
  BY <1>2 DEF Amid
<1>5. Orth(kt, a)
  BY <1>2, <1>3 DEF Orth
<1>6. \/ FileOf(kt) = 6 /\ FileOf(a) = 7
      \/ FileOf(kt) = 2 /\ FileOf(a) \in 0..1 /\ FileOf(k) > 1
  BY <1>1, <1>2, <1>3, <1>4 DEF Up, Side
<1>7. ASSUME NEW u \in Square, Amid(kt, u, a) PROVE FileOf(u) = 1 /\ Amid(k, u, a)
  <2>1. FileOf(u) \in 0..7 /\ RankOf(u) \in 0..7
    BY Coordinates
  <2>2. RankOf(u) = RankOf(k) /\ Up(FileOf(kt), FileOf(u), FileOf(a))
    BY <1>1, <1>2, <1>3, <1>7, <2>1, SMTT(60) DEF Amid, Up
  <2>3. FileOf(u) = 1 /\ Up(FileOf(k), FileOf(u), FileOf(a))
    BY <1>1, <1>6, <2>1, <2>2 DEF Up
  <2> QED BY <1>2, <2>2, <2>3 DEF Amid
<1> QED BY <1>2, <1>5, <1>7

\* A rook that castles safely is not pinned, which Fischer random asks.
LEMMA RookFree ==
  ASSUME NEW p, Sound(p), NEW m, NEW side \in Side, Exchanges(p, m, side), Safe(p, m)
  PROVE  m.to \notin LinePins(p)
<1> DEFINE q == MakeMove(p, m)
           k == OwnKing(p)
           c == p.stm
           e == Other(p.stm)
           r == m.to
           kt == KingTo(side, c)
           rt == RookTo(side, c)
<1>1. /\ q.stm = e
      /\ \A u : u \in Occ(q) <=> (u \in Occ(p) /\ u # k /\ u # r) \/ u = kt \/ u = rt
      /\ \A types : Pieces(q, types, e) = Pieces(p, types, e)
      /\ \A s : s \in Pieces(q, {"k"}, c) <=> (s \in Pieces(p, {"k"}, c) /\ s # k /\ s # r) \/ s = kt
  <2>1. AfterCastling(p, m, q, kt, rt)
    BY MadeCastle
  <2> HIDE DEF q, kt, rt
  <2> QED BY <2>1 DEF AfterCastling
<1>2. /\ k \in Square /\ Pieces(p, {"k"}, c) = {k} /\ Occ(p) \subseteq Square /\ k \in Us(p, c)
      /\ Us(p, e) \subseteq Occ(p) /\ Us(p, c) \cap Us(p, e) = {}
      /\ \A types : Pieces(p, types, e) \subseteq Us(p, e) /\ Pieces(p, types, c) \subseteq Us(p, c)
  <2>1. Pieces(p, {"k"}, c) = {k}
    BY Sides DEF OneKing, OwnKing
  <2> QED BY <2>1, Sides
<1>3. /\ r \in Square /\ r \in Pieces(p, {"r"}, c) /\ r # k
      /\ RankOf(r) = RankOf(k) /\ kt \in Square /\ rt \in Square /\ RankOf(kt) = RankOf(k)
      /\ FileOf(kt) = (IF side = "king" THEN 6 ELSE 2)
      /\ FileOf(rt) = (IF side = "king" THEN 5 ELSE 3)
      /\ IF side = "king" THEN FileOf(r) > FileOf(k) ELSE FileOf(r) < FileOf(k)
      /\ \A u \in Occ(p) : u # k /\ u # r => u # kt /\ ~Amid(k, u, kt)
  BY DEF Exchanges
<1> HIDE DEF q, k, c, e, r, kt, rt
<1>4. Pieces(q, {"k"}, c) = {kt} /\ Occ(q) \subseteq Square
  BY <1>1, <1>2, <1>3
<1>5. \A a \in Square : ~Hits(q, e, a, kt)
  BY <1>1, <1>3, <1>4, SafeBack DEF q, c, e
<1>6. SUFFICES ASSUME r \in LinePins(p) PROVE FALSE
  BY DEF r
<1>7. r \in Us(p, c)
  BY <1>2, <1>3
<1>8. PICK a \in Square : Aims(p, e, a, k) /\ Orth(k, a) /\ Amid(k, r, a) /\ Clear(k, a, Occ(p) \ {r})
  BY <1>6, <1>7, PinnedBy DEF k, c, e
<1>9. a \in Occ(p) /\ a # k /\ a # r /\ a # kt /\ ~Amid(k, a, kt)
  <2>1. a \in Us(p, e)
    BY <1>2, <1>8 DEF Aims
  <2> QED BY <1>2, <1>3, <1>7, <2>1
<1>10. Orth(kt, a) /\ \A u \in Square : Amid(kt, u, a) => FileOf(u) = 1 /\ Amid(k, u, a)
  BY <1>2, <1>3, <1>8, <1>9, BehindRook
<1>11. Aims(q, e, a, kt)
  <2>1. ~Diag(k, a)
    BY <1>2, <1>8, LinesDiffer
  <2> QED BY <1>1, <1>8, <1>10, <2>1 DEF Aims
<1>12. Clear(kt, a, Occ(q))
  <2>1. SUFFICES ASSUME NEW u \in Occ(q), u \in Square, Amid(kt, u, a) PROVE FALSE
    BY DEF Clear
  <2>2. FileOf(u) = 1 /\ Amid(k, u, a)
    BY <1>10, <2>1
  <2>3. u # kt /\ u # rt
    BY <1>3, <2>2
  <2>4. u \in Occ(p) /\ u # r
    BY <1>1, <2>1, <2>3
  <2> QED BY <1>8, <2>1, <2>2, <2>4 DEF Clear
<1> QED BY <1>5, <1>8, <1>11, <1>12, HitsBy

\* Castling of the rules is generated.
LEMMA MayCastles ==
  ASSUME NEW p, Sound(p), NEW side \in Side, MayCastle(p, <<p.stm, side>>),
         NEW rook, rook = SquareAt(p.cr[<<p.stm, side>>], RankOf(OwnKing(p)))
  PROVE  CastlingMove(p, Move(OwnKing(p), rook, "castling", "n"))
<1> DEFINE m == Move(OwnKing(p), rook, "castling", "n")
           k == OwnKing(p)
           c == p.stm
           e == Other(p.stm)
           kt == KingTo(side, c)
           rt == RookTo(side, c)
           right == <<p.stm, side>>
<1>1. /\ Exchanges(p, m, side) /\ m.to = rook /\ Safe(p, m) /\ p.cr[right] # NoFile /\ BackRank(k, c)
      /\ \A s \in Span(k, kt) : ~IsAttacked(Lone(p), s, e)
      /\ p.path[right] = (Between[rook][rt] \cup Between[k][kt]) \ {k, rook}
  BY MayExchange
<1>2. /\ rook \in Square /\ RankOf(rook) = RankOf(k)
      /\ kt \in Square /\ rt \in Square /\ RankOf(kt) = RankOf(k) /\ RankOf(rt) = RankOf(k)
      /\ \A u \in Occ(p) : u # k /\ u # rook => /\ u # kt /\ u # rt
                                                /\ ~Amid(k, u, kt) /\ ~Amid(rook, u, rt)
  BY <1>1 DEF Exchanges
<1>3. k \in Square /\ Occ(p) \subseteq Square
  BY Sides
<1>4. rook \notin LinePins(p)
  BY <1>1, RookFree
<1>5. rook = SquareAt(p.cr[right], RankOf(k))
  OBVIOUS
<1>6. m = Move(k, rook, "castling", "n")
  OBVIOUS
<1> HIDE DEF m, k, kt, rt, right
<1>7. Occ(p) \cap p.path[right] = {}
  BY <1>1, <1>2, <1>3, BetweenIs
<1>8. Between[k][kt] \cap Seen(p) = {}
  <2>1. SUFFICES ASSUME NEW s \in Between[k][kt], s \in Seen(p) PROVE FALSE
    OBVIOUS
  <2>2. s \in Square /\ s \in Span(k, kt)
    BY <1>2, <1>3, <2>1, BetweenIs, SpanIs
  <2>3. IsAttacked(Lone(p), s, e)
    BY <2>1, <2>2, SeenBy, LoneHit
  <2> QED BY <1>1, <2>2, <2>3
<1>9. Check(p).checks = 0
  <2>1. k \in Span(k, kt)
    BY <1>2, <1>3, SpanIs
  <2>2. ~IsAttacked(Lone(p), k, e)
    BY <1>1, <2>1
  <2> QED BY <2>2, LoneHome DEF k
<1>10. rook \in CastleMoves(p, c, Seen(p), LinePins(p))
  <2> DEFINE at(x) == SquareAt(p.cr[<<c, x>>], RankOf(k))
             open(x) == /\ BackRank(k, c) /\ p.cr[<<c, x>>] # NoFile
                        /\ Occ(p) \cap p.path[<<c, x>>] = {}
                        /\ Between[k][KingTo(x, c)] \cap Seen(p) = {}
                        /\ ~(p.frc /\ at(x) \in LinePins(p) \cap Us(p, c))
  <2>1. CastleMoves(p, c, Seen(p), LinePins(p)) = {at(x) : x \in {x \in Side : open(x)}}
    BY DEF CastleMoves, OwnKing, k
  <2>2. rook = at(side)
    BY <1>5 DEF right
  <2>3. open(side)
    BY <1>1, <1>4, <1>7, <1>8, <2>2 DEF right, kt
  <2> HIDE DEF at, open
  <2> QED BY <2>1, <2>2, <2>3
<1> QED BY <1>6, <1>9, <1>10 DEF CastlingMove, m, k

\* The moves that are generated are the moves of the rules.
LEMMA RulesExact ==
  ASSUME NEW p, Sound(p)
  PROVE  LegalMoves(p) = Rules(p)
<1> DEFINE k == OwnKing(p)
           castling(right) == Move(k, SquareAt(p.cr[right], RankOf(k)), "castling", "n")
           may == {right \in Right : MayCastle(p, right)}
           safe == {m \in Pseudo(p) : Safe(p, m)}
<1>1. Rules(p) = safe \cup {castling(right) : right \in may}
  BY DEF Rules, OwnKing
<1>2. ASSUME NEW m \in LegalMoves(p) PROVE m \in Rules(p)
  <2>1. (m \in Pseudo(p) /\ Safe(p, m)) \/ CastlingMove(p, m)
    BY OrdinaryExact
  <2>2. CASE CastlingMove(p, m)
    <3>1. PICK right \in Right : MayCastle(p, right) /\ m = castling(right)
      BY <2>2, CastlesMay
    <3>2. right \in may
      BY <3>1
    <3> HIDE DEF may, castling
    <3> QED BY <1>1, <3>1, <3>2
  <2>3. CASE m \in Pseudo(p) /\ Safe(p, m)
    <3> HIDE DEF may, castling
    <3> QED BY <1>1, <2>3
  <2> QED BY <2>1, <2>2, <2>3
<1>3. ASSUME NEW m \in Rules(p) PROVE m \in LegalMoves(p)
  <2>1. m \in safe \/ \E right \in may : m = castling(right)
    <3> HIDE DEF safe, may, castling
    <3> QED BY <1>1, <1>3
  <2>2. CASE m \in safe
    BY <2>2, OrdinaryExact
  <2>3. ASSUME NEW right \in may, m = castling(right) PROVE m \in LegalMoves(p)
    <3>1. right \in Right /\ MayCastle(p, right)
      BY <2>3
    <3>2. right[1] = p.stm
      BY <3>1 DEF MayCastle
    <3>3. right = <<p.stm, right[2]>> /\ right[2] \in Side
      BY <3>1, <3>2 DEF Right
    <3>4. PICK side \in Side : right = <<p.stm, side>>
      BY <3>3
    <3>5. CastlingMove(p, m)
      BY <2>3, <3>1, <3>4, MayCastles
    <3> QED BY <3>5, LegalBack
  <2> QED BY <2>1, <2>2, <2>3
<1> QED BY <1>2, <1>3

\* legalmoves, with its masks, its pins and its shortcuts, gives the moves of the
\* rules, all of them and no other, in every position of a game: for a move of a
\* piece that leaves the king safe there is no mask that hides it, and castling is
\* allowed when no square of the king's way is attacked.
THEOREM MovesAlwaysExact ==
  ASSUME StartsExplained
  PROVE  Spec => []LegalExact
<1>1. Played => LegalExact
  BY RulesExact DEF Played, LegalExact
<1> QED BY <1>1, AlwaysPlayed, PTL

----------------------------------------
(* Checks to come *)

\* A piece of this type and color on t hits x when occ is occupied (kings
\* aside).
Strikes(type, c, t, x, occ) ==
  \/ type = "p" /\ PawnStep(c, t, x)
  \/ type = "n" /\ KnightStep(t, x)
  \/ type \in {"b", "q"} /\ Diag(x, t) /\ Clear(x, t, occ)
  \/ type \in {"r", "q"} /\ Orth(x, t) /\ Clear(x, t, occ)

\* The sliders that would see the other king if s were left.
Behind(p, s) == Snipers(p, OtherKing(p), Occ(p) \ {s}, p.stm)

\* The sliders that see a king over given occupied squares.
LEMMA SniperIs ==
  ASSUME NEW p, NEW x \in Square, NEW occ, NEW c, \A types : Pieces(p, types, c) \subseteq Square, NEW a
  PROVE  a \in Snipers(p, x, occ, c) <=> a \in Square /\ Aims(p, c, a, x) /\ Clear(x, a, occ)
<1>1. a \in BishopAttacks(x, occ) <=> a \in Square /\ Diag(x, a) /\ Clear(x, a, occ)
  BY BishopSees
<1>2. a \in RookAttacks(x, occ) <=> a \in Square /\ Orth(x, a) /\ Clear(x, a, occ)
  BY RookSees
<1> QED BY <1>1, <1>2 DEF Snipers, Aims

\* A slider behind a piece is the only one, and sees the king once the piece leaves.
LEMMA BehindIs ==
  ASSUME NEW p, Sound(p), NEW s \in Us(p, p.stm), NEW a \in Behind(p, s)
  PROVE  /\ a \in Square /\ a \in Us(p, p.stm) /\ a # s /\ Behind(p, s) = {a}
         /\ Aims(p, p.stm, a, OtherKing(p)) /\ Clear(OtherKing(p), a, Occ(p) \ {s})
         /\ Amid(OtherKing(p), s, a)
<1> DEFINE x == OtherKing(p)
           c == p.stm
<1>1. x \in Square /\ s \in Square /\ Occ(p) \subseteq Square /\ Us(p, c) \subseteq Occ(p)
      /\ \A types : Pieces(p, types, c) \subseteq Square /\ Pieces(p, types, c) \subseteq Us(p, c)
  BY Sides DEF OtherKing
<1>2. \A b \in Square : ~Hits(p, c, b, x)
  BY DEF Sound, Calm, OtherKing
<1> HIDE DEF x, c
<1>3. ASSUME NEW b \in Behind(p, s)
      PROVE  /\ b \in Square /\ b \in Us(p, c) /\ b # s /\ Aims(p, c, b, x) /\ Clear(x, b, Occ(p) \ {s})
             /\ Amid(x, s, b)
  <2>1. b \in Square /\ Aims(p, c, b, x) /\ Clear(x, b, Occ(p) \ {s})
    BY <1>1, <1>3, SniperIs DEF Behind, x, c
  <2>2. b \in Us(p, c)
    BY <1>1, <2>1 DEF Aims
  <2>3. ~Clear(x, b, Occ(p))
    BY <1>2, <2>1, HitsBy
  <2>4. Amid(x, s, b)
    BY <2>1, <2>3 DEF Clear
  <2>5. b # s
    BY <1>1, <2>1, <2>4, AmidFacts
  <2> QED BY <2>1, <2>2, <2>4, <2>5
<1>4. ASSUME NEW b \in Behind(p, s) PROVE b = a
  <2>1. Amid(x, s, a) /\ Amid(x, s, b) /\ a \in Square /\ b \in Square /\ a \in Occ(p) /\ b \in Occ(p)
        /\ a # s /\ b # s /\ Clear(x, a, Occ(p) \ {s}) /\ Clear(x, b, Occ(p) \ {s})
    BY <1>1, <1>3
  <2>2. ~Amid(x, a, b) /\ ~Amid(x, b, a)
    BY <2>1 DEF Clear
  <2> QED BY <1>1, <2>1, <2>2, TwoBehind
<1>5. Behind(p, s) = {a}
  BY <1>4
<1> QED BY <1>3, <1>5 DEF x, c

\* givesCheck in these terms.
Shows(p, m) ==
  LET c == p.stm
      x == OtherKing(p)
      occ == Occ(p) \ {m.from}
  IN \/ m.kind = "promotion" /\ Strikes(m.promo, c, m.to, x, occ)
     \/ m.kind = "enpassant" /\ Snipers(p, x, (occ \ {EpSquare(m.to)}) \cup {m.to}, c) # {}
     \/ m.kind = "castling" /\ RookTo(CastledTo(m), c) \in RookAttacks(x, Occ(p))

\* givesCheck by its three parts: the moved piece, what is behind it, what is special.
LEMMA GivesIs ==
  ASSUME NEW p, Sound(p), NEW m, m.from \in Us(p, p.stm), m.to \in Square,
         m.kind = "promotion" => m.promo \in {"q", "r", "b", "n"}
  PROVE  LET strikes == Strikes(TypeOf(p.board[m.from]), p.stm, m.to, OtherKing(p), Occ(p))
         IN GivesCheck(p, m) <=>
              \/ strikes
              \/ /\ Behind(p, m.from) # {}
                 /\ m.kind = "castling"
                    \/ \E a \in Behind(p, m.from) : m.to # a /\ ~Amid(OtherKing(p), m.to, a)
              \/ Behind(p, m.from) = {} /\ Shows(p, m)
<1> DEFINE c == p.stm
           x == OtherKing(p)
           type == TypeOf(p.board[m.from])
           occ == Occ(p) \ {m.from}
           t == m.to
           snipers == Snipers(p, x, occ, c)
           Sees(u, s, o) ==
             CASE u = "p" -> PawnAttacks[Other(c)][s] [] u = "n" -> KnightAttacks[s]
               [] u = "b" -> BishopAttacks(s, o) [] u = "r" -> RookAttacks(s, o)
               [] u = "q" -> QueenAttacks(s, o) [] OTHER -> {}
           sees == t \in Sees(type, x, Occ(p))
           shows == \/ m.kind = "promotion" /\ x \in Sees(m.promo, t, occ)
                    \/ m.kind = "enpassant" /\ Snipers(p, x, (occ \ {EpSquare(m.to)}) \cup {m.to}, c) # {}
                    \/ m.kind = "castling" /\ RookTo(CastledTo(m), c) \in RookAttacks(x, Occ(p))
<1>1. x \in Square /\ c \in Color /\ Other(c) \in Color /\ Other(Other(c)) = c
  BY Sides DEF OtherKing
<1>2. GivesCheck(p, m) <=>
        CASE sees -> TRUE
          [] ~sees /\ snipers # {} -> m.kind = "castling" \/ t \notin Between[x][Min(snipers)]
          [] OTHER -> shows
  BY DEF GivesCheck, OtherKing
<1>3. sees <=> Strikes(type, c, t, x, Occ(p))
  <2>1. /\ t \in PawnAttacks[Other(c)][x] <=> PawnStep(c, t, x)
        /\ t \in KnightAttacks[x] <=> KnightStep(t, x)
        /\ t \in BishopAttacks(x, Occ(p)) <=> Diag(x, t) /\ Clear(x, t, Occ(p))
        /\ t \in RookAttacks(x, Occ(p)) <=> Orth(x, t) /\ Clear(x, t, Occ(p))
    BY <1>1, PawnSees, KnightSees, BishopSees, RookSees, StepsBack
  <2>2. t \in QueenAttacks(x, Occ(p)) <=> t \in BishopAttacks(x, Occ(p)) \/ t \in RookAttacks(x, Occ(p))
    BY DEF QueenAttacks
  <2>3. Sees(type, x, Occ(p)) =
          CASE type = "p" -> PawnAttacks[Other(c)][x] [] type = "n" -> KnightAttacks[x]
            [] type = "b" -> BishopAttacks(x, Occ(p)) [] type = "r" -> RookAttacks(x, Occ(p))
            [] type = "q" -> QueenAttacks(x, Occ(p)) [] OTHER -> {}
    OBVIOUS
  <2> HIDE DEF Sees, x, c, t, type
  <2> QED BY <2>1, <2>2, <2>3 DEF Strikes
<1>4. shows <=> Shows(p, m)
  <2> SUFFICES ASSUME m.kind = "promotion" PROVE x \in Sees(m.promo, t, occ) <=> Strikes(m.promo, c, t, x, occ)
    BY Zenon DEF Shows
  <2>1. /\ x \in KnightAttacks[t] <=> KnightStep(t, x)
        /\ x \in BishopAttacks(t, occ) <=> Diag(x, t) /\ Clear(x, t, occ)
        /\ x \in RookAttacks(t, occ) <=> Orth(x, t) /\ Clear(x, t, occ)
    BY <1>1, KnightSees, BishopSees, RookSees, StepsBack, ClearBack
  <2>2. x \in QueenAttacks(t, occ) <=> x \in BishopAttacks(t, occ) \/ x \in RookAttacks(t, occ)
    BY DEF QueenAttacks
  <2>3. Sees(m.promo, t, occ) =
          CASE m.promo = "p" -> PawnAttacks[Other(c)][t] [] m.promo = "n" -> KnightAttacks[t]
            [] m.promo = "b" -> BishopAttacks(t, occ) [] m.promo = "r" -> RookAttacks(t, occ)
            [] m.promo = "q" -> QueenAttacks(t, occ) [] OTHER -> {}
    OBVIOUS
  <2>4. m.promo \in {"q", "r", "b", "n"}
    OBVIOUS
  <2> HIDE DEF Sees, x, c, t, occ
  <2> QED BY <2>1, <2>2, <2>3, <2>4 DEF Strikes
<1>5. snipers = Behind(p, m.from)
  BY DEF Behind
<1>6. ASSUME NEW a \in Behind(p, m.from)
      PROVE  t \in Between[x][Min(snipers)] <=> t = a \/ Amid(x, t, a)
  <2>1. a \in Square /\ snipers = {a}
    BY <1>5, BehindIs
  <2> HIDE DEF snipers, x
  <2>2. Min(snipers) = a
    BY <2>1, SmallestOne
  <2> QED BY <1>1, <2>1, <2>2, BetweenIs
<1>7. snipers # {} => \A a \in Behind(p, m.from) : Behind(p, m.from) = {a}
  BY BehindIs
<1> HIDE DEF sees, shows, snipers, x, c, t, type, occ
<1>8. CASE sees
  BY <1>2, <1>3, <1>8 DEF x, c, t, type
<1>9. CASE ~sees /\ snipers # {}
  <2>1. PICK a \in Behind(p, m.from) : TRUE
    BY <1>5, <1>9
  <2>2. GivesCheck(p, m) <=> m.kind = "castling" \/ ~(t = a \/ Amid(x, t, a))
    BY <1>2, <1>6, <1>9, <2>1
  <2>3. Behind(p, m.from) = {a}
    BY <2>1, <1>7, <1>9
  <2> QED BY <1>3, <1>9, <2>2, <2>3 DEF x, c, t, type
<1>10. CASE ~sees /\ snipers = {}
  <2>1. GivesCheck(p, m) <=> shows
    BY <1>2, <1>10
  <2> QED BY <1>3, <1>4, <1>5, <1>10, <2>1 DEF x, c, t, type
<1> QED BY <1>8, <1>9, <1>10

\* Who checks after a move: the piece that moved, or a slider that stayed.
LEMMA CheckMade ==
  ASSUME NEW p, Sound(p), NEW m \in LegalMoves(p), Travels(p, m)
  PROVE  LET q == MakeMove(p, m)
             x == OtherKing(p)
             c == p.stm
         IN InCheck(q) <=>
              \/ Strikes(TypeOf(Became(p, m)), c, m.to, x, Occ(q))
              \/ \E a \in Square : /\ Aims(p, c, a, x) /\ a # m.from /\ a # m.to /\ Clear(x, a, Occ(q))
                                   /\ \E g \in Gone(m) : g \in Square /\ Amid(x, g, a)
<1> DEFINE q == MakeMove(p, m)
           x == OtherKing(p)
           c == p.stm
           t == m.to
           type == TypeOf(Became(p, m))
<1>1. Sound(q) /\ q \in Position /\ Occ(q) \subseteq Square
  <2> HIDE DEF q
  <2> QED BY MoveSound, Sides DEF q
<1>2. /\ p \in Position /\ c \in Color /\ x \in Square /\ t \in Square /\ Ordinary(p, m) /\ t \notin Us(p, c)
      /\ \A types : Pieces(p, types, c) \subseteq Square /\ Pieces(p, types, c) \subseteq Us(p, c)
  BY Sides DEF Travels, Ordinary, OtherKing
<1>3. PICK k \in Square : Pieces(q, {"k"}, c) = {k}
  BY LegalSafe
<1>4. q.stm = Other(c) /\ Other(q.stm) = c /\ OwnKing(q) = x /\ KingSq(q, c) = k
  <2> HIDE DEF q
  <2> QED BY <1>2, <1>3, MadeKings, OtherColor DEF q
<1>5. \A types : Pieces(q, types, c) = (Pieces(p, types, c) \ {m.from}) \cup {u \in {t} : type \in types}
  <2>1. p \in Position /\ Ordinary(p, m)
    BY <1>2
  <2> QED BY <2>1, MadePieces
<1>6. type \in Type
  <2>1. Became(p, m) \in Piece
    BY <1>2, PositionTypes DEF Became, Ordinary, Piece, Type, Us
  <2> QED BY <2>1 DEF Piece, TypeOf
<1>7. ~KingStep(k, x)
  <2> HIDE DEF q
  <2>1. ~KingStep(KingSq(q, Other(q.stm)), OwnKing(q))
    BY <1>1, KingsApart
  <2> QED BY <1>4, <2>1
<1>8. \A a \in Square : ~Hits(p, c, a, x)
  BY DEF Sound, Calm, OtherKing
<1>9. ASSUME NEW a \in Square, a # t, Aims(q, c, a, x), Clear(x, a, Occ(q))
      PROVE  Aims(p, c, a, x) /\ \E g \in Gone(m) : g \in Square /\ Amid(x, g, a)
  BY <1>9, Opened
<1> HIDE DEF q, x, c, t, type
<1>10. InCheck(q) <=> \E a \in Square : Hits(q, c, a, x)
  <2>1. c \in Color /\ x \in Square
    BY <1>2
  <2> QED BY <1>1, <1>4, <2>1, AttackedHit DEF InCheck, OwnKing
<1>11. Hits(q, c, t, x) <=> Strikes(type, c, t, x, Occ(q))
  <2>1. \A types : t \in Pieces(q, types, c) <=> type \in types
    BY <1>2, <1>5
  <2>2. t \in Pieces(q, {"k"}, c) => ~KingStep(t, x)
    BY <1>3, <1>7
  <2> QED BY <2>1, <2>2 DEF Hits, Strikes
<1>12. ASSUME NEW a \in Square, a # t
       PROVE  Hits(q, c, a, x) <=>
                /\ Aims(p, c, a, x) /\ a # m.from /\ Clear(x, a, Occ(q))
                /\ \E g \in Gone(m) : g \in Square /\ Amid(x, g, a)
  <2>1. \A types : a \in Pieces(q, types, c) <=> a \in Pieces(p, types, c) /\ a # m.from
    BY <1>5, <1>12
  <2>2. Hits(q, c, a, x) => Aims(q, c, a, x) /\ Clear(x, a, Occ(q))
    <3>1. a \in Pieces(q, {"k"}, c) => ~KingStep(a, x)
      BY <1>3, <1>7
    <3> QED BY <1>8, <2>1, <3>1 DEF Hits, Aims
  <2>3. Aims(q, c, a, x) <=> Aims(p, c, a, x) /\ a # m.from
    BY <2>1 DEF Aims
  <2>4. Aims(q, c, a, x) /\ Clear(x, a, Occ(q)) => Hits(q, c, a, x)
    BY HitsBy
  <2> QED BY <1>9, <1>12, <2>2, <2>3, <2>4
<1>13. t \in Square
  BY <1>2
<1> QED BY <1>10, <1>11, <1>12, <1>13 DEF q, x, c, t, type

\* The piece that moved hits from where it came to as the position before the
\* move shows it.
LEMMA StruckBefore ==
  ASSUME NEW p, Sound(p), NEW m, Travels(p, m), m.kind = "normal"
  PROVE  LET type == TypeOf(p.board[m.from])
         IN Strikes(type, p.stm, m.to, OtherKing(p), Occ(p))
            <=> Strikes(type, p.stm, m.to, OtherKing(p), Occ(MakeMove(p, m)))
<1> DEFINE q == MakeMove(p, m)
           x == OtherKing(p)
           c == p.stm
           s == m.from
           t == m.to
           type == TypeOf(p.board[s])
<1>1. /\ p \in Position /\ x \in Square /\ s \in Square /\ t \in Square /\ s \in Us(p, c) /\ Ordinary(p, m)
      /\ Occ(p) \subseteq Square
  BY Sides DEF Travels, Ordinary, OtherKing
<1>2. Occ(q) = (Occ(p) \ {s}) \cup {t}
  <2>1. Gone(m) = {s}
    BY DEF Gone
  <2>2. Occ(q) = (Occ(p) \ Gone(m)) \cup {m.to}
    BY <1>1, MadeBoard
  <2> HIDE DEF q
  <2> QED BY <2>1, <2>2
<1>3. \A a \in Square : ~Hits(p, c, a, x)
  BY DEF Sound, Calm, OtherKing
<1> HIDE DEF q, x, c, s, t
<1>4. Clear(x, t, Occ(p)) => Clear(x, t, Occ(q))
  BY <1>1, <1>2, AmidFacts DEF Clear
<1>5. ASSUME Clear(x, t, Occ(q)), ~Clear(x, t, Occ(p))
      PROVE  /\ Amid(x, s, t) /\ Clear(x, s, Occ(p))
  <2>1. PICK u \in Occ(p) \cap Square : Amid(x, u, t)
    BY <1>5 DEF Clear
  <2>2. u = s
    BY <1>2, <1>5, <2>1 DEF Clear
  <2>3. Amid(x, s, t)
    BY <2>1, <2>2
  <2>4. ASSUME NEW v \in Occ(p) \cap Square, Amid(x, v, s) PROVE FALSE
    <3>1. Amid(x, v, t) /\ v # s
      BY <1>1, <2>3, <2>4, AmidTrans, AmidFacts
    <3> QED BY <1>2, <1>5, <3>1 DEF Clear
  <2> QED BY <2>3, <2>4 DEF Clear
<1>6. ASSUME type \in {"b", "q"}, Diag(x, t), Clear(x, t, Occ(q)) PROVE Clear(x, t, Occ(p))
  <2>1. SUFFICES ASSUME ~Clear(x, t, Occ(p)) PROVE FALSE
    OBVIOUS
  <2>2. Diag(x, s) /\ Clear(x, s, Occ(p))
    BY <1>1, <1>5, <1>6, <2>1, AmidFacts
  <2>3. s \in Pieces(p, {"b", "q"}, c)
    BY <1>1, <1>6 DEF Pieces, Us
  <2> QED BY <1>1, <1>3, <2>2, <2>3 DEF Hits
<1>7. ASSUME type \in {"r", "q"}, Orth(x, t), Clear(x, t, Occ(q)) PROVE Clear(x, t, Occ(p))
  <2>1. SUFFICES ASSUME ~Clear(x, t, Occ(p)) PROVE FALSE
    OBVIOUS
  <2>2. Orth(x, s) /\ Clear(x, s, Occ(p))
    BY <1>1, <1>5, <1>7, <2>1, AmidFacts
  <2>3. s \in Pieces(p, {"r", "q"}, c)
    BY <1>1, <1>7 DEF Pieces, Us
  <2> QED BY <1>1, <1>3, <2>2, <2>3 DEF Hits
<1>8. Strikes(type, c, t, x, Occ(p)) <=> Strikes(type, c, t, x, Occ(q))
  <2> HIDE DEF type
  <2> QED BY <1>4, <1>6, <1>7 DEF Strikes
<1> QED BY <1>8 DEF q, x, c, s, t

\* A square that is left shows a slider, unless the move closes the line again.
LEMMA LeftOpen ==
  ASSUME NEW p, Sound(p), NEW m, Travels(p, m), m.kind # "enpassant"
  PROVE  LET x == OtherKing(p)
         IN (\E a \in Square : /\ Aims(p, p.stm, a, x) /\ a # m.from /\ a # m.to
                               /\ Clear(x, a, Occ(MakeMove(p, m)))
                               /\ \E g \in Gone(m) : g \in Square /\ Amid(x, g, a))
            <=> \E a \in Behind(p, m.from) : m.to # a /\ ~Amid(x, m.to, a)
<1> DEFINE q == MakeMove(p, m)
           x == OtherKing(p)
           c == p.stm
           s == m.from
           t == m.to
<1>1. /\ p \in Position /\ x \in Square /\ s \in Square /\ t \in Square /\ s \in Us(p, c) /\ t \notin Us(p, c)
      /\ Ordinary(p, m)
      /\ \A types : Pieces(p, types, c) \subseteq Square
  BY Sides DEF Travels, Ordinary, OtherKing
<1>2. Gone(m) = {s}
  BY DEF Gone
<1>3. Occ(q) = (Occ(p) \ {s}) \cup {t}
  <2>1. Occ(q) = (Occ(p) \ Gone(m)) \cup {m.to}
    BY <1>1, MadeBoard
  <2> HIDE DEF q
  <2> QED BY <1>2, <2>1
<1> HIDE DEF q, x, c, s, t
<1>4. \A a \in Square : Clear(x, a, Occ(q)) <=> Clear(x, a, Occ(p) \ {s}) /\ ~Amid(x, t, a)
  BY <1>1, <1>3 DEF Clear
<1>5. \A a : a \in Behind(p, s) <=> a \in Square /\ Aims(p, c, a, x) /\ Clear(x, a, Occ(p) \ {s})
  BY <1>1, SniperIs DEF Behind, x, c
<1>6. ASSUME NEW a \in Behind(p, s) PROVE a # s /\ a # t /\ Amid(x, s, a)
  <2>1. s \in Us(p, p.stm)
    BY <1>1 DEF c
  <2>2. a \in Us(p, p.stm) /\ a # s /\ Amid(OtherKing(p), s, a)
    BY <1>6, <2>1, BehindIs
  <2> QED BY <1>1, <2>2 DEF c, x
<1>7. ASSUME NEW a \in Square
      PROVE  (/\ Aims(p, c, a, x) /\ a # s /\ a # t /\ Clear(x, a, Occ(q))
              /\ \E g \in Gone(m) : g \in Square /\ Amid(x, g, a))
             <=> a \in Behind(p, s) /\ t # a /\ ~Amid(x, t, a)
  BY <1>1, <1>2, <1>4, <1>5, <1>6
<1>8. \A a \in Behind(p, s) : a \in Square
  BY <1>5
<1> QED BY <1>7, <1>8 DEF q, x, c, s, t

\* givesCheck is right about a plain move.
LEMMA NormalShown ==
  ASSUME NEW p, Sound(p), NEW m \in LegalMoves(p), Travels(p, m), m.kind = "normal"
  PROVE  GivesCheck(p, m) <=> InCheck(MakeMove(p, m))
<1> DEFINE x == OtherKing(p)
           type == TypeOf(p.board[m.from])
           q == MakeMove(p, m)
<1>1. m.from \in Us(p, p.stm) /\ m.to \in Square /\ Became(p, m) = p.board[m.from]
  BY DEF Travels, Ordinary, Became
<1>2. GivesCheck(p, m) <=>
        \/ Strikes(type, p.stm, m.to, x, Occ(p))
        \/ \E a \in Behind(p, m.from) : m.to # a /\ ~Amid(x, m.to, a)
        \/ Behind(p, m.from) = {} /\ Shows(p, m)
  BY <1>1, GivesIs
<1>3. ~Shows(p, m)
  BY DEF Shows
<1>4. InCheck(q) <=>
        \/ Strikes(type, p.stm, m.to, x, Occ(q))
        \/ \E a \in Behind(p, m.from) : m.to # a /\ ~Amid(x, m.to, a)
  BY <1>1, CheckMade, LeftOpen
<1>5. Strikes(type, p.stm, m.to, x, Occ(p)) <=> Strikes(type, p.stm, m.to, x, Occ(q))
  BY StruckBefore
<1> HIDE DEF x, type, q
<1> QED BY <1>2, <1>3, <1>4, <1>5 DEF q

\* A pawn that promotes stays on no line it stood on.
LEMMA EdgeEnds ==
  ASSUME NEW x \in Square, NEW s \in Square, NEW t \in Square, NEW a \in Square,
         RankOf(t) \in {0, 7}, RankOf(s) # RankOf(t), Amid(x, s, a)
  PROVE  ~Amid(x, t, a)
<1>1. /\ FileOf(x) \in 0..7 /\ FileOf(s) \in 0..7 /\ FileOf(t) \in 0..7 /\ FileOf(a) \in 0..7
      /\ RankOf(x) \in 0..7 /\ RankOf(s) \in 0..7 /\ RankOf(a) \in 0..7
  BY Coordinates
<1> QED BY <1>1, SMTT(60) DEF Amid, Up

\* givesCheck is right about a promotion.
LEMMA PromotionShown ==
  ASSUME NEW p, Sound(p), NEW m \in LegalMoves(p), Travels(p, m), m.kind = "promotion",
         RankOf(m.to) = RelRank(7, p.stm)
  PROVE  GivesCheck(p, m) <=> InCheck(MakeMove(p, m))
<1> DEFINE x == OtherKing(p)
           q == MakeMove(p, m)
           c == p.stm
           s == m.from
           t == m.to
           type == TypeOf(p.board[s])
<1>1. /\ s \in Us(p, c) /\ t \in Square /\ s \in Square /\ x \in Square /\ c \in Color /\ p \in Position
      /\ m.promo \in {"q", "r", "b", "n"} /\ type = "p" /\ TypeOf(Became(p, m)) = m.promo
      /\ RankOf(s) # RankOf(t) /\ RankOf(t) \in {0, 7} /\ Ordinary(p, m)
  <2>1. m.promo \in {"q", "r", "b", "n"} /\ TypeOf(Became(p, m)) = m.promo
    BY DEF Travels, Ordinary, Became, TypeOf
  <2>2. RankOf(s) # RankOf(t)
    <3>1. RankOf(t) = RankOf(s) + Up1(c) /\ s \in Square
      <4>1. RankOf(s) \in Int /\ RankOf(t) \in Int /\ Up1(c) \in Int
        BY Coordinates DEF Travels, Ordinary, Up1
      <4> QED BY <4>1 DEF Travels, PawnStep
    <3>2. RankOf(s) \in 0..7 /\ Up1(c) \in {1, -1}
      BY <3>1, Coordinates DEF Up1
    <3> HIDE DEF s, t, c
    <3> QED BY <3>1, <3>2
  <2> QED BY <2>1, <2>2, Sides DEF Travels, Ordinary, OtherKing, RelRank
<1>2. GivesCheck(p, m) <=>
        \/ Strikes(type, c, t, x, Occ(p))
        \/ \E a \in Behind(p, s) : t # a /\ ~Amid(x, t, a)
        \/ Behind(p, s) = {} /\ Shows(p, m)
  <2> HIDE DEF x, q
  <2> QED BY <1>1, GivesIs DEF x
<1>3. InCheck(q) <=>
        \/ Strikes(m.promo, c, t, x, Occ(q))
        \/ \E a \in Behind(p, s) : t # a /\ ~Amid(x, t, a)
  BY <1>1, CheckMade, LeftOpen
<1>4. ~Strikes(type, c, t, x, Occ(p))
  <2>1. ~PawnStep(c, t, x)
    <3>1. RankOf(x) \in 0..7 /\ RankOf(t) = IF c = White THEN 7 ELSE 0
      BY <1>1, Coordinates DEF RelRank
    <3> HIDE DEF x, t, c
    <3> QED BY <1>1, <3>1 DEF PawnStep, Up1, Color, White, Black
  <2> QED BY <1>1, <2>1 DEF Strikes
<1>5. \A a \in Behind(p, s) : t # a /\ ~Amid(x, t, a)
  <2> SUFFICES ASSUME NEW a \in Behind(p, s) PROVE t # a /\ ~Amid(x, t, a)
    OBVIOUS
  <2>1. a \in Square /\ a \in Us(p, c) /\ Amid(x, s, a)
    BY <1>1, BehindIs
  <2>2. t \notin Us(p, c)
    BY DEF Travels, Ordinary
  <2> HIDE DEF x, s, t
  <2> QED BY <1>1, <2>1, <2>2, EdgeEnds
<1>6. Shows(p, m) <=> Strikes(m.promo, c, t, x, Occ(p) \ {s})
  BY DEF Shows
<1>7. Strikes(m.promo, c, t, x, Occ(p) \ {s}) <=> Strikes(m.promo, c, t, x, Occ(q))
  <2>1. Occ(q) = (Occ(p) \ {s}) \cup {t}
    <3>1. Gone(m) = {s}
      BY DEF Gone
    <3>2. Occ(q) = (Occ(p) \ Gone(m)) \cup {m.to}
      BY <1>1, MadeBoard
    <3> HIDE DEF q
    <3> QED BY <3>1, <3>2
  <2> HIDE DEF q, x, s, t, c
  <2>2. Clear(x, t, Occ(p) \ {s}) <=> Clear(x, t, Occ(q))
    BY <1>1, <2>1, AmidFacts DEF Clear
  <2> QED BY <2>2 DEF Strikes
<1> HIDE DEF x, q, c, s, t, type
<1>8. CASE Behind(p, s) = {}
  BY <1>2, <1>3, <1>4, <1>6, <1>7, <1>8 DEF q
<1>9. CASE Behind(p, s) # {}
  BY <1>2, <1>3, <1>5, <1>9 DEF q
<1> QED BY <1>8, <1>9

\* A slider behind a pawn that takes en passant along its line does not look over
\* the pawn that is taken.
LEMMA TakenAside ==
  ASSUME NEW x \in Square, NEW s \in Square, NEW t \in Square, NEW w \in Square, NEW a \in Square,
         NEW c \in Color, PawnStep(c, s, t), FileOf(w) = FileOf(t), RankOf(w) = RankOf(t) - Up1(c),
         Amid(x, s, a), Amid(x, t, a)
  PROVE  ~Diag(x, w) /\ ~Orth(x, w)
<1>1. /\ FileOf(x) \in 0..7 /\ FileOf(s) \in 0..7 /\ FileOf(t) \in 0..7 /\ FileOf(a) \in 0..7 /\ FileOf(w) \in 0..7
      /\ RankOf(x) \in 0..7 /\ RankOf(s) \in 0..7 /\ RankOf(t) \in 0..7 /\ RankOf(a) \in 0..7
      /\ RankOf(w) = RankOf(s) /\ Up1(c) \in {1, -1}
  <2>1. RankOf(s) \in 0..7 /\ RankOf(t) \in 0..7 /\ Up1(c) \in {1, -1}
    BY Coordinates DEF Up1
  <2> QED BY <2>1, Coordinates DEF PawnStep
<1>2. Diag(s, t) /\ s # t
  BY <1>1 DEF Diag, PawnStep
<1>3. FileOf(t) - FileOf(s) \in {1, -1} /\ RankOf(t) - RankOf(s) \in {1, -1}
  BY <1>1 DEF PawnStep
<1>4. Diag(x, s) /\ Diag(x, t) /\ FileOf(x) # FileOf(s) /\ FileOf(x) # FileOf(t)
  BY <1>1, <1>3, SMTT(60) DEF Amid, Up, Diag
<1> QED BY <1>1, <1>3, <1>4, SMTT(60) DEF Diag, Orth

\* givesCheck is right about a capture en passant, which opens two squares.
LEMMA EpShown ==
  ASSUME NEW p, Sound(p), NEW m \in LegalMoves(p), Travels(p, m), m.kind = "enpassant"
  PROVE  GivesCheck(p, m) <=> InCheck(MakeMove(p, m))
<1> DEFINE x == OtherKing(p)
           q == MakeMove(p, m)
           c == p.stm
           s == m.from
           t == m.to
           w == EpSquare(m.to)
           type == TypeOf(p.board[s])
           closed == (Occ(p) \ {s, w}) \cup {t}
           Opens(a) == /\ Aims(p, c, a, x) /\ a # s /\ a # t /\ Clear(x, a, Occ(q))
                       /\ \E g \in Gone(m) : g \in Square /\ Amid(x, g, a)
<1>1. /\ s \in Us(p, c) /\ t \in Square /\ s \in Square /\ x \in Square /\ c \in Color /\ p \in Position
      /\ type = "p" /\ Became(p, m) = p.board[s] /\ Ordinary(p, m) /\ t \notin Occ(p) /\ Us(p, c) \subseteq Occ(p)
      /\ w \in Us(p, Other(c)) /\ Us(p, c) \cap Us(p, Other(c)) = {}
      /\ Occ(p) \subseteq Square
      /\ \A types : Pieces(p, types, c) \subseteq Square /\ Pieces(p, types, c) \subseteq Us(p, c)
  BY Sides DEF Travels, Ordinary, OtherKing, Became
<1>2. PawnStep(c, s, t) /\ w \in Square /\ FileOf(w) = FileOf(t) /\ RankOf(w) = RankOf(t) - Up1(c)
  BY DEF Travels
<1>3. Gone(m) = {s, w}
  BY DEF Gone
<1>4. Occ(q) = closed
  <2>1. Occ(q) = (Occ(p) \ Gone(m)) \cup {m.to}
    BY <1>1, MadeBoard
  <2> HIDE DEF q
  <2> QED BY <1>3, <2>1
<1>5. GivesCheck(p, m) <=>
        \/ Strikes(type, c, t, x, Occ(p))
        \/ \E a \in Behind(p, s) : t # a /\ ~Amid(x, t, a)
        \/ Behind(p, s) = {} /\ Shows(p, m)
  <2> HIDE DEF x, q
  <2> QED BY <1>1, GivesIs DEF x
<1>6. InCheck(q) <=> Strikes(type, c, t, x, Occ(q)) \/ \E a \in Square : Opens(a)
  BY <1>1, CheckMade
<1>7. Strikes(type, c, t, x, Occ(p)) <=> Strikes(type, c, t, x, Occ(q))
  BY <1>1 DEF Strikes
<1>8. Shows(p, m) <=> Snipers(p, x, closed, c) # {}
  <2>1. ((Occ(p) \ {s}) \ {w}) \cup {t} = closed
    OBVIOUS
  <2> HIDE DEF x, c, closed, w
  <2> QED BY <2>1 DEF Shows, x, c, w
<1>9. \A a \in Square : ~Hits(p, c, a, x)
  BY DEF Sound, Calm, OtherKing
<1> HIDE DEF x, q, c, s, t, type, w
<1>10. \A a : a \in Snipers(p, x, closed, c) <=> a \in Square /\ Aims(p, c, a, x) /\ Clear(x, a, closed)
  BY <1>1, SniperIs
<1>11. ASSUME NEW a \in Square
       PROVE  Opens(a) <=> Aims(p, c, a, x) /\ Clear(x, a, closed)
  <2>1. Opens(a) => Aims(p, c, a, x) /\ Clear(x, a, closed)
    BY <1>4
  <2>2. ASSUME Aims(p, c, a, x), Clear(x, a, closed) PROVE Opens(a)
    <3>1. a \in Us(p, c) /\ a # t
      BY <1>1, <2>2 DEF Aims
    <3>2. a # s
      BY <1>1, <2>2 DEF Aims, Pieces, type
    <3>3. ~Clear(x, a, Occ(p))
      BY <1>9, <2>2, HitsBy
    <3>4. PICK u \in Occ(p) \cap Square : Amid(x, u, a)
      BY <3>3 DEF Clear
    <3>5. u \in {s, w}
      BY <2>2, <3>4 DEF Clear
    <3> QED BY <1>3, <1>4, <2>2, <3>1, <3>2, <3>4, <3>5
  <2> QED BY <2>1, <2>2
<1>12. (\E a \in Square : Opens(a)) <=> Shows(p, m)
  BY <1>8, <1>10, <1>11
<1>13. ASSUME NEW a \in Behind(p, s), Clear(x, a, Occ(p) \ {s}), Aims(p, c, a, x), Amid(x, s, a), a \in Square,
              a \in Us(p, c), a # s
       PROVE  (\E b \in Square : Opens(b)) <=> t # a /\ ~Amid(x, t, a)
  <2>1. t # a
    BY <1>1, <1>13
  <2>2. CASE ~Amid(x, t, a)
    <3>1. Clear(x, a, closed)
      BY <1>13, <2>2 DEF Clear
    <3> QED BY <1>11, <1>13, <2>1, <2>2, <3>1
  <2>3. CASE Amid(x, t, a)
    <3>1. ASSUME NEW b \in Square, Opens(b) PROVE FALSE
      <4>1. Aims(p, c, b, x) /\ Clear(x, b, closed) /\ b # s /\ b # t
        BY <1>4, <3>1
      <4>2. PICK g \in Gone(m) : g \in Square /\ Amid(x, g, b)
        BY <3>1
      <4>3. b \in Us(p, c) /\ b \in Occ(p) /\ b # w /\ a \in Occ(p) /\ a # w
        BY <1>1, <1>13, <4>1 DEF Aims
      <4>4. CASE g = s
        <5>1. a # b
          BY <1>1, <2>3, <4>1 DEF Clear
        <5>2. Amid(x, a, b) \/ Amid(x, b, a)
          BY <1>1, <1>13, <4>2, <4>4, <5>1, TwoBehind
        <5>3. ~Amid(x, a, b)
          BY <1>13, <4>1, <4>3 DEF Clear
        <5>4. ~Amid(x, b, a)
          BY <1>13, <4>1, <4>3 DEF Clear
        <5> QED BY <5>2, <5>3, <5>4
      <4>5. CASE g = w
        <5>1. ~Diag(x, w) /\ ~Orth(x, w)
          BY <1>1, <1>2, <1>13, <2>3, TakenAside
        <5>2. Diag(x, b) \/ Orth(x, b)
          BY <4>1 DEF Aims
        <5> QED BY <1>1, <1>2, <4>2, <4>5, <5>1, <5>2, AmidFacts
      <4> QED BY <1>3, <4>2, <4>4, <4>5
    <3> QED BY <2>3, <3>1
  <2> QED BY <2>2, <2>3
<1> HIDE DEF Opens, closed
<1>14. CASE Behind(p, s) = {}
  BY <1>5, <1>6, <1>7, <1>12, <1>14 DEF q
<1>15. CASE Behind(p, s) # {}
  <2>1. PICK a \in Behind(p, s) : TRUE
    BY <1>15
  <2>2. /\ a \in Square /\ a \in Us(p, c) /\ a # s /\ Behind(p, s) = {a} /\ Aims(p, c, a, x)
        /\ Clear(x, a, Occ(p) \ {s}) /\ Amid(x, s, a)
    <3>1. s \in Us(p, p.stm)
      BY <1>1 DEF c
    <3> QED BY <2>1, <3>1, BehindIs DEF c, x
  <2>3. (\E b \in Square : Opens(b)) <=> t # a /\ ~Amid(x, t, a)
    BY <1>13, <2>2
  <2> QED BY <1>5, <1>6, <1>7, <1>15, <2>2, <2>3 DEF q
<1> QED BY <1>14, <1>15

\* Between, on one rank.
LEMMA AmidRank ==
  ASSUME NEW s \in Square, NEW u \in Square, NEW t \in Square, RankOf(s) = RankOf(t)
  PROVE  Amid(s, u, t) <=> RankOf(u) = RankOf(s) /\ Up(FileOf(s), FileOf(u), FileOf(t))
<1>1. /\ FileOf(s) \in 0..7 /\ FileOf(u) \in 0..7 /\ FileOf(t) \in 0..7
      /\ RankOf(s) \in 0..7 /\ RankOf(u) \in 0..7 /\ RankOf(t) \in 0..7
  BY Coordinates
<1> QED BY <1>1, SMTT(60) DEF Amid, Up

\* A line over a square of the home rank is the home rank.
LEMMA OnHome ==
  ASSUME NEW x \in Square, NEW u \in Square, NEW a \in Square, NEW c \in Color,
         RankOf(u) = RelRank(0, c), Amid(x, u, a)
  PROVE  RankOf(x) = RankOf(u) /\ RankOf(a) = RankOf(u) /\ Up(FileOf(x), FileOf(u), FileOf(a)) /\ Orth(x, a)
<1>1. /\ FileOf(x) \in 0..7 /\ FileOf(u) \in 0..7 /\ FileOf(a) \in 0..7
      /\ RankOf(x) \in 0..7 /\ RankOf(u) \in 0..7 /\ RankOf(a) \in 0..7
      /\ RankOf(u) \in {0, 7}
  BY Coordinates DEF RelRank
<1>2. RankOf(x) = RankOf(u) /\ RankOf(a) = RankOf(u) /\ Up(FileOf(x), FileOf(u), FileOf(a))
  BY <1>1, SMTT(60) DEF Amid, Up
<1> QED BY <1>2, AmidFacts DEF Orth

\* The files of castling: what else stands on the home rank is not in the way.
Aside(k, r, kt, rt, u) ==
  /\ u \in 0..7 /\ u \notin {k, r, kt, rt}
  /\ ~Up(k, u, kt) /\ ~Up(r, u, rt) /\ ~Up(k, u, r)
Files(side, k, r, kt, rt) ==
  /\ k \in 0..7 /\ r \in 0..7
  /\ IF side = "king" THEN kt = 6 /\ rt = 5 /\ r > k ELSE kt = 2 /\ rt = 3 /\ r < k

\* The files of king and rook before and after castling, and where all others stand.
LEMMA CastleFiles ==
  ASSUME NEW p, Sound(p), NEW m, NEW side \in Side, Exchanges(p, m, side)
  PROVE  LET k == OwnKing(p)
             kt == KingTo(side, p.stm)
             rt == RookTo(side, p.stm)
         IN /\ Files(side, FileOf(k), FileOf(m.to), FileOf(kt), FileOf(rt))
            /\ \A u \in Occ(p) : u # k /\ u # m.to /\ RankOf(u) = RankOf(k)
                                 => Aside(FileOf(k), FileOf(m.to), FileOf(kt), FileOf(rt), FileOf(u))
<1> DEFINE k == OwnKing(p)
           r == m.to
           kt == KingTo(side, p.stm)
           rt == RookTo(side, p.stm)
<1>1. /\ r \in Square /\ RankOf(r) = RankOf(k)
      /\ IF side = "king" THEN FileOf(r) > FileOf(k) ELSE FileOf(r) < FileOf(k)
      /\ kt \in Square /\ rt \in Square /\ RankOf(kt) = RankOf(k) /\ RankOf(rt) = RankOf(k)
      /\ FileOf(kt) = IF side = "king" THEN 6 ELSE 2
      /\ FileOf(rt) = IF side = "king" THEN 5 ELSE 3
      /\ \A u \in Occ(p) : u # k /\ u # r => u # kt /\ u # rt /\ ~Amid(k, u, kt) /\ ~Amid(r, u, rt)
  BY DEF Exchanges
<1>2. k \in Square /\ Occ(p) \subseteq Square
  BY Sides
<1> HIDE DEF k, r, kt, rt
<1>3. FileOf(k) \in 0..7 /\ FileOf(r) \in 0..7
  BY <1>1, <1>2, Coordinates
<1>4. Files(side, FileOf(k), FileOf(r), FileOf(kt), FileOf(rt))
  BY <1>1, <1>3 DEF Files
<1>5. ASSUME NEW u \in Occ(p), u # k, u # r, RankOf(u) = RankOf(k)
      PROVE  Aside(FileOf(k), FileOf(r), FileOf(kt), FileOf(rt), FileOf(u))
  <2>1. u \in Square /\ u # kt /\ u # rt /\ ~Amid(k, u, kt) /\ ~Amid(r, u, rt)
    BY <1>1, <1>2, <1>5
  <2>2. FileOf(u) \in 0..7 /\ FileOf(u) \notin {FileOf(k), FileOf(r), FileOf(kt), FileOf(rt)}
    BY <1>1, <1>2, <1>5, <2>1, Coordinates, SameSquare
  <2>3. ~Up(FileOf(k), FileOf(u), FileOf(kt)) /\ ~Up(FileOf(r), FileOf(u), FileOf(rt))
    BY <1>1, <1>2, <1>5, <2>1, AmidRank
  <2>4. ~Up(FileOf(k), FileOf(u), FileOf(r))
    BY <1>3, <1>4, <2>2, <2>3 DEF Files, Up
  <2> QED BY <2>2, <2>3, <2>4 DEF Aside
<1> QED BY <1>4, <1>5 DEF k, r, kt, rt

\* Nothing that stayed sees a king over the squares that were left.
LEMMA FilesClosed ==
  ASSUME NEW side \in Side, NEW k, NEW r, NEW kt, NEW rt, NEW x, NEW a, NEW u \in {k, r},
         Files(side, k, r, kt, rt), Aside(k, r, kt, rt, x), Aside(k, r, kt, rt, a), Up(x, u, a)
  PROVE  Up(x, kt, a)
BY SMTT(60) DEF Files, Aside, Up, Side

\* A slider behind the king is the rook.
LEMMA FilesBehind ==
  ASSUME NEW side \in Side, NEW k, NEW r, NEW kt, NEW rt, NEW x, NEW a,
         Files(side, k, r, kt, rt), Aside(k, r, kt, rt, x), Aside(k, r, kt, rt, a), Up(x, k, a), ~Up(x, r, a)
  PROVE  FALSE
BY SMTT(60) DEF Files, Aside, Up, Side

\* With the king between, the rook sees as far from its new square.
LEMMA FilesOpen ==
  ASSUME NEW side \in Side, NEW k, NEW r, NEW kt, NEW rt, NEW x,
         Files(side, k, r, kt, rt), Aside(k, r, kt, rt, x), Up(x, k, r)
  PROVE  /\ x # rt /\ ~Up(x, kt, rt)
         /\ \A v \in 0..7 : Aside(k, r, kt, rt, v) /\ Up(x, v, rt) => Up(x, v, r)
         /\ \A v \in 0..7 : Aside(k, r, kt, rt, v) /\ Up(x, v, r) => Up(x, v, rt)
<1>1. x # rt /\ ~Up(x, kt, rt)
  BY SMTT(60) DEF Files, Aside, Up, Side
<1>2. ASSUME NEW v \in 0..7, Aside(k, r, kt, rt, v), Up(x, v, rt) PROVE Up(x, v, r)
  BY <1>2, SMTT(60) DEF Files, Aside, Up, Side
<1>3. ASSUME NEW v \in 0..7, Aside(k, r, kt, rt, v), Up(x, v, r) PROVE Up(x, v, rt)
  BY <1>3, SMTT(60) DEF Files, Aside, Up, Side
<1> QED BY <1>1, <1>2, <1>3

\* A square that was left opens the rook's new line only when the king stood
\* between the two before.
LEMMA FilesLeft ==
  ASSUME NEW side \in Side, NEW k, NEW r, NEW kt, NEW rt, NEW x, NEW u \in {k, r},
         Files(side, k, r, kt, rt), Aside(k, r, kt, rt, x), Up(x, u, rt), u # kt, ~Up(x, kt, rt)
  PROVE  Up(x, k, r)
BY SMTT(60) DEF Files, Aside, Up, Side

\* A king behind the new square of the castling king was seen by the rook.
LEMMA FilesSeen ==
  ASSUME NEW side \in Side, NEW k, NEW r, NEW kt, NEW rt, NEW x,
         Files(side, k, r, kt, rt), Aside(k, r, kt, rt, x), Up(x, kt, rt), r # kt, ~Up(x, r, rt)
  PROVE  /\ ~Up(x, k, r)
         /\ \A v \in 0..7 : Aside(k, r, kt, rt, v) /\ Up(x, v, r) => Up(x, v, rt)
<1>1. ~Up(x, k, r)
  BY SMTT(60) DEF Files, Aside, Up, Side
<1>2. ASSUME NEW v \in 0..7, Aside(k, r, kt, rt, v), Up(x, v, r) PROVE Up(x, v, rt)
  BY <1>2, SMTT(60) DEF Files, Aside, Up, Side
<1> QED BY <1>1, <1>2

\* Castling gives check by the rook alone.
LEMMA RookChecks ==
  ASSUME NEW p, Sound(p), NEW m \in LegalMoves(p), NEW side \in Side, Exchanges(p, m, side)
  PROVE  LET x == OtherKing(p)
             rt == RookTo(side, p.stm)
         IN InCheck(MakeMove(p, m)) <=> Orth(x, rt) /\ Clear(x, rt, Occ(MakeMove(p, m)))
<1> DEFINE q == MakeMove(p, m)
           x == OtherKing(p)
           c == p.stm
           k == OwnKing(p)
           kt == KingTo(side, c)
           rt == RookTo(side, c)
<1>1. Sound(q) /\ q \in Position /\ Occ(q) \subseteq Square
  <2> HIDE DEF q
  <2> QED BY MoveSound, Sides DEF q
<1>2. AfterCastling(p, m, q, kt, rt)
  BY MadeCastle
<1>3. /\ c \in Color /\ Other(c) \in Color /\ Other(Other(c)) = c /\ x \in Square /\ k \in Square
      /\ x \in Us(p, Other(c)) /\ x \in Occ(p) /\ Us(p, c) \cap Us(p, Other(c)) = {} /\ k \in Us(p, c)
      /\ Occ(p) \subseteq Square /\ Us(p, c) \subseteq Occ(p)
      /\ Pieces(p, {"k"}, Other(c)) = {x} /\ Pieces(p, {"k"}, c) = {k}
      /\ \A types : Pieces(p, types, c) \subseteq Square /\ Pieces(p, types, c) \subseteq Us(p, c)
  BY Sides DEF OtherKing, OwnKing, OneKing
<1>4. /\ m.to \in Square /\ m.to \in Us(p, c) /\ kt \in Square /\ rt \in Square /\ rt # kt
      /\ RankOf(k) = RelRank(0, c) /\ RankOf(m.to) = RankOf(k) /\ RankOf(kt) = RankOf(k) /\ RankOf(rt) = RankOf(k)
  BY <1>3 DEF Exchanges
<1>5. \A a \in Square : ~Hits(p, c, a, x)
  BY DEF Sound, Calm, OtherKing
<1>6. /\ Files(side, FileOf(k), FileOf(m.to), FileOf(kt), FileOf(rt))
      /\ \A u \in Occ(p) : u # k /\ u # m.to /\ RankOf(u) = RankOf(k)
                           => Aside(FileOf(k), FileOf(m.to), FileOf(kt), FileOf(rt), FileOf(u))
  BY CastleFiles
<1> HIDE DEF q, x, c, k, kt, rt
<1>7. /\ q.stm = Other(c)
      /\ \A u : u \in Occ(q) <=> (u \in Occ(p) /\ u # k /\ u # m.to) \/ u = kt \/ u = rt
      /\ \A types : Pieces(q, types, Other(c)) = Pieces(p, types, Other(c))
      /\ \A types, s : s \in Pieces(q, types, c) <=>
           \/ s \in Pieces(p, types, c) /\ s # k /\ s # m.to
           \/ s = kt /\ "k" \in types
           \/ s = rt /\ "r" \in types
  BY <1>2 DEF AfterCastling, c, k
<1>8. Pieces(q, {"k"}, c) = {kt} /\ Pieces(q, {"k"}, Other(c)) = {x}
  BY <1>3, <1>7
<1>9. OwnKing(q) = x /\ KingSq(q, c) = kt /\ Other(q.stm) = c
  <2>1. c \in Color
    BY <1>3
  <2>2. KingSq(q, c) = kt /\ KingSq(q, Other(c)) = x
    BY <1>8, <2>1, KingsAre
  <2>3. q.stm = Other(c) /\ Other(Other(c)) = c
    BY <1>3, <1>7
  <2> QED BY <2>2, <2>3 DEF OwnKing
<1>10. ~KingStep(kt, x)
  BY <1>1, <1>9, KingsApart
<1>11. InCheck(q) <=> \E a \in Square : Hits(q, c, a, x)
  BY <1>1, <1>3, <1>9, AttackedHit DEF InCheck, OwnKing
<1>12. Hits(q, c, rt, x) <=> Orth(x, rt) /\ Clear(x, rt, Occ(q))
  <2>1. \A types : rt \in Pieces(q, types, c) <=> "r" \in types
    <3>1. \A u \in Occ(p) : u # k /\ u # m.to => u # rt
      BY DEF Exchanges, k, rt, c
    <3> QED BY <1>3, <1>4, <1>7, <3>1
  <2> QED BY <2>1 DEF Hits
<1>13. ASSUME NEW a \in Square, a # rt, Hits(q, c, a, x) PROVE FALSE
  <2>1. a # kt
    <3>1. \A types : kt \in Pieces(q, types, c) <=> "k" \in types
      <4>1. \A u \in Occ(p) : u # k /\ u # m.to => u # kt
        BY DEF Exchanges, k, kt, c
      <4> QED BY <1>3, <1>4, <1>7, <4>1
    <3> QED BY <1>10, <1>13, <3>1 DEF Hits
  <2>2. \A types : a \in Pieces(q, types, c) => a \in Pieces(p, types, c) /\ a # k /\ a # m.to
    BY <1>7, <1>13, <2>1
  <2>3. Aims(p, c, a, x) /\ Clear(x, a, Occ(q)) /\ ~Clear(x, a, Occ(p))
    BY <1>5, <1>13, <2>2 DEF Hits, Aims
  <2>4. a \in Occ(p) /\ a # k /\ a # m.to
    <3>1. \E types : a \in Pieces(q, types, c)
      BY <1>13 DEF Hits
    <3> QED BY <1>3, <2>2, <3>1
  <2>5. PICK u \in Occ(p) \cap Square : Amid(x, u, a)
    BY <2>3 DEF Clear
  <2>6. u \in {k, m.to}
    BY <1>7, <2>3, <2>5 DEF Clear
  <2>7. RankOf(x) = RankOf(k) /\ RankOf(a) = RankOf(k) /\ Up(FileOf(x), FileOf(u), FileOf(a))
    BY <1>3, <1>4, <2>5, <2>6, OnHome
  <2>8. x # k /\ x # m.to
    BY <1>3, <1>4
  <2>9. Up(FileOf(x), FileOf(kt), FileOf(a))
    <3>1. /\ Aside(FileOf(k), FileOf(m.to), FileOf(kt), FileOf(rt), FileOf(x))
          /\ Aside(FileOf(k), FileOf(m.to), FileOf(kt), FileOf(rt), FileOf(a))
          /\ FileOf(u) \in {FileOf(k), FileOf(m.to)}
      BY <1>3, <1>6, <2>4, <2>6, <2>7, <2>8
    <3> QED BY <1>6, <2>7, <3>1, FilesClosed
  <2>10. Amid(x, kt, a)
    BY <1>3, <1>4, <2>7, <2>9, AmidRank
  <2> QED BY <1>4, <1>7, <2>3, <2>10 DEF Clear
<1>14. rt \in Square
  BY <1>4
<1> QED BY <1>11, <1>12, <1>13, <1>14 DEF q, x, rt, c

\* givesCheck is right about castling: only the rook can give it.
LEMMA CastleShown ==
  ASSUME NEW p, Sound(p), NEW m \in LegalMoves(p), NEW side \in Side, Exchanges(p, m, side)
  PROVE  GivesCheck(p, m) <=> InCheck(MakeMove(p, m))
<1> DEFINE q == MakeMove(p, m)
           x == OtherKing(p)
           c == p.stm
           k == OwnKing(p)
           r == m.to
           kt == KingTo(side, c)
           rt == RookTo(side, c)
           Out(a) == Aside(FileOf(k), FileOf(r), FileOf(kt), FileOf(rt), FileOf(a))
<1>1. \A u : u \in Occ(q) <=> (u \in Occ(p) /\ u # k /\ u # r) \/ u = kt \/ u = rt
  <2>1. AfterCastling(p, m, q, kt, rt)
    BY MadeCastle
  <2> HIDE DEF q, kt, rt
  <2> QED BY <2>1 DEF AfterCastling
<1>2. /\ c \in Color /\ x \in Square /\ k \in Square /\ x \in Occ(p) /\ x # k /\ x # r /\ k \in Us(p, c)
      /\ Occ(p) \subseteq Square /\ Us(p, c) \subseteq Occ(p)
      /\ r \in Square /\ r \in Pieces(p, {"r"}, c) /\ r \in Us(p, c) /\ r # k
      /\ \A types : Pieces(p, types, c) \subseteq Square
  <2>1. r \in Square /\ r \in Pieces(p, {"r"}, c) /\ r \in Us(p, c) /\ r # k
    BY Sides DEF Exchanges
  <2> QED BY <2>1, Sides DEF OtherKing
<1>3. /\ kt \in Square /\ rt \in Square /\ m.kind = "castling" /\ m.from = k /\ CastledTo(m) = side
      /\ RankOf(k) = RelRank(0, c) /\ RankOf(r) = RankOf(k) /\ RankOf(kt) = RankOf(k) /\ RankOf(rt) = RankOf(k)
      /\ \A u \in Occ(p) : u # k /\ u # r => u # kt /\ u # rt
  BY DEF Exchanges
<1>4. \A a \in Square : ~Hits(p, c, a, x)
  BY DEF Sound, Calm, OtherKing
<1>5. /\ Files(side, FileOf(k), FileOf(r), FileOf(kt), FileOf(rt))
      /\ \A u \in Occ(p) : u # k /\ u # r /\ RankOf(u) = RankOf(k) => Out(u)
  BY CastleFiles
<1>6. TypeOf(p.board[k]) = "k"
  <2>1. k \in Pieces(p, {"k"}, c)
    BY Sides DEF OwnKing, OneKing
  <2> QED BY <2>1 DEF Pieces
<1>7. InCheck(q) <=> Orth(x, rt) /\ Clear(x, rt, Occ(q))
  BY RookChecks
<1>8. GivesCheck(p, m) <=> Behind(p, k) # {} \/ (Orth(x, rt) /\ Clear(x, rt, Occ(p)))
  <2>1. ~Strikes(TypeOf(p.board[m.from]), c, m.to, x, Occ(p))
    BY <1>3, <1>6 DEF Strikes
  <2>2. Shows(p, m) <=> rt \in RookAttacks(x, Occ(p))
    BY <1>3 DEF Shows
  <2>3. rt \in RookAttacks(x, Occ(p)) <=> Orth(x, rt) /\ Clear(x, rt, Occ(p))
    BY <1>2, <1>3, RookSees
  <2>4. m.from \in Us(p, p.stm) /\ m.to \in Square /\ m.kind # "promotion"
    BY <1>2, <1>3
  <2>5. GivesCheck(p, m) <=> Behind(p, m.from) # {} \/ (Behind(p, m.from) = {} /\ Shows(p, m))
    <3> HIDE DEF x, q, k, rt
    <3> QED BY <1>3, <2>1, <2>4, GivesIs DEF x
  <2> HIDE DEF x, q, k, rt
  <2> QED BY <1>3, <2>2, <2>3, <2>5
<1>9. \A a : a \in Behind(p, k) <=> a \in Square /\ Aims(p, c, a, x) /\ Clear(x, a, Occ(p) \ {k})
  BY <1>2, SniperIs DEF Behind
<1>10. \A a \in Behind(p, k) : a \in Us(p, c) /\ a # k /\ Amid(x, k, a)
  <2> HIDE DEF k
  <2> QED BY <1>2, BehindIs
<1> HIDE DEF q, x, c, k, r, kt, rt, Out
<1>11. ASSUME NEW a \in Behind(p, k) PROVE Orth(x, rt) /\ Clear(x, rt, Occ(q))
  <2>1. a \in Square /\ a \in Occ(p) /\ a # k /\ Amid(x, k, a) /\ Clear(x, a, Occ(p) \ {k})
    BY <1>2, <1>9, <1>10
  <2>2. RankOf(x) = RankOf(k) /\ RankOf(a) = RankOf(k) /\ Up(FileOf(x), FileOf(k), FileOf(a))
    BY <1>2, <1>3, <2>1, OnHome
  <2>3. Out(x)
    BY <1>2, <1>5, <2>2
  <2>4. ~Up(FileOf(x), FileOf(r), FileOf(a))
    <3>1. ~Amid(x, r, a)
      BY <1>2, <2>1 DEF Clear
    <3> QED BY <1>2, <1>3, <2>1, <2>2, <3>1, AmidRank
  <2>5. a = r
    <3>1. a # r => Out(a)
      BY <1>5, <2>1, <2>2
    <3> QED BY <1>5, <2>2, <2>3, <2>4, <3>1, FilesBehind DEF Out
  <2>6. /\ FileOf(x) # FileOf(rt) /\ ~Up(FileOf(x), FileOf(kt), FileOf(rt))
        /\ \A v \in 0..7 : Aside(FileOf(k), FileOf(r), FileOf(kt), FileOf(rt), v) /\ Up(FileOf(x), v, FileOf(rt))
                           => Up(FileOf(x), v, FileOf(r))
    BY <1>5, <2>2, <2>3, <2>5, FilesOpen DEF Out
  <2>7. Orth(x, rt)
    BY <1>3, <2>2, <2>6 DEF Orth
  <2>8. ASSUME NEW v \in Occ(q) \cap Square, Amid(x, v, rt) PROVE FALSE
    <3>1. RankOf(v) = RankOf(k) /\ Up(FileOf(x), FileOf(v), FileOf(rt))
      BY <1>2, <1>3, <2>2, <2>8, AmidRank
    <3>2. v # kt /\ v # rt
      BY <1>2, <1>3, <2>6, <2>8, <3>1, AmidFacts
    <3>3. v \in Occ(p) /\ v # k /\ v # r
      BY <1>1, <2>8, <3>2
    <3>4. Out(v) /\ FileOf(v) \in 0..7
      BY <1>5, <2>8, <3>1, <3>3, Coordinates
    <3>5. Up(FileOf(x), FileOf(v), FileOf(r))
      BY <2>6, <3>1, <3>4 DEF Out
    <3>6. Amid(x, v, r)
      BY <1>2, <1>3, <2>2, <2>8, <3>1, <3>5, AmidRank
    <3> QED BY <2>1, <2>5, <2>8, <3>3, <3>6 DEF Clear
  <2> QED BY <2>7, <2>8 DEF Clear
<1>12. ASSUME Orth(x, rt), Clear(x, rt, Occ(p)) PROVE Clear(x, rt, Occ(q))
  <2>1. SUFFICES ASSUME NEW v \in Occ(q) \cap Square, Amid(x, v, rt) PROVE FALSE
    BY DEF Clear
  <2>2. v # rt /\ v \notin Occ(p)
    BY <1>2, <1>3, <1>12, <2>1, AmidFacts DEF Clear
  <2>3. v = kt
    BY <1>1, <2>1, <2>2
  <2>4. RankOf(x) = RankOf(k) /\ Up(FileOf(x), FileOf(kt), FileOf(rt))
    BY <1>2, <1>3, <2>1, <2>3, OnHome
  <2>5. Out(x) /\ FileOf(r) # FileOf(kt) /\ ~Up(FileOf(x), FileOf(r), FileOf(rt))
    <3>1. Out(x)
      BY <1>2, <1>5, <2>4
    <3>2. r # kt
      BY <1>2, <2>2, <2>3
    <3>3. FileOf(r) # FileOf(kt)
      BY <1>2, <1>3, <3>2, SameSquare
    <3>4. ~Amid(x, r, rt)
      BY <1>2, <1>12 DEF Clear
    <3>5. ~Up(FileOf(x), FileOf(r), FileOf(rt))
      BY <1>2, <1>3, <2>4, <3>4, AmidRank
    <3> QED BY <3>1, <3>3, <3>5
  <2>6. /\ ~Up(FileOf(x), FileOf(k), FileOf(r))
        /\ \A v1 \in 0..7 : Aside(FileOf(k), FileOf(r), FileOf(kt), FileOf(rt), v1) /\ Up(FileOf(x), v1, FileOf(r))
                           => Up(FileOf(x), v1, FileOf(rt))
    BY <1>5, <2>4, <2>5, FilesSeen DEF Out
  <2>7. Clear(x, r, Occ(p))
    <3>1. SUFFICES ASSUME NEW v1 \in Occ(p) \cap Square, Amid(x, v1, r) PROVE FALSE
      BY DEF Clear
    <3>2. RankOf(v1) = RankOf(k) /\ Up(FileOf(x), FileOf(v1), FileOf(r))
      BY <1>2, <1>3, <2>4, <3>1, AmidRank
    <3>3. v1 # k /\ v1 # r
      BY <1>2, <2>6, <3>1, <3>2, AmidFacts
    <3>4. Out(v1) /\ FileOf(v1) \in 0..7
      BY <1>5, <3>1, <3>2, <3>3, Coordinates
    <3>5. Up(FileOf(x), FileOf(v1), FileOf(rt))
      BY <2>6, <3>2, <3>4 DEF Out
    <3>6. Amid(x, v1, rt)
      BY <1>2, <1>3, <2>4, <3>1, <3>2, <3>5, AmidRank
    <3> QED BY <1>12, <3>1, <3>6 DEF Clear
  <2>8. Orth(x, r) /\ r \in Pieces(p, {"r", "q"}, c)
    BY <1>2, <1>3, <2>4 DEF Orth, Pieces
  <2> QED BY <1>2, <1>4, <2>7, <2>8 DEF Hits
<1>13. ASSUME Orth(x, rt), Clear(x, rt, Occ(q)), ~Clear(x, rt, Occ(p)) PROVE r \in Behind(p, k)
  <2>1. PICK u \in Occ(p) \cap Square : Amid(x, u, rt)
    BY <1>13 DEF Clear
  <2>2. u \in {k, r} /\ u # kt
    BY <1>1, <1>13, <2>1 DEF Clear
  <2>3. RankOf(x) = RankOf(k) /\ Up(FileOf(x), FileOf(u), FileOf(rt))
    BY <1>2, <1>3, <2>1, <2>2, OnHome
  <2>4. Out(x) /\ FileOf(u) # FileOf(kt) /\ ~Up(FileOf(x), FileOf(kt), FileOf(rt))
    <3>1. Out(x)
      BY <1>2, <1>5, <2>3
    <3>2. FileOf(u) # FileOf(kt)
      BY <1>2, <1>3, <2>2, SameSquare
    <3>3. ~Amid(x, kt, rt)
      BY <1>1, <1>3, <1>13 DEF Clear
    <3> QED BY <1>2, <1>3, <2>3, <3>1, <3>2, <3>3, AmidRank
  <2>5. Up(FileOf(x), FileOf(k), FileOf(r))
    <3>1. FileOf(u) \in {FileOf(k), FileOf(r)}
      BY <2>2
    <3> QED BY <1>5, <2>3, <2>4, <3>1, FilesLeft DEF Out
  <2>6. \A v \in 0..7 : Aside(FileOf(k), FileOf(r), FileOf(kt), FileOf(rt), v) /\ Up(FileOf(x), v, FileOf(r))
                        => Up(FileOf(x), v, FileOf(rt))
    BY <1>5, <2>4, <2>5, FilesOpen DEF Out
  <2>7. Clear(x, r, Occ(p) \ {k})
    <3>1. SUFFICES ASSUME NEW v \in (Occ(p) \ {k}) \cap Square, Amid(x, v, r) PROVE FALSE
      BY DEF Clear
    <3>2. RankOf(v) = RankOf(k) /\ Up(FileOf(x), FileOf(v), FileOf(r))
      BY <1>2, <1>3, <2>3, <3>1, AmidRank
    <3>3. v # k /\ v # r
      BY <1>2, <3>1, AmidFacts
    <3>4. Out(v) /\ FileOf(v) \in 0..7
      BY <1>5, <3>1, <3>2, <3>3, Coordinates
    <3>5. Up(FileOf(x), FileOf(v), FileOf(rt))
      BY <2>6, <3>2, <3>4 DEF Out
    <3>6. Amid(x, v, rt) /\ v \in Occ(q)
      BY <1>1, <1>2, <1>3, <2>3, <3>1, <3>2, <3>3, <3>5, AmidRank
    <3> QED BY <1>13, <3>1, <3>6 DEF Clear
  <2>8. Orth(x, r) /\ r \in Pieces(p, {"r", "q"}, c)
    BY <1>2, <1>3, <2>3 DEF Orth, Pieces
  <2> QED BY <1>2, <1>9, <2>7, <2>8 DEF Aims
<1> QED BY <1>7, <1>8, <1>11, <1>12, <1>13 DEF q

\* givesCheck is right about every legal move of a sound position.
LEMMA ForetoldExact ==
  ASSUME NEW p, Sound(p), NEW m \in LegalMoves(p)
  PROVE  GivesCheck(p, m) <=> InCheck(MakeMove(p, m))
<1>1. KingMove(p, m) \/ CastlingMove(p, m) \/ OtherMove(p, m)
  <2>1. p.ep \in Int /\ p.stm \in Color /\ Pieces(p, {"p"}, p.stm) \in SUBSET Int
    BY Sides, PositionTypes DEF Square
  <2> QED BY <2>1, LegalShape
<1>2. CASE CastlingMove(p, m)
  <2>1. PICK side \in Side : Castles(p, m, side)
    BY <1>2, CastlingIs
  <2>2. Exchanges(p, m, side)
    BY <2>1 DEF Castles
  <2> QED BY <2>2, CastleShown
<1>3. CASE KingMove(p, m)
  <2>1. Travels(p, m) /\ m.kind = "normal"
    BY <1>3, KingTravels, KingOrdinary
  <2> QED BY <2>1, NormalShown
<1>4. CASE OtherMove(p, m)
  <2>1. Travels(p, m) /\ m.kind \in Plain
    BY <1>4, OtherTravels DEF Travels, Ordinary
  <2>2. m.kind = "promotion" => RankOf(m.to) = RelRank(7, p.stm)
    <3>1. PieceMoves(p, m) => m.kind = "normal"
      BY DEF PieceMoves
    <3>2. EpMoves1(p, m) => m.kind = "enpassant"
      BY DEF EpMoves1
    <3>3. PawnMoves1(p, m) /\ m.kind = "promotion" => RankOf(m.to) = RelRank(7, p.stm)
      BY DEF PawnMoves1
    <3> QED BY <1>4, <3>1, <3>2, <3>3, OtherIs
  <2> QED BY <2>1, <2>2, NormalShown, PromotionShown, EpShown DEF Plain
<1> QED BY <1>1, <1>2, <1>3, <1>4

\* givesCheck, asked before the move is made, gives the answer that inCheck gives
\* after it: checks by the piece that moves, checks by the sliders behind it, by
\* what a pawn becomes, over both pawns of an en passant capture, and by the rook
\* of a castling king.
THEOREM ChecksAlwaysForetold ==
  ASSUME StartsExplained
  PROVE  Spec => []ChecksForetold
<1>1. Played => ChecksForetold
  BY ForetoldExact DEF Played, ChecksForetold
<1> QED BY <1>1, AlwaysPlayed, PTL

----------------------------------------
(* Repetitions: what a move wears out.  The pieces on the board, and the      *)
(* pawns of a color that have not gone further than a rank, never become      *)
(* more; an irreversible move makes some of these counts less.                *)

\* The pawns of c that have come no further than rank r, as c sees it.
Low(p, c, r) == {s \in Pieces(p, {"p"}, c) : RelRank(RankOf(s), c) <= r}

AtMost(q, p) ==
  /\ Cardinality(Occ(q)) <= Cardinality(Occ(p))
  /\ \A c \in Color, r \in Rank : Cardinality(Low(q, c, r)) <= Cardinality(Low(p, c, r))
Worn(q, p) ==
  /\ AtMost(q, p)
  /\ \/ Cardinality(Occ(q)) < Cardinality(Occ(p))
     \/ \E c \in Color, r \in Rank : Cardinality(Low(q, c, r)) < Cardinality(Low(p, c, r))

\* Subsets have no more squares.
LEMMA Counted ==
  ASSUME NEW S \in SUBSET Square
  PROVE  Cardinality(S) \in Nat /\ \A T \in SUBSET S : Cardinality(T) <= Cardinality(S)
<1>1. IsFiniteSet(S)
  BY SquaresFinite
<1> QED BY <1>1, FS_CardinalityType, FS_Subset

\* What is counted is finite.
LEMMA CountsAre ==
  ASSUME NEW p \in Position
  PROVE  /\ Cardinality(Occ(p)) \in Nat
         /\ \A c, r : Low(p, c, r) \in SUBSET Square /\ Cardinality(Low(p, c, r)) \in Nat
<1>1. Occ(p) \in SUBSET Square
  BY PositionTypes
<1>2. ASSUME NEW c, NEW r PROVE Low(p, c, r) \in SUBSET Square
  <2>1. Pieces(p, {"p"}, c) \in SUBSET Square
    BY PositionTypes
  <2> QED BY <2>1 DEF Low
<1> QED BY <1>1, <1>2, Counted

\* One element may come for another.
LEMMA SwappedOne ==
  ASSUME NEW S \in SUBSET Square, NEW a, NEW b \in Square, NEW T \in SUBSET ((S \ {a}) \cup {b}), b \in T => a \in S
  PROVE  Cardinality(T) <= Cardinality(S)
<1>1. IsFiniteSet(S) /\ Cardinality(S) \in Nat
  BY SquaresFinite, FS_CardinalityType
<1>2. CASE a \in S
  <2> DEFINE U == S \ {a}
  <2>1. IsFiniteSet(U) /\ Cardinality(U) = Cardinality(S) - 1
    BY <1>1, <1>2, FS_RemoveElement
  <2> HIDE DEF U
  <2>2. IsFiniteSet(U \cup {b}) /\ Cardinality(U \cup {b}) \in {Cardinality(U), Cardinality(U) + 1}
    BY <2>1, FS_AddElement
  <2>3. T \in SUBSET (U \cup {b})
    BY DEF U
  <2>4. IsFiniteSet(T) /\ Cardinality(T) <= Cardinality(U \cup {b})
    BY <2>2, <2>3, FS_Subset
  <2>5. Cardinality(T) \in Nat
    BY <2>4, FS_CardinalityType
  <2> QED BY <1>1, <2>1, <2>2, <2>4, <2>5
<1>3. CASE a \notin S
  <2>1. T \in SUBSET S
    BY <1>3
  <2> QED BY <1>1, <2>1, FS_Subset
<1> QED BY <1>2, <1>3

\* Two elements may come for two others.
LEMMA SwappedTwo ==
  ASSUME NEW S \in SUBSET Square, NEW a \in S, NEW b \in S, a # b, NEW c \in Square, NEW d \in Square,
         NEW T, T = (S \ {a, b}) \cup {c, d}
  PROVE  Cardinality(T) <= Cardinality(S)
<1> DEFINE U == S \ {a}
           V == U \ {b}
           W == V \cup {c}
           X == W \cup {d}
<1>0. IsFiniteSet(S) /\ Cardinality(S) \in Nat
  BY SquaresFinite, FS_CardinalityType
<1>1. IsFiniteSet(U) /\ Cardinality(U) = Cardinality(S) - 1 /\ b \in U
  BY <1>0, FS_RemoveElement
<1>2. T = X
  OBVIOUS
<1> HIDE DEF U
<1>3. IsFiniteSet(V) /\ Cardinality(V) = Cardinality(U) - 1
  BY <1>1, FS_RemoveElement
<1> HIDE DEF V
<1>4. IsFiniteSet(W) /\ Cardinality(W) \in {Cardinality(V), Cardinality(V) + 1}
  BY <1>3, FS_AddElement
<1> HIDE DEF W
<1>5. IsFiniteSet(X) /\ Cardinality(X) \in {Cardinality(W), Cardinality(W) + 1}
  BY <1>4, FS_AddElement
<1> HIDE DEF X
<1>6. Cardinality(V) \in Int /\ Cardinality(V) + 2 = Cardinality(S)
  BY <1>0, <1>1, <1>3
<1>7. Cardinality(W) \in Int /\ Cardinality(W) + 1 <= Cardinality(S)
  BY <1>0, <1>4, <1>6
<1>8. Cardinality(X) <= Cardinality(S)
  BY <1>0, <1>5, <1>7
<1> QED BY <1>2, <1>8

\* With one square less there are fewer.
LEMMA OneLess ==
  ASSUME NEW S \in SUBSET Square, NEW a \in S, NEW T \in SUBSET (S \ {a})
  PROVE  Cardinality(T) < Cardinality(S)
<1> DEFINE U == S \ {a}
<1>1. IsFiniteSet(S) /\ Cardinality(S) \in Nat
  BY SquaresFinite, FS_CardinalityType
<1>2. IsFiniteSet(U) /\ Cardinality(U) = Cardinality(S) - 1
  BY <1>1, FS_RemoveElement
<1>3. T \in SUBSET U
  OBVIOUS
<1> HIDE DEF U
<1>4. IsFiniteSet(T) /\ Cardinality(T) <= Cardinality(U)
  BY <1>2, <1>3, FS_Subset
<1>5. Cardinality(T) \in Nat
  BY <1>4, FS_CardinalityType
<1> QED BY <1>1, <1>2, <1>4, <1>5

\* A pawn that stays a pawn comes to a further rank.
LEMMA PawnAdvances ==
  ASSUME NEW p, Sound(p), NEW m \in LegalMoves(p), Travels(p, m), TypeOf(p.board[m.from]) = "p"
  PROVE  RelRank(RankOf(m.from), p.stm) < RelRank(RankOf(m.to), p.stm)
<1> DEFINE s == m.from
           t == m.to
           c == p.stm
<1>1. c \in Color /\ s \in Square /\ t \in Square /\ s \in Us(p, c) /\ p \in Position
  BY Sides DEF Travels, Ordinary
<1>2. KingMove(p, m) \/ CastlingMove(p, m) \/ OtherMove(p, m)
  <2>1. p.ep \in Int /\ p.stm \in Color /\ Pieces(p, {"p"}, p.stm) \in SUBSET Int
    BY Sides, PositionTypes DEF Square
  <2> QED BY <2>1, LegalShape
<1>3. s # OwnKing(p)
  <2>1. OwnKing(p) \in Pieces(p, {"k"}, c)
    BY Sides DEF OneKing, OwnKing
  <2> QED BY <2>1 DEF Pieces
<1>4. OtherMove(p, m)
  <2>1. ~KingMove(p, m)
    BY <1>3, KingOrdinary
  <2>2. ~CastlingMove(p, m)
    <3> SUFFICES ASSUME CastlingMove(p, m) PROVE FALSE
      OBVIOUS
    <3>1. m.from = OwnKing(p)
      BY DEF CastlingMove, Move
    <3> QED BY <1>3, <3>1
  <2> QED BY <1>2, <2>1, <2>2
<1>5. \/ PawnStep(c, s, t)
      \/ RankOf(t) = RankOf(s) + Up1(c)
      \/ RankOf(t) = RankOf(s) + 2 * Up1(c)
  <2>1. CASE PieceMoves(p, m)
    <3>1. PICK types \in {{"n"}, {"b"}, {"r"}, {"q"}} : m.from \in Pieces(p, types, p.stm)
      BY <2>1 DEF PieceMoves, PieceTo
    <3> QED BY <3>1 DEF Pieces
  <2>2. CASE PawnMoves1(p, m)
    <3>1. s \in Pieces(p, {"p"}, c) /\ PawnTo(p, s, t)
      BY <2>2 DEF PawnMoves1
    <3> HIDE DEF s, t
    <3> QED BY <3>1, PawnReach DEF c
  <2>3. CASE EpMoves1(p, m)
    BY <2>3 DEF EpMoves1
  <2> QED BY <1>4, <2>1, <2>2, <2>3, OtherIs
<1>6. RankOf(s) \in 0..7 /\ RankOf(t) \in 0..7
  BY <1>1, Coordinates
<1> HIDE DEF s, t, c
<1>7. RelRank(RankOf(s), c) < RelRank(RankOf(t), c)
  BY <1>1, <1>5, <1>6 DEF PawnStep, Up1, RelRank, Color, White, Black
<1> QED BY <1>7 DEF s, t, c

\* A move that is no castling adds no piece, and one that is irreversible wears.
LEMMA TravelWears ==
  ASSUME NEW p, Sound(p), NEW m \in LegalMoves(p), Travels(p, m)
  PROVE  /\ AtMost(MakeMove(p, m), p)
         /\ Irreversible(p, m) => Worn(MakeMove(p, m), p)
<1> DEFINE q == MakeMove(p, m)
           s == m.from
           t == m.to
           c == p.stm
           e == Other(c)
<1>1. /\ p \in Position /\ Ordinary(p, m) /\ c \in Color /\ e \in Color /\ s \in Square /\ t \in Square
      /\ s \in Us(p, c) /\ s \in Occ(p) /\ Occ(p) \in SUBSET Square /\ s # t
  BY Sides DEF Travels, Ordinary
<1>2. /\ Occ(q) = (Occ(p) \ Gone(m)) \cup {t}
      /\ Pieces(q, {"p"}, e) = Pieces(p, {"p"}, e) \ (Gone(m) \cup {t})
      /\ Pieces(q, {"p"}, c) = (Pieces(p, {"p"}, c) \ {s}) \cup {u \in {t} : TypeOf(Became(p, m)) \in {"p"}}
  <2>1. Occ(q) = (Occ(p) \ Gone(m)) \cup {t}
    BY <1>1, MadeBoard
  <2>2. \A types : /\ Pieces(q, types, Other(p.stm)) = Pieces(p, types, Other(p.stm)) \ (Gone(m) \cup {m.to})
                   /\ Pieces(q, types, p.stm) = (Pieces(p, types, p.stm) \ {m.from})
                                                \cup {u \in {m.to} : TypeOf(Became(p, m)) \in types}
    BY <1>1, MadePieces
  <2> HIDE DEF q
  <2> QED BY <2>1, <2>2
<1>3. s \in Gone(m)
  BY DEF Gone
<1>4. \A d \in Color : d = c \/ d = e
  BY <1>1, OtherColor
<1>5. TypeOf(Became(p, m)) = "p" => TypeOf(p.board[s]) = "p"
  BY <1>1 DEF Became, Ordinary, TypeOf
<1>6. TypeOf(p.board[s]) = "p" => RelRank(RankOf(s), c) < RelRank(RankOf(t), c)
  BY PawnAdvances
<1>7. s \in Pieces(p, {"p"}, c) <=> TypeOf(p.board[s]) = "p"
  BY <1>1 DEF Pieces, Us
<1>8. RelRank(RankOf(s), c) \in Rank /\ RelRank(RankOf(t), c) \in Rank
  <2>1. RankOf(s) \in 0..7 /\ RankOf(t) \in 0..7
    BY <1>1, Coordinates
  <2> QED BY <2>1 DEF RelRank, Rank
<1>9. IsCapture(p, m) => t \in Occ(p)
  BY DEF IsCapture
<1>10. IsPawn(p, s) <=> TypeOf(p.board[s]) = "p"
  BY DEF IsPawn
<1>11. \A d, r : Low(p, d, r) \in SUBSET Square
  BY <1>1, CountsAre
<1> HIDE DEF q, s, t, c, e
<1>12. Cardinality(Occ(q)) <= Cardinality(Occ(p))
  <2>1. Occ(q) \in SUBSET ((Occ(p) \ {s}) \cup {t})
    BY <1>2, <1>3
  <2> QED BY <1>1, <2>1, SwappedOne
<1>13. ASSUME NEW r \in Rank PROVE Cardinality(Low(q, c, r)) <= Cardinality(Low(p, c, r))
  <2>1. Low(q, c, r) \in SUBSET ((Low(p, c, r) \ {s}) \cup {t})
    BY <1>2 DEF Low
  <2>2. ASSUME t \in Low(q, c, r), t \notin Pieces(p, {"p"}, c) PROVE s \in Low(p, c, r)
    <3>1. TypeOf(p.board[s]) = "p" /\ RelRank(RankOf(t), c) <= r
      BY <1>2, <1>5, <2>2 DEF Low
    <3>2. r \in Int /\ RelRank(RankOf(s), c) \in Int /\ RelRank(RankOf(t), c) \in Int
      BY <1>8 DEF Rank
    <3>3. RelRank(RankOf(s), c) <= r
      BY <1>6, <3>1, <3>2
    <3> QED BY <1>7, <3>1, <3>3 DEF Low
  <2>3. t \notin Pieces(p, {"p"}, c)
    BY <1>1 DEF Ordinary, Pieces, Us, t, c
  <2> QED BY <1>1, <1>11, <2>1, <2>2, <2>3, SwappedOne
<1>14. ASSUME NEW r \in Rank PROVE Cardinality(Low(q, e, r)) <= Cardinality(Low(p, e, r))
  <2>1. Low(q, e, r) \in SUBSET Low(p, e, r)
    BY <1>2 DEF Low
  <2> QED BY <1>11, <2>1, Counted
<1>15. AtMost(q, p)
  BY <1>4, <1>12, <1>13, <1>14 DEF AtMost
<1>16. ASSUME IsCapture(p, m) PROVE Worn(q, p)
  <2>1. Occ(q) \in SUBSET (Occ(p) \ {s})
    BY <1>1, <1>2, <1>3, <1>9, <1>16
  <2>2. Cardinality(Occ(q)) < Cardinality(Occ(p))
    BY <1>1, <2>1, OneLess
  <2> QED BY <1>15, <2>2 DEF Worn
<1>17. ASSUME IsPawn(p, s) PROVE Worn(q, p)
  <2> DEFINE r == RelRank(RankOf(s), c)
  <2>0. r \in Rank /\ r \in Int /\ RelRank(RankOf(t), c) \in Int /\ r < RelRank(RankOf(t), c)
    BY <1>6, <1>8, <1>10, <1>17 DEF Rank
  <2>1. s \in Low(p, c, r)
    BY <1>7, <1>10, <1>17, <2>0 DEF Low
  <2> HIDE DEF r
  <2>2. t \notin Low(q, c, r)
    BY <2>0 DEF Low
  <2>3. Low(q, c, r) \in SUBSET (Low(p, c, r) \ {s})
    BY <1>1, <1>2, <2>2 DEF Low
  <2>4. Cardinality(Low(q, c, r)) < Cardinality(Low(p, c, r))
    BY <1>11, <2>1, <2>3, OneLess
  <2> QED BY <1>1, <1>15, <2>0, <2>4 DEF Worn
<1> QED BY <1>15, <1>16, <1>17 DEF Irreversible, q, s

\* Castling adds nothing and counts as reversible.
LEMMA CastleWears ==
  ASSUME NEW p, Sound(p), NEW m \in LegalMoves(p), NEW side \in Side, Castles(p, m, side)
  PROVE  AtMost(MakeMove(p, m), p) /\ ~Irreversible(p, m)
<1> DEFINE q == MakeMove(p, m)
           k == OwnKing(p)
           c == p.stm
           e == Other(c)
           kt == KingTo(side, c)
           rt == RookTo(side, c)
<1>1. /\ \A u : u \in Occ(q) <=> (u \in Occ(p) /\ u # k /\ u # m.to) \/ u = kt \/ u = rt
      /\ \A types : Pieces(q, types, e) = Pieces(p, types, e)
      /\ \A types, s : s \in Pieces(q, types, c) <=>
           \/ s \in Pieces(p, types, c) /\ s # k /\ s # m.to
           \/ s = kt /\ "k" \in types
           \/ s = rt /\ "r" \in types
  <2>1. AfterCastling(p, m, q, kt, rt)
    BY MadeCastle DEF Castles
  <2> HIDE DEF q, kt, rt
  <2> QED BY <2>1 DEF AfterCastling
<1>2. /\ m.kind = "castling" /\ m.from = k /\ m.to \in Pieces(p, {"r"}, c) /\ m.to # k
      /\ kt \in Square /\ rt \in Square
  BY DEF Castles, Exchanges
<1>3. /\ p \in Position /\ Occ(p) \in SUBSET Square /\ k \in Occ(p) /\ m.to \in Occ(p) /\ c \in Color
      /\ k \in Pieces(p, {"k"}, c)
  <2>1. p \in Position /\ OneKing(p) /\ c \in Color
    BY Sides
  <2>2. k \in Pieces(p, {"k"}, c)
    BY <2>1 DEF OneKing, OwnKing
  <2> HIDE DEF k, c
  <2> QED BY <1>2, <2>1, <2>2, PositionTypes DEF Pieces
<1>4. \A d \in Color : d = c \/ d = e
  BY <1>3, OtherColor
<1>5. ~Irreversible(p, m)
  BY <1>2, <1>3 DEF Irreversible, IsCapture, IsPawn, Pieces
<1>6. \A d, r : Low(p, d, r) \in SUBSET Square
  BY <1>3, CountsAre
<1> HIDE DEF q, k, c, e, kt, rt
<1>7. Occ(q) = (Occ(p) \ {k, m.to}) \cup {kt, rt}
  BY <1>1
<1>8. Cardinality(Occ(q)) <= Cardinality(Occ(p))
  BY <1>2, <1>3, <1>7, SwappedTwo
<1>9. ASSUME NEW d \in Color, NEW r \in Rank PROVE Cardinality(Low(q, d, r)) <= Cardinality(Low(p, d, r))
  <2>1. Pieces(q, {"p"}, d) \subseteq Pieces(p, {"p"}, d)
    BY <1>1, <1>4
  <2>2. Low(q, d, r) \in SUBSET Low(p, d, r)
    BY <2>1 DEF Low
  <2> QED BY <1>6, <2>2, Counted
<1>10. AtMost(q, p)
  BY <1>8, <1>9 DEF AtMost
<1> QED BY <1>5, <1>10 DEF q

\* A move adds nothing, and an irreversible one wears for good.
LEMMA MoveWears ==
  ASSUME NEW p, Sound(p), NEW m \in LegalMoves(p)
  PROVE  /\ AtMost(MakeMove(p, m), p)
         /\ Irreversible(p, m) => Worn(MakeMove(p, m), p)
BY LegalKinds, TravelWears, CastleWears

\* Wear adds up, and a position that is worn is another one.
LEMMA WearsOn ==
  ASSUME NEW p \in Position, NEW q \in Position, NEW r \in Position, AtMost(q, p), AtMost(r, q)
  PROVE  /\ AtMost(r, p)
         /\ Worn(q, p) => Worn(r, p)
         /\ Worn(r, q) => Worn(r, p)
         /\ AtMost(p, p)
         /\ Worn(r, p) => r # p
<1>1. /\ Cardinality(Occ(p)) \in Nat /\ Cardinality(Occ(q)) \in Nat /\ Cardinality(Occ(r)) \in Nat
      /\ \A c, n : Cardinality(Low(p, c, n)) \in Nat /\ Cardinality(Low(q, c, n)) \in Nat /\ Cardinality(Low(r, c, n)) \in Nat
  BY CountsAre
<1>2. AtMost(r, p)
  <2>1. Cardinality(Occ(r)) <= Cardinality(Occ(p))
    BY <1>1 DEF AtMost
  <2>2. ASSUME NEW c \in Color, NEW n \in Rank PROVE Cardinality(Low(r, c, n)) <= Cardinality(Low(p, c, n))
    BY <1>1 DEF AtMost
  <2> QED BY <2>1, <2>2 DEF AtMost
<1>3. ASSUME Worn(q, p) \/ Worn(r, q) PROVE Worn(r, p)
  <2>1. CASE Cardinality(Occ(q)) < Cardinality(Occ(p)) \/ Cardinality(Occ(r)) < Cardinality(Occ(q))
    <3>1. Cardinality(Occ(r)) < Cardinality(Occ(p))
      BY <1>1, <2>1 DEF AtMost
    <3> QED BY <1>2, <3>1 DEF Worn
  <2>2. CASE \E c \in Color, n \in Rank : \/ Cardinality(Low(q, c, n)) < Cardinality(Low(p, c, n))
                                          \/ Cardinality(Low(r, c, n)) < Cardinality(Low(q, c, n))
    <3>1. PICK c \in Color, n \in Rank : \/ Cardinality(Low(q, c, n)) < Cardinality(Low(p, c, n))
                                         \/ Cardinality(Low(r, c, n)) < Cardinality(Low(q, c, n))
      BY <2>2
    <3>2. Cardinality(Low(r, c, n)) < Cardinality(Low(p, c, n))
      BY <1>1, <3>1 DEF AtMost
    <3> QED BY <1>2, <3>2 DEF Worn
  <2> QED BY <1>3, <2>1, <2>2 DEF Worn
<1>4. AtMost(p, p)
  BY <1>1 DEF AtMost
<1>5. ASSUME Worn(r, p), r = p PROVE FALSE
  BY <1>1, <1>5 DEF Worn
<1> QED BY <1>2, <1>3, <1>4, <1>5

\* q may come later in a game than p, with the same key.
Later(p, q) ==
  /\ q.frc = p.frc /\ q.path = p.path
  /\ \A right \in Right : q.cr[right] \in {p.cr[right], NoFile}

\* Boards of the same features are one.
LEMMA SameFeatures ==
  ASSUME NEW p \in Position, NEW q \in Position,
         \A x : x \in Features(p.board) <=> x \in Features(q.board)
  PROVE  p.board = q.board
<1>1. p.board \in [Occ(p) -> Piece] /\ q.board \in [Occ(q) -> Piece] /\ Occ(p) = DOMAIN p.board /\ Occ(q) = DOMAIN q.board
  BY PositionTypes DEF Occ
<1>2. ASSUME NEW s \in DOMAIN p.board PROVE s \in DOMAIN q.board /\ p.board[s] = q.board[s]
  <2>1. <<"piece", p.board[s], s>> \in Features(q.board)
    BY FeatureIs
  <2>2. PICK t \in DOMAIN q.board : <<"piece", p.board[s], s>> = <<"piece", q.board[t], t>>
    BY <2>1, FeatureIs
  <2> QED BY <2>2
<1>3. ASSUME NEW s \in DOMAIN q.board PROVE s \in DOMAIN p.board
  <2>1. <<"piece", q.board[s], s>> \in Features(p.board)
    BY FeatureIs
  <2>2. PICK t \in DOMAIN p.board : <<"piece", q.board[s], s>> = <<"piece", p.board[t], t>>
    BY <2>1, FeatureIs
  <2> QED BY <2>2
<1>4. DOMAIN p.board = DOMAIN q.board
  BY <1>2, <1>3
<1> QED BY <1>1, <1>2, <1>4

\* Of the positions of a game, two with the same key are the same.
LEMMA SameKey ==
  ASSUME NEW p, Sound(p), NEW q, Sound(q), Later(p, q), Zobrist(p) = Zobrist(q)
  PROVE  p = q
<1> DEFINE Z(r) == Features(r.board) \cup EpKey(r.ep) \cup RightKeys(RightsOn(r)) \cup IF r.stm = White THEN StmKey ELSE {}
<1>1. Zobrist(p) = Z(p) /\ Zobrist(q) = Z(q)
  BY DEF Zobrist, RightsOn
<1>2. p \in Position /\ q \in Position /\ p.stm \in Color /\ q.stm \in Color
  BY Sides
<1>3. ASSUME NEW x
      PROVE  /\ x \in Features(p.board) <=> x \in Features(q.board)
             /\ x \in EpKey(p.ep) <=> x \in EpKey(q.ep)
             /\ x \in RightKeys(RightsOn(p)) <=> x \in RightKeys(RightsOn(q))
             /\ (p.stm = White /\ x \in StmKey) <=> (q.stm = White /\ x \in StmKey)
  <2>1. x \in Z(p) <=> x \in Z(q)
    BY <1>1
  <2>2. /\ x \in Z(p) <=> x \in Features(p.board) \/ x \in EpKey(p.ep) \/ x \in RightKeys(RightsOn(p)) \/ (p.stm = White /\ x \in StmKey)
        /\ x \in Z(q) <=> x \in Features(q.board) \/ x \in EpKey(q.ep) \/ x \in RightKeys(RightsOn(q)) \/ (q.stm = White /\ x \in StmKey)
    OBVIOUS
  <2> HIDE DEF Z
  <2>3. /\ x \in Features(p.board) \/ x \in Features(q.board) => x[1] = "piece"
        /\ x \in EpKey(p.ep) \/ x \in EpKey(q.ep) => x[1] = "enpassant"
        /\ x \in RightKeys(RightsOn(p)) \/ x \in RightKeys(RightsOn(q)) => x[1] = "castling"
        /\ x \in StmKey => x[1] = "stm"
    BY Tags
  <2> QED BY <2>1, <2>2, <2>3
<1>4. p.board = q.board
  BY <1>2, <1>3, SameFeatures
<1>5. p.stm = q.stm
  <2>1. <<"stm">> \in StmKey
    BY DEF StmKey
  <2>2. p.stm = White <=> q.stm = White
    BY <1>3, <2>1
  <2> QED BY <1>2, <2>2 DEF Color
<1>6. p.cr = q.cr
  <2>1. p.cr \in [Right -> File \cup {NoFile}] /\ q.cr \in [Right -> File \cup {NoFile}]
    BY <1>2 DEF Position
  <2>2. ASSUME NEW right \in Right PROVE p.cr[right] = q.cr[right]
    <3>1. \A S : <<"castling", right>> \in RightKeys(S) <=> right \in S
      BY DEF RightKeys
    <3>2. right \in RightsOn(p) <=> right \in RightsOn(q)
      BY <1>3, <3>1
    <3> QED BY <3>2 DEF RightsOn, Later
  <2> QED BY <2>1, <2>2
<1>7. p.ep = q.ep
  <2>1. p.ep \in Square \cup {NoSq} /\ q.ep \in Square \cup {NoSq}
    BY <1>2, PositionTypes
  <2>2. p.ep = NoSq <=> q.ep = NoSq
    <3>1. \A ep : ep # NoSq => <<"enpassant", FileOf(ep)>> \in EpKey(ep)
      BY DEF EpKey
    <3>2. \A ep : ep = NoSq => EpKey(ep) = {}
      BY DEF EpKey
    <3> QED BY <1>3, <3>1, <3>2
  <2>3. CASE p.ep # NoSq
    <3>1. p.ep \in Square /\ q.ep \in Square /\ q.ep # NoSq
      BY <2>1, <2>2, <2>3
    <3>2. RankOf(p.ep) = RankOf(q.ep)
      BY <1>5, <2>3, <3>1 DEF Sound, EpHeld
    <3>3. <<"enpassant", FileOf(p.ep)>> \in EpKey(q.ep)
      <4>1. <<"enpassant", FileOf(p.ep)>> \in EpKey(p.ep)
        BY <2>3 DEF EpKey
      <4> QED BY <1>3, <4>1
    <3>4. FileOf(p.ep) = FileOf(q.ep)
      BY <3>1, <3>3 DEF EpKey
    <3> QED BY <3>1, <3>2, <3>4, SameSquare
  <2> QED BY <2>2, <2>3
<1> QED BY <1>2, <1>4, <1>5, <1>6, <1>7, FieldsSame DEF Later

----------------------------------------
(* Two positions of a game *)

PosAt(stack, p, i) == IF i = Len(stack) + 1 THEN p ELSE stack[i].pos
AgeAt(stack, h, i) == IF i = Len(stack) + 1 THEN h ELSE stack[i].state.hfm

\* What a move or a pass does to the clock.
AgeAfter(e) == IF e.move = NullMove THEN e.state.hfm ELSE Ticked(e.pos, e.move, e.state.hfm)
Aged(stack, h) == \A i \in 1..Len(stack) : AgeAt(stack, h, i + 1) = AgeAfter(stack[i])

\* Before the j-th position a pass was made, or the clock went round since the
\* last irreversible move: it need not count the moves any more.
Passed(stack, j) == \E k \in 1..j - 1 : stack[k].move = NullMove
Turned(stack, j) ==
  \E k \in 1..j - 1 :
    /\ stack[k].state.hfm = ClockSize - 1
    /\ \A l \in k..j - 1 : ~Irreversible(stack[l].pos, stack[l].move)
Astray(stack, j) == Passed(stack, j) \/ Turned(stack, j)

\* q, with clock h, comes n moves and passes after p; the clock counts them
\* unless it is astray.
Follows(p, q, h, n, astray) ==
  /\ Sound(q) /\ AtMost(q, p) /\ Later(p, q) /\ h \in Clock
  /\ q.stm = p.stm <=> n % 2 = 0
  /\ h >= n \/ Worn(q, p) \/ astray

\* A position follows itself at no distance.
LEMMA FollowsItself ==
  ASSUME NEW p, Sound(p), NEW h \in Clock, NEW astray
  PROVE  Follows(p, p, h, 0, astray)
<1>1. p \in Position /\ AtMost(p, p)
  BY Sides, CountsAre DEF AtMost
<1>2. Later(p, p)
  BY DEF Later
<1>3. h >= 0
  BY DEF Clock
<1> QED BY <1>1, <1>2, <1>3 DEF Follows

\* A move leads one further.
LEMMA FollowsOn ==
  ASSUME NEW p, Sound(p), NEW q, NEW h, NEW n \in Nat, NEW m \in LegalMoves(q),
         NEW before, Follows(p, q, h, n, before),
         NEW after, ~Irreversible(q, m) /\ (before \/ h = ClockSize - 1) => after
  PROVE  Follows(p, MakeMove(q, m), Ticked(q, m, h), n + 1, after)
<1> DEFINE r == MakeMove(q, m)
           g == Ticked(q, m, h)
<1>1. /\ Sound(q) /\ AtMost(q, p) /\ Later(p, q) /\ h \in Clock
      /\ q.stm = p.stm <=> n % 2 = 0
      /\ h >= n \/ Worn(q, p) \/ before
  BY DEF Follows
<1>2. Sound(r) /\ AtMost(r, q) /\ (Irreversible(q, m) => Worn(r, q))
  BY <1>1, MoveSound, MoveWears
<1>3. /\ p \in Position /\ q \in Position /\ r \in Position
      /\ p.stm \in Color /\ q.stm \in Color
  BY <1>1, <1>2, Sides
<1>4. /\ r.stm = Other(q.stm) /\ r.frc = q.frc /\ r.path = q.path
      /\ r.cr = [right \in Right |-> IF right \in RightsLost(q, m) THEN NoFile ELSE q.cr[right]]
  <2>1. q \in Position
    BY <1>3
  <2> QED BY <2>1, MadeFields
<1> HIDE DEF r
<1>5. AtMost(r, p) /\ (Worn(q, p) => Worn(r, p)) /\ (Worn(r, q) => Worn(r, p))
  BY <1>1, <1>2, <1>3, WearsOn
<1>6. Later(p, r)
  BY <1>1, <1>4 DEF Later
<1>7. r.stm = p.stm <=> (n + 1) % 2 = 0
  <2>1. (n + 1) % 2 = 0 <=> n % 2 # 0
    OBVIOUS
  <2>2. q.stm = p.stm <=> r.stm # p.stm
    BY <1>3, <1>4 DEF Other, Color, White, Black
  <2> QED BY <1>1, <2>1, <2>2
<1>8. g \in Clock /\ (g >= n + 1 \/ Worn(r, p) \/ after)
  <2>1. /\ h \in Nat /\ g \in Clock
        /\ ~Irreversible(q, m) /\ h # ClockSize - 1 => g = h + 1
    BY <1>1, ClockRuns
  <2> HIDE DEF g
  <2>2. CASE Irreversible(q, m)
    BY <1>2, <1>5, <2>1, <2>2
  <2>3. CASE ~Irreversible(q, m) /\ h = ClockSize - 1
    BY <2>1, <2>3
  <2>4. CASE ~Irreversible(q, m) /\ h # ClockSize - 1
    <3>1. g = h + 1 /\ (h >= n => g >= n + 1)
      BY <2>1, <2>4
    <3> QED BY <1>1, <1>5, <2>1, <2>4, <3>1
  <2> QED BY <2>2, <2>3, <2>4
<1> QED BY <1>2, <1>5, <1>6, <1>7, <1>8 DEF Follows, r

\* So does a pass, which the clock does not count.
LEMMA FollowsPass ==
  ASSUME NEW p, Sound(p), NEW q, NEW h, NEW n \in Nat, NEW before, Follows(p, q, h, n, before), ~InCheck(q)
  PROVE  Follows(p, MakeNullMove(q), h, n + 1, TRUE)
<1> DEFINE r == MakeNullMove(q)
<1>1. /\ Sound(q) /\ AtMost(q, p) /\ Later(p, q) /\ h \in Clock
      /\ q.stm = p.stm <=> n % 2 = 0
  BY DEF Follows
<1>2. Sound(r)
  BY <1>1, PassSound
<1>3. /\ p \in Position /\ q \in Position /\ r \in Position
      /\ p.stm \in Color /\ q.stm \in Color
  BY <1>1, <1>2, Sides
<1>4. r.board = q.board /\ r.stm = Other(q.stm) /\ r.frc = q.frc /\ r.path = q.path /\ r.cr = q.cr
  BY <1>3 DEF MakeNullMove, Position
<1> HIDE DEF r
<1>5. AtMost(r, p)
  <2>1. Occ(r) = Occ(q) /\ \A c, k : Low(r, c, k) = Low(q, c, k)
    BY <1>4 DEF Occ, Low, Pieces
  <2> QED BY <1>1, <2>1 DEF AtMost
<1>6. Later(p, r)
  BY <1>1, <1>4 DEF Later
<1>7. r.stm = p.stm <=> (n + 1) % 2 = 0
  <2>1. (n + 1) % 2 = 0 <=> n % 2 # 0
    OBVIOUS
  <2>2. q.stm = p.stm <=> r.stm # p.stm
    BY <1>3, <1>4 DEF Other, Color, White, Black
  <2> QED BY <1>1, <2>1, <2>2
<1> QED BY <1>1, <1>2, <1>5, <1>6, <1>7 DEF Follows, r

\* What leads the clock astray, from one position to the next.
LEMMA AstrayOn ==
  ASSUME NEW stack, NEW j \in Nat \ {0}
  PROVE  /\ Astray(stack, j) /\ ~Irreversible(stack[j].pos, stack[j].move) => Astray(stack, j + 1)
         /\ stack[j].state.hfm = ClockSize - 1 /\ ~Irreversible(stack[j].pos, stack[j].move)
              => Astray(stack, j + 1)
         /\ stack[j].move = NullMove => Astray(stack, j + 1)
<1> DEFINE Still(l) == ~Irreversible(stack[l].pos, stack[l].move)
<1>1. 1..(j + 1) - 1 = 1..j /\ \A k : k..(j + 1) - 1 = k..j
  OBVIOUS
<1>2. \A k \in 1..j - 1 : k \in 1..j /\ \A l \in k..j : l \in k..j - 1 \/ l = j
  OBVIOUS
<1>3. j \in 1..j /\ \A l \in j..j : l = j
  OBVIOUS
<1>4. Passed(stack, j) => Passed(stack, j + 1)
  BY <1>1, <1>2 DEF Passed
<1>5. stack[j].move = NullMove => Passed(stack, j + 1)
  BY <1>1, <1>3 DEF Passed
<1>6. ASSUME Turned(stack, j), Still(j) PROVE Turned(stack, j + 1)
  <2>1. PICK k \in 1..j - 1 : /\ stack[k].state.hfm = ClockSize - 1
                             /\ \A l \in k..j - 1 : Still(l)
    BY <1>6 DEF Turned
  <2> HIDE DEF Still
  <2>2. k \in 1..j /\ \A l \in k..j : Still(l)
    BY <1>2, <1>6, <2>1
  <2> QED BY <1>1, <2>1, <2>2 DEF Turned, Still
<1>7. ASSUME stack[j].state.hfm = ClockSize - 1, Still(j) PROVE Turned(stack, j + 1)
  BY <1>1, <1>3, <1>7 DEF Turned
<1> QED BY <1>4, <1>5, <1>6, <1>7 DEF Astray

\* Every position of a game follows the earlier ones.
LEMMA GameFollows ==
  ASSUME NEW stack, NEW p, NEW h \in Clock, Chain(stack, p), Aged(stack, h), Sound(p),
         NEW i \in 1..Len(stack)
  PROVE  Follows(stack[i].pos, p, h, Len(stack) + 1 - i, Astray(stack, Len(stack) + 1))
<1> DEFINE n == Len(stack)
           P(j) == PosAt(stack, p, j)
           H(j) == AgeAt(stack, h, j)
           Bad == {j \in i..n + 1 : ~Follows(P(i), P(j), H(j), j - i, Astray(stack, j))}
<1>1. n \in Nat /\ i \in 1..n
  BY SequenceOfRange DEF Chain
<1>2. ASSUME NEW j \in 1..n
      PROVE  /\ Sound(P(j)) /\ H(j) \in Clock /\ P(j) = stack[j].pos /\ H(j) = stack[j].state.hfm
             /\ \/ /\ stack[j].move \in LegalMoves(P(j))
                   /\ P(j + 1) = MakeMove(P(j), stack[j].move)
                   /\ H(j + 1) = Ticked(P(j), stack[j].move, H(j))
                \/ /\ stack[j].move = NullMove /\ ~InCheck(P(j))
                   /\ P(j + 1) = MakeNullMove(P(j)) /\ H(j + 1) = H(j)
  <2>1. P(j) = stack[j].pos /\ H(j) = stack[j].state.hfm
    BY <1>1 DEF PosAt, AgeAt
  <2>2. P(j + 1) = PosAfter(stack, p, j)
    BY <1>1 DEF PosAt, PosAfter
  <2>3. Led(stack[j], P(j + 1))
    BY <2>2 DEF Chain
  <2>4. H(j + 1) = AgeAfter(stack[j])
    BY DEF Aged
  <2> HIDE DEF P, H
  <2>5. stack[j].state.hfm \in Clock
    BY <2>3, LedBack
  <2>6. PICK k \in Clock : LedBy(stack[j], k, P(j + 1))
    BY <2>3 DEF Led
  <2>7. Sound(stack[j].pos)
    BY <2>3 DEF Led
  <2>8. CASE stack[j].move = NullMove
    <3>1. stack[j].move \notin LegalMoves(stack[j].pos)
      BY <2>7, <2>8, NoLegalPass
    <3>2. ~InCheck(stack[j].pos) /\ P(j + 1) = MakeNullMove(stack[j].pos)
      BY <2>6, <3>1 DEF LedBy
    <3>3. H(j + 1) = stack[j].state.hfm
      BY <2>4, <2>8 DEF AgeAfter
    <3> QED BY <2>1, <2>5, <2>7, <2>8, <3>2, <3>3
  <2>9. CASE stack[j].move # NullMove
    <3>1. stack[j].move \in LegalMoves(stack[j].pos) /\ P(j + 1) = MakeMove(stack[j].pos, stack[j].move)
      BY <2>6, <2>9 DEF LedBy
    <3>2. H(j + 1) = Ticked(stack[j].pos, stack[j].move, stack[j].state.hfm)
      BY <2>4, <2>9 DEF AgeAfter
    <3> QED BY <2>1, <2>5, <2>7, <3>1, <3>2
  <2> QED BY <2>8, <2>9
<1>3. P(n + 1) = p /\ H(n + 1) = h /\ P(i) = stack[i].pos
  BY <1>1 DEF PosAt, AgeAt
<1> HIDE DEF P, H, n
<1>4. ASSUME Bad # {} PROVE FALSE
  <2>1. Bad \in SUBSET Nat
    BY <1>1
  <2> DEFINE x == Min(Bad)
  <2>2. x \in Bad /\ \A y \in Bad : x <= y
    <3> HIDE DEF Bad
    <3> QED BY <1>4, <2>1, SmallestIn
  <2> HIDE DEF x
  <2>3. x \in i..n + 1 /\ ~Follows(P(i), P(x), H(x), x - i, Astray(stack, x))
    BY <2>2
  <2>4. x # i
    <3>1. i - i = 0
      BY <1>1
    <3>2. Follows(P(i), P(i), H(i), 0, Astray(stack, i))
      BY <1>1, <1>2, FollowsItself
    <3> QED BY <2>3, <3>1, <3>2
  <2>5. x - 1 \in i..n /\ x - 1 \in 1..n /\ (x - 1) + 1 = x /\ x - 1 \notin Bad /\ (x - 1) - i \in Nat
        /\ ((x - 1) - i) + 1 = x - i /\ x - 1 \in i..n + 1
    BY <1>1, <2>2, <2>3, <2>4
  <2> DEFINE j == x - 1
  <2>6. Follows(P(i), P(j), H(j), j - i, Astray(stack, j))
    BY <2>5
  <2>7. j \in 1..n /\ j + 1 = x /\ j - i \in Nat /\ (j - i) + 1 = x - i /\ Sound(P(i))
    BY <1>1, <1>2, <2>5
  <2> HIDE DEF j
  <2>8. j \in Nat \ {0}
    BY <1>1, <2>7
  <2>9. /\ Astray(stack, j) /\ ~Irreversible(P(j), stack[j].move) => Astray(stack, x)
        /\ H(j) = ClockSize - 1 /\ ~Irreversible(P(j), stack[j].move) => Astray(stack, x)
        /\ stack[j].move = NullMove => Astray(stack, x)
    BY <1>2, <2>7, <2>8, AstrayOn
  <2>10. CASE /\ stack[j].move \in LegalMoves(P(j))
              /\ P(j + 1) = MakeMove(P(j), stack[j].move)
              /\ H(j + 1) = Ticked(P(j), stack[j].move, H(j))
    <3>1. Follows(P(i), MakeMove(P(j), stack[j].move), Ticked(P(j), stack[j].move, H(j)), (j - i) + 1, Astray(stack, x))
      <4>1. ~Irreversible(P(j), stack[j].move) /\ (Astray(stack, j) \/ H(j) = ClockSize - 1) => Astray(stack, x)
        BY <2>9
      <4>2. Sound(P(i)) /\ j - i \in Nat /\ stack[j].move \in LegalMoves(P(j))
        BY <2>7, <2>10
      <4> QED BY <2>6, <4>1, <4>2, FollowsOn, Zenon
    <3> QED BY <2>3, <2>7, <2>10, <3>1
  <2>11. CASE /\ stack[j].move = NullMove /\ ~InCheck(P(j))
              /\ P(j + 1) = MakeNullMove(P(j)) /\ H(j + 1) = H(j)
    <3>1. Follows(P(i), MakeNullMove(P(j)), H(j), (j - i) + 1, TRUE)
      BY <2>6, <2>7, <2>11, FollowsPass
    <3>2. Follows(P(i), P(x), H(x), x - i, TRUE)
      BY <2>7, <2>11, <3>1
    <3>3. Astray(stack, x)
      BY <2>9, <2>11
    <3> QED BY <2>3, <3>2, <3>3 DEF Follows
  <2> QED BY <1>2, <2>7, <2>10, <2>11
<1>5. Follows(P(i), P(n + 1), H(n + 1), (n + 1) - i, Astray(stack, n + 1))
  <2>1. n + 1 \in i..n + 1
    BY <1>1
  <2> QED BY <1>4, <2>1
<1> QED BY <1>3, <1>5 DEF n

\* The clock is right after a move.
LEMMA AgedGrows ==
  ASSUME NEW stack, NEW p, Chain(stack, p), NEW h, Aged(stack, h),
         NEW e, e.state.hfm = h, NEW g, g = AgeAfter(e)
  PROVE  Aged(Append(stack, e), g)
<1> DEFINE S == Range(stack) \cup {e}
           longer == Append(stack, e)
           n == Len(stack)
<1>1. stack \in Seq(S) /\ e \in S
  BY DEF Chain
<1>2. /\ Len(longer) = n + 1 /\ n \in Nat
      /\ \A i \in 1..n : longer[i] = stack[i]
      /\ longer[n + 1] = e
  BY <1>1
<1> HIDE DEF longer, S
<1>3. ASSUME NEW i \in 1..n + 1
      PROVE  AgeAt(longer, g, i + 1) = AgeAfter(longer[i])
  <2>1. CASE i = n + 1
    BY <1>2, <2>1 DEF AgeAt
  <2>2. CASE i = n
    <3>1. AgeAt(longer, g, i + 1) = h /\ longer[i] = stack[i] /\ AgeAt(stack, h, i + 1) = h
      BY <1>2, <2>2 DEF AgeAt
    <3> QED BY <1>2, <2>2, <3>1 DEF Aged
  <2>3. CASE i < n
    <3>1. /\ AgeAt(longer, g, i + 1) = stack[i + 1].state.hfm /\ longer[i] = stack[i]
          /\ AgeAt(stack, h, i + 1) = stack[i + 1].state.hfm
      BY <1>2, <2>3 DEF AgeAt
    <3> QED BY <1>2, <2>3, <3>1 DEF Aged
  <2> QED BY <1>2, <2>1, <2>2, <2>3
<1> QED BY <1>2, <1>3 DEF Aged, longer

\* The clock is right after taking back.
LEMMA AgedShrinks ==
  ASSUME NEW stack, NEW p, Chain(stack, p), NEW h, Aged(stack, h), stack # <<>>
  PROVE  Aged(Front(stack), Last(stack).state.hfm)
<1> DEFINE n == Len(stack)
           front == Front(stack)
<1>1. stack \in Seq(Range(stack)) /\ n \in Nat /\ n > 0 /\ Last(stack) = stack[n]
  BY DEF Chain, Last
<1>2. Len(front) = n - 1 /\ \A i \in 1..n - 1 : front[i] = stack[i]
  BY <1>1, BeforeLast
<1> HIDE DEF front
<1>3. ASSUME NEW i \in 1..n - 1
      PROVE  AgeAt(front, Last(stack).state.hfm, i + 1) = AgeAfter(front[i])
  <2>1. AgeAt(stack, h, i + 1) = stack[i + 1].state.hfm
    BY <1>1 DEF AgeAt
  <2>2. AgeAt(front, Last(stack).state.hfm, i + 1) = stack[i + 1].state.hfm
    BY <1>1, <1>2 DEF AgeAt
  <2>3. AgeAt(stack, h, i + 1) = AgeAfter(stack[i])
    BY <1>1 DEF Aged
  <2> QED BY <1>2, <2>1, <2>2, <2>3
<1> QED BY <1>2, <1>3 DEF Aged, front

\* The clock is what the moves since the last irreversible one made it.
Lived == Played /\ Aged(prev_states, hfm)

\* The clock of no moves is right.
LEMMA AgedEmpty ==
  ASSUME NEW h
  PROVE  Aged(<<>>, h)
BY DEF Aged

\* A move keeps the clock.
LEMMA MakeLived ==
  ASSUME Lived, NEW m \in LegalMoves(pos), Make(m)
  PROVE  Aged(prev_states', hfm')
<1> DEFINE e == [state |-> StateOf(pos, hfm, IF m = NullMove THEN None ELSE CapturedBy(pos, m)),
                 key |-> key, move |-> m, pos |-> pos]
<1>1. Sound(pos) /\ Chain(prev_states, pos) /\ Aged(prev_states, hfm)
  BY DEF Lived, Played
<1>2. m # NullMove
  BY <1>1, NoLegalPass
<1>3. e.pos = pos /\ e.move = m /\ e.state.hfm = hfm
  BY DEF StateOf
<1>4. prev_states' = Append(prev_states, e) /\ hfm' = Ticked(pos, m, hfm)
  BY DEF Make, Pushed
<1> HIDE DEF e
<1>5. AgeAfter(e) = Ticked(pos, m, hfm)
  BY <1>2, <1>3 DEF AgeAfter
<1> QED BY <1>1, <1>3, <1>4, <1>5, AgedGrows

\* A pass keeps the clock.
LEMMA PassLived ==
  ASSUME Lived, Pass
  PROVE  Aged(prev_states', hfm')
<1> DEFINE e == [state |-> StateOf(pos, hfm, IF NullMove = NullMove THEN None ELSE CapturedBy(pos, NullMove)),
                 key |-> key, move |-> NullMove, pos |-> pos]
<1>1. Chain(prev_states, pos) /\ Aged(prev_states, hfm)
  BY DEF Lived, Played
<1>2. e.move = NullMove /\ e.state.hfm = hfm
  BY DEF StateOf
<1>3. prev_states' = Append(prev_states, e) /\ hfm' = hfm
  BY DEF Pass, Pushed
<1> HIDE DEF e
<1>4. AgeAfter(e) = hfm
  BY <1>2 DEF AgeAfter
<1> QED BY <1>1, <1>2, <1>3, <1>4, AgedGrows

\* Taking back keeps the clock.
LEMMA UnmakeLived ==
  ASSUME Lived, Unmake \/ UnmakePass
  PROVE  Aged(prev_states', hfm')
<1>1. Chain(prev_states, pos) /\ Aged(prev_states, hfm)
  BY DEF Lived, Played
<1>2. prev_states # <<>> /\ prev_states' = Front(prev_states) /\ hfm' = Last(prev_states).state.hfm
  BY DEF Unmake, UnmakePass
<1> QED BY <1>1, <1>2, AgedShrinks

\* Every step keeps the clock.
LEMMA StepLived ==
  ASSUME Lived, [Next]_vars
  PROVE  Lived'
<1>1. Played'
  BY StepPlayed DEF Lived
<1>2. Aged(prev_states', hfm')
  <2>1. CASE \E m \in LegalMoves(pos) : Make(m)
    BY <2>1, MakeLived
  <2>2. CASE Unmake \/ UnmakePass
    BY <2>2, UnmakeLived
  <2>3. CASE Pass
    BY <2>3, PassLived
  <2>4. CASE Reload
    <3>1. prev_states' = <<>>
      BY <2>4 DEF Reload, Fresh
    <3> QED BY <3>1, AgedEmpty
  <2>5. CASE UNCHANGED vars
    BY <2>5 DEF vars, Lived
  <2> QED BY <2>1, <2>2, <2>3, <2>4, <2>5 DEF Next
<1> QED BY <1>1, <1>2 DEF Lived

\* What isRepetition counts are earlier occurrences, and all of them unless the
\* clock is astray.
LEMMA RepetitionIs ==
  ASSUME Lived, NEW n \in 1..2
  PROVE  LET keys == [i \in DOMAIN prev_states |-> prev_states[i].key]
             passed == \E i \in DOMAIN prev_states : prev_states[i].move = NullMove
             occurred == Cardinality({i \in DOMAIN prev_states : prev_states[i].pos = pos}) >= n
         IN /\ IsRepetition(key, keys, hfm, n) => occurred
            /\ occurred => IsRepetition(key, keys, hfm, n) \/ passed \/ WentRound
<1> DEFINE L == Len(prev_states)
           keys == [i \in DOMAIN prev_states |-> prev_states[i].key]
           passed == \E i \in DOMAIN prev_states : prev_states[i].move = NullMove
           found == {i \in DOMAIN keys : /\ (Len(keys) - i) % 2 = 1 /\ i > Len(keys) - hfm - 1 /\ keys[i] = key}
           occurs == {i \in DOMAIN prev_states : prev_states[i].pos = pos}
<1>1. /\ Sound(pos) /\ key = Zobrist(pos) /\ hfm \in Clock /\ hfm \in Nat
      /\ Chain(prev_states, pos) /\ Aged(prev_states, hfm)
  BY DEF Lived, Played, Clock
<1>2. L \in Nat /\ DOMAIN prev_states = 1..L
  BY <1>1, LenProperties DEF Chain
<1>3. DOMAIN keys = 1..L /\ Len(keys) = L /\ \A i \in 1..L : keys[i] = prev_states[i].key
  <2> DEFINE K == {prev_states[i].key : i \in 1..L}
  <2>1. keys = [i \in 1..L |-> prev_states[i].key]
    BY <1>2
  <2>2. keys \in [1..L -> K]
    BY <2>1
  <2>3. keys \in Seq(K)
    <3> HIDE DEF keys, K, L
    <3> QED BY <1>2, <2>2
  <2>4. DOMAIN keys = 1..L /\ DOMAIN keys = 1..Len(keys) /\ Len(keys) \in Nat
    <3> HIDE DEF keys, K
    <3> QED BY <2>2, <2>3, LenProperties
  <2>5. Len(keys) = L
    <3> HIDE DEF keys
    <3> QED BY <1>2, <2>4
  <2> QED BY <2>1, <2>4, <2>5
<1>4. Astray(prev_states, L + 1) <=> passed \/ WentRound
  <2>1. (L + 1) - 1 = L
    BY <1>2
  <2>2. Passed(prev_states, L + 1) <=> passed
    BY <1>2, <2>1 DEF Passed
  <2>3. Turned(prev_states, L + 1) <=> WentRound
    BY <1>2, <2>1 DEF Turned, WentRound
  <2> QED BY <2>2, <2>3 DEF Astray
<1>5. ASSUME NEW i \in 1..L
      PROVE  /\ Sound(prev_states[i].pos) /\ prev_states[i].key = Zobrist(prev_states[i].pos)
             /\ Follows(prev_states[i].pos, pos, hfm, L + 1 - i, Astray(prev_states, L + 1))
  <2>1. Led(prev_states[i], PosAfter(prev_states, pos, i))
    BY <1>1 DEF Chain
  <2>2. Sound(prev_states[i].pos) /\ prev_states[i].key = Zobrist(prev_states[i].pos)
    BY <2>1 DEF Led
  <2>3. Follows(prev_states[i].pos, pos, hfm, L + 1 - i, Astray(prev_states, L + 1))
    BY <1>1, GameFollows
  <2> QED BY <2>2, <2>3
<1> HIDE DEF keys, L, passed
<1>6. ASSUME NEW i \in 1..L
      PROVE  /\ i \in found => i \in occurs
             /\ i \in occurs => i \in found \/ passed \/ WentRound
  <2> DEFINE p == prev_states[i].pos
  <2>1. /\ Sound(p) /\ Follows(p, pos, hfm, L + 1 - i, Astray(prev_states, L + 1))
        /\ keys[i] = Zobrist(p)
    BY <1>3, <1>5
  <2>2. i \in found <=> (L - i) % 2 = 1 /\ i > L - hfm - 1 /\ keys[i] = key
    BY <1>3
  <2>3. i \in occurs <=> p = pos
    BY <1>2
  <2> HIDE DEF found, occurs, p
  <2>4. /\ Later(p, pos) /\ (pos.stm = p.stm <=> (L + 1 - i) % 2 = 0)
        /\ hfm >= L + 1 - i \/ Worn(pos, p) \/ Astray(prev_states, L + 1)
    BY <2>1 DEF Follows
  <2>5. ASSUME keys[i] = key PROVE p = pos
    BY <1>1, <2>1, <2>4, <2>5, SameKey
  <2>6. ASSUME p = pos, ~Astray(prev_states, L + 1)
        PROVE  (L - i) % 2 = 1 /\ i > L - hfm - 1 /\ keys[i] = key
    <3>1. ~Worn(pos, p)
      <4>1. p \in Position /\ pos \in Position /\ AtMost(pos, p)
        BY <1>1, <2>1, Sides DEF Follows
      <4>2. AtMost(p, p)
        BY <2>6, <4>1
      <4> QED BY <2>6, <4>1, <4>2, WearsOn
    <3>2. (L + 1 - i) % 2 = 0 /\ hfm >= L + 1 - i
      BY <2>4, <2>6, <3>1
    <3>3. (L - i) % 2 = 1
      <4>1. \A k \in Nat : (k + 1) % 2 = 0 => k % 2 = 1
        OBVIOUS
      <4>2. L - i \in Nat /\ L + 1 - i = (L - i) + 1
        BY <1>2
      <4> QED BY <3>2, <4>1, <4>2
    <3>4. i > L - hfm - 1
      BY <1>1, <1>2, <3>2
    <3> QED BY <1>1, <2>1, <2>6, <3>3, <3>4
  <2> QED BY <1>4, <2>2, <2>3, <2>5, <2>6
<1>7. found \subseteq 1..L /\ occurs \subseteq 1..L
  BY <1>2, <1>3
<1> DEFINE is == IsRepetition(key, keys, hfm, n)
<1>8. is <=> Cardinality(found) >= n
  BY DEF IsRepetition
<1> HIDE DEF found, occurs, is
<1>9. is => Cardinality(occurs) >= n
  <2>1. found \in SUBSET occurs
    BY <1>6, <1>7
  <2>2. IsFiniteSet(occurs)
    <3>1. IsFiniteSet(1..L)
      BY <1>2, FS_Interval
    <3> QED BY <1>7, <3>1, FS_Subset
  <2>3. Cardinality(found) <= Cardinality(occurs) /\ Cardinality(occurs) \in Nat /\ Cardinality(found) \in Nat
    BY <2>1, <2>2, FS_Subset, FS_CardinalityType
  <2> QED BY <1>8, <2>3
<1>10. Cardinality(occurs) >= n => is \/ passed \/ WentRound
  <2> SUFFICES ASSUME Cardinality(occurs) >= n, ~passed, ~WentRound PROVE is
    OBVIOUS
  <2>1. found = occurs
    BY <1>6, <1>7
  <2> QED BY <1>8, <2>1
<1> QED BY <1>9, <1>10 DEF keys, occurs, is, passed

\* isRepetition compares the keys of every other entry no older than the
\* halfmove clock; what that finds are earlier occurrences of the position, in
\* games of any length, passed in, taken back and reloaded in any way; and it
\* finds all of them in a game without passes, up to the 256th reversible move
\* in a row, where the clock, a byte, starts again at zero and hides what lies
\* behind it until a pawn moves or a piece is taken.
\* A key is a set of features here, so two positions do not collide.
THEOREM RepetitionsAlwaysKnown ==
  ASSUME StartsExplained
  PROVE  Spec => []RepetitionExact
<1>1. Init => Lived
  <2> SUFFICES ASSUME Init PROVE Lived
    OBVIOUS
  <2>1. prev_states = <<>>
    BY DEF Init, Begun
  <2> QED BY <2>1, BegunPlayed, AgedEmpty DEF Lived
<1>2. Lived /\ [Next]_vars => Lived'
  BY StepLived
<1>3. Lived => RepetitionExact
  BY RepetitionIs DEF RepetitionExact
<1> QED BY <1>1, <1>2, <1>3, PTL DEF Spec
=============================================================================
