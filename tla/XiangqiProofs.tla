---------------------------- MODULE XiangqiProofs ----------------------------
(***************************************************************************)
(* What the xiangqi library promises, for every position and every game:    *)
(* making and taking back a move are inverse; the key kept up move by move   *)
(* is the key of the position; the two tests of legality allow the moves     *)
(* that leave the king safe; the flag of a move says whether it gives check; *)
(* and a perpetual check is judged as the rules say.                         *)
(***************************************************************************)
EXTENDS XiangqiGame, FiniteSetTheorems, WellFoundedInduction, TLAPS

\* A move of a piece of the side to move to a square where it has no piece.
Movable(p, m) == From(m) \in Us(p, p.turn) /\ To(m) \in Square \ Us(p, p.turn)

\* Entry e was made in a position of which q is the next.
Linked(e, q) ==
  /\ IsPosition(e.pos) /\ Movable(e.pos, e.move)
  /\ e.cap = Captured(e.pos, e.move) /\ e.lock = PosKey(e.pos)
  /\ q = After(e.pos, e.move)

-----------------------------------------------------------------------------
(* Positions and keys *)

\* A feature of a piece is none of the turn.
LEMMA FeatureNotTurn == \A a, s : <<a, s>> # <<"turn">>
OBVIOUS

\* A piece is not the sign of none.
LEMMA PieceNotNone == \A piece \in Piece : piece # None
BY DEF Piece, None

\* Toggling twice changes nothing.
LEMMA ToggledTwice == \A k, f : Toggled(Toggled(k, f), f) = k
BY DEF Toggled

\* The next position is one: the piece that moves stands where it goes.
LEMMA NextPosition ==
  ASSUME NEW p, NEW m, IsPosition(p), Movable(p, m)
  PROVE  IsPosition(After(p, m))
<1>1. From(m) \in DOMAIN p.board
  BY DEF Movable, Us, Occ
<1>2. /\ RepDo(p.board, m) \in [DOMAIN RepDo(p.board, m) -> Piece]
      /\ DOMAIN RepDo(p.board, m) \subseteq Square
  BY <1>1 DEF IsPosition, RepDo, Movable
<1>3. Opp(p.turn) \in Color
  BY DEF IsPosition, Opp, Color, White, Black
<1> QED
  BY <1>2, <1>3 DEF IsPosition, After

\* The board after a move: the square it leaves is empty, the one it goes to holds the piece.
LEMMA NextBoard ==
  ASSUME NEW p, NEW m, IsPosition(p), Movable(p, m)
  PROVE  /\ From(m) \in Occ(p) /\ From(m) # To(m)
         /\ Occ(After(p, m)) = (Occ(p) \ {From(m)}) \cup {To(m)}
         /\ After(p, m).board[To(m)] = p.board[From(m)]
         /\ \A s \in Occ(p) \ {From(m), To(m)} : After(p, m).board[s] = p.board[s]
         /\ To(m) \in Occ(p) => p.board[To(m)] # p.board[From(m)]
         /\ After(p, m).turn = Opp(p.turn)
<1>1. From(m) \in Occ(p) /\ From(m) # To(m)
  BY DEF Movable, Us
<1>2. To(m) \in Occ(p) => p.board[To(m)] # p.board[From(m)]
  BY DEF Movable, Us
<1>3. After(p, m).board = RepDo(p.board, m) /\ After(p, m).turn = Opp(p.turn)
  BY DEF After
<1> QED
  BY <1>1, <1>2, <1>3 DEF Occ, RepDo

\* What a position contributes to its key.
LEMMA KeyOf ==
  ASSUME NEW p, NEW x
  PROVE  x \in PosKey(p) <=> \/ \E s \in Occ(p) : x = <<p.board[s], s>>
                             \/ x = <<"turn">> /\ p.turn = White
BY DEF PosKey, TurnKey

\* The key after a move is the key of the position after it.
LEMMA NextKey ==
  ASSUME NEW p, NEW m, IsPosition(p), Movable(p, m)
  PROVE  Toggled(PosKey(p), MoveToggles(p, m)) = PosKey(After(p, m))
<1> DEFINE q == After(p, m)
           from == From(m)
           to == To(m)
           piece == p.board[from]
           f == MoveToggles(p, m)
<1>1. /\ from \in Occ(p) /\ from # to
      /\ Occ(q) = (Occ(p) \ {from}) \cup {to}
      /\ q.board[to] = piece
      /\ \A s \in Occ(p) \ {from, to} : q.board[s] = p.board[s]
      /\ to \in Occ(p) => p.board[to] # piece
      /\ q.turn = Opp(p.turn)
  BY NextBoard
<1>2. p.turn = White <=> q.turn # White
  BY <1>1 DEF IsPosition, Opp, Color, White, Black
<1>3. \A x : x \in f <=> \/ x = <<piece, from>> \/ x = <<piece, to>> \/ x = <<"turn">>
                         \/ to \in Occ(p) /\ x = <<p.board[to], to>>
  BY DEF MoveToggles, TurnKey
<1>4. \A x : x \in Toggled(PosKey(p), f) <=> (x \in PosKey(p) <=> x \notin f)
  BY DEF Toggled
<1>5. \A x : x \in PosKey(p) <=> \/ \E s \in Occ(p) : x = <<p.board[s], s>>
                                 \/ x = <<"turn">> /\ p.turn = White
  BY KeyOf
<1>6. \A x : x \in PosKey(q) <=> \/ \E s \in Occ(q) : x = <<q.board[s], s>>
                                 \/ x = <<"turn">> /\ q.turn = White
  BY KeyOf
<1> HIDE DEF q, from, to, piece, f
<1>7. \A a, s : <<a, s>> \in f <=> \/ a = piece /\ s \in {from, to}
                                   \/ to \in Occ(p) /\ a = p.board[to] /\ s = to
  BY <1>3, FeatureNotTurn
<1>8. \A a, s : <<a, s>> \in PosKey(p) <=> s \in Occ(p) /\ a = p.board[s]
  BY <1>5, FeatureNotTurn
<1>9. \A a, s : <<a, s>> \in PosKey(q) <=> s \in Occ(q) /\ a = q.board[s]
  BY <1>6, FeatureNotTurn
<1>10. \A a, s : <<a, s>> \in PosKey(q) <=> <<a, s>> \in Toggled(PosKey(p), f)
  <2> TAKE a, s
  <2>1. <<a, s>> \in Toggled(PosKey(p), f) <=> (<<a, s>> \in PosKey(p) <=> <<a, s>> \notin f)
    BY <1>4
  <2>2. <<a, s>> \in f <=> (a = piece /\ s \in {from, to}) \/ (to \in Occ(p) /\ a = p.board[to] /\ s = to)
    BY <1>7
  <2>3. <<a, s>> \in PosKey(p) <=> s \in Occ(p) /\ a = p.board[s]
    BY <1>8
  <2>4. <<a, s>> \in PosKey(q) <=> s \in Occ(q) /\ a = q.board[s]
    BY <1>9
  <2>5. p.board[from] = piece
    BY DEF piece
  <2>6. CASE s = from
    BY <1>1, <2>1, <2>2, <2>3, <2>4, <2>5, <2>6
  <2>7. CASE s = to
    BY <1>1, <2>1, <2>2, <2>3, <2>4, <2>7
  <2>8. CASE s # from /\ s # to
    BY <1>1, <2>1, <2>2, <2>3, <2>4, <2>8
  <2> QED
    BY <2>6, <2>7, <2>8
<1>11. <<"turn">> \in PosKey(q) <=> <<"turn">> \in Toggled(PosKey(p), f)
  BY <1>2, <1>3, <1>4, <1>5, <1>6, FeatureNotTurn
<1>12. \A x : x \in PosKey(q) \/ x \in Toggled(PosKey(p), f) => x = <<"turn">> \/ \E a, s : x = <<a, s>>
  BY <1>3, <1>4, <1>5, <1>6
<1> QED
  BY <1>10, <1>11, <1>12 DEF q, f

\* A position is known by its key.
LEMMA KeyTells ==
  ASSUME NEW p, NEW q, IsPosition(p), IsPosition(q), PosKey(p) = PosKey(q)
  PROVE  p = q
<1>1. \A s : s \in Occ(p) => s \in Occ(q) /\ q.board[s] = p.board[s]
  <2> TAKE s
  <2> HAVE s \in Occ(p)
  <2>1. <<p.board[s], s>> \in PosKey(q)
    BY KeyOf
  <2> QED
    BY <2>1, KeyOf, FeatureNotTurn
<1>2. \A s : s \in Occ(q) => s \in Occ(p)
  <2> TAKE s
  <2> HAVE s \in Occ(q)
  <2>1. <<q.board[s], s>> \in PosKey(p)
    BY KeyOf
  <2> QED
    BY <2>1, KeyOf, FeatureNotTurn
<1>3. p.turn = White <=> q.turn = White
  <2>1. <<"turn">> \in PosKey(p) <=> p.turn = White
    BY KeyOf, FeatureNotTurn
  <2>2. <<"turn">> \in PosKey(q) <=> q.turn = White
    BY KeyOf, FeatureNotTurn
  <2> QED
    BY <2>1, <2>2
<1>4. p.turn = q.turn
  BY <1>3 DEF IsPosition, Color, White, Black
<1>5. p.board = q.board
  <2>1. p.board = [s \in Occ(p) |-> p.board[s]] /\ q.board = [s \in Occ(q) |-> q.board[s]]
    BY DEF IsPosition, Occ
  <2>2. Occ(p) = Occ(q)
    BY <1>1, <1>2
  <2> QED
    BY <1>1, <2>1, <2>2
<1> QED
  BY <1>4, <1>5 DEF IsPosition

-----------------------------------------------------------------------------
(* Taking a move back *)

\* What taking back toggles is what the move toggled.
LEMMA SameToggles ==
  ASSUME NEW e, NEW q, Linked(e, q)
  PROVE  UndoToggles(q, e) = MoveToggles(e.pos, e.move)
<1> DEFINE p == e.pos
           m == e.move
<1>1. q.board[To(m)] = p.board[From(m)]
  BY NextBoard DEF Linked
<1>2. To(m) \in Occ(p) => e.cap = p.board[To(m)] /\ e.cap # None
  BY PieceNotNone DEF Linked, Captured, IsPosition, Occ
<1>3. To(m) \notin Occ(p) => e.cap = None
  BY DEF Linked, Captured
<1> QED
  BY <1>1, <1>2, <1>3 DEF UndoToggles, MoveToggles

\* The key is again that of the position before the move.
LEMMA KeyBack ==
  ASSUME NEW e, NEW q, Linked(e, q)
  PROVE  Toggled(PosKey(q), UndoToggles(q, e)) = PosKey(e.pos)
<1>1. PosKey(q) = Toggled(PosKey(e.pos), MoveToggles(e.pos, e.move))
  BY NextKey DEF Linked
<1> QED
  BY <1>1, SameToggles, ToggledTwice

\* The position is again the one before the move.
LEMMA PositionBack ==
  ASSUME NEW e, NEW q, Linked(e, q)
  PROVE  Undone(q, e) = e.pos
<1> DEFINE p == e.pos
           from == From(e.move)
           to == To(e.move)
           back == RepUndo(q.board, e.move)
<1>1. /\ from \in Occ(p) /\ from # to
      /\ Occ(q) = (Occ(p) \ {from}) \cup {to}
      /\ q.board[to] = p.board[from]
      /\ \A s \in Occ(p) \ {from, to} : q.board[s] = p.board[s]
      /\ q.turn = Opp(p.turn)
  BY NextBoard DEF Linked
<1>2. /\ DOMAIN back = (Occ(p) \ {to}) \cup {from}
      /\ back = [s \in DOMAIN back |-> back[s]]
      /\ \A s \in DOMAIN back : back[s] = p.board[s]
  <2>1. back = [s \in (Occ(q) \ {to}) \cup {from} |-> IF s = from THEN q.board[to] ELSE q.board[s]]
    BY DEF RepUndo, RepDo, Occ, From, To
  <2> HIDE DEF back, from, to
  <2> QED
    BY <1>1, <2>1
<1>3. p.board = [s \in Occ(p) |-> p.board[s]] /\ p = [board |-> p.board, turn |-> p.turn]
  BY DEF Linked, IsPosition, Occ
<1>4. Opp(q.turn) = p.turn
  BY <1>1 DEF Linked, IsPosition, Opp, Color, White, Black
<1>5. CASE to \notin Occ(p)
  <2>1. e.cap = None
    BY <1>5 DEF Linked, Captured
  <2>2. back = p.board
    <3> HIDE DEF back, from, to
    <3> QED
      BY <1>1, <1>2, <1>3, <1>5
  <2> QED
    BY <1>3, <1>4, <2>1, <2>2 DEF Undone
<1>6. CASE to \in Occ(p)
  <2>1. e.cap = p.board[to] /\ e.cap # None
    BY <1>6, PieceNotNone DEF Linked, Captured, IsPosition, Occ
  <2>2. [s \in DOMAIN back \cup {to} |-> IF s = to THEN e.cap ELSE back[s]] = p.board
    <3> HIDE DEF back, from, to
    <3> QED
      BY <1>1, <1>2, <1>3, <1>6, <2>1
  <2> QED
    BY <1>3, <1>4, <2>1, <2>2 DEF Undone
<1> QED
  BY <1>5, <1>6

-----------------------------------------------------------------------------
(* Squares and lines *)

\* A square is its file and rank.
LEMMA Coordinates ==
  ASSUME NEW s \in Square
  PROVE  /\ FileOf(s) \in 0..8 /\ RankOf(s) \in 0..9 /\ s = 9 * RankOf(s) + FileOf(s)
         /\ FileOf(s) \in Int /\ RankOf(s) \in Int /\ s \in Int
BY DEF Square, FileOf, RankOf

\* A file and a rank make a square, which has them.
LEMMA SquareOf ==
  ASSUME NEW f \in 0..8, NEW r \in 0..9
  PROVE  SquareAt(f, r) \in Square /\ FileOf(SquareAt(f, r)) = f /\ RankOf(SquareAt(f, r)) = r
BY DEF Square, FileOf, RankOf, SquareAt

\* A square is known by its file and its rank.
LEMMA SameSquare ==
  ASSUME NEW s \in Square, NEW t \in Square, FileOf(s) = FileOf(t), RankOf(s) = RankOf(t)
  PROVE  s = t
BY Coordinates

\* u is strictly between s and t on a rank or a file.
Amid(s, u, t) ==
  \/ SameFile(s, t) /\ SameFile(s, u) /\ Mid(RankOf(u), RankOf(s), RankOf(t))
  \/ SameRank(s, t) /\ SameRank(s, u) /\ Mid(FileOf(u), FileOf(s), FileOf(t))

\* Nothing of occ is in the way, or just one piece.
Clear(s, t, occ) == \A u \in occ \cap Square : ~Amid(s, u, t)
Single(s, t, occ) ==
  \E u \in occ \cap Square : Amid(s, u, t) /\ \A v \in occ \cap Square : Amid(s, v, t) => v = u

\* Between gives the squares amid two of a line.
LEMMA BetweenIs ==
  ASSUME NEW s \in Square, NEW t \in Square, OnLine(s, t), NEW u
  PROVE  u \in Between(s, t) <=> u \in Square /\ Amid(s, u, t)
<1> DEFINE low == IF s < t THEN s ELSE t
           high == IF s < t THEN t ELSE s
<1>1. /\ FileOf(s) \in 0..8 /\ FileOf(t) \in 0..8 /\ RankOf(s) \in 0..9 /\ RankOf(t) \in 0..9
      /\ s = 9 * RankOf(s) + FileOf(s) /\ t = 9 * RankOf(t) + FileOf(t)
      /\ s \in Int /\ t \in Int
  BY Coordinates
<1>2. low \in Square /\ high \in Square /\ low <= high /\ {low, high} = {s, t}
  BY <1>1
<1>3. CASE SameRank(s, t)
  <2>1. Between(s, t) = (low + 1)..(high - 1)
    BY <1>3 DEF Between
  <2>2. ASSUME NEW v \in (low + 1)..(high - 1) PROVE v \in Square /\ Amid(s, v, t)
    <3>1. v \in Square
      BY <1>2 DEF Square
    <3>2. FileOf(v) \in 0..8 /\ RankOf(v) \in 0..9 /\ v = 9 * RankOf(v) + FileOf(v)
      BY <3>1, Coordinates
    <3>3. RankOf(v) = RankOf(s)
      BY <1>1, <1>3, <3>2 DEF SameRank
    <3> QED BY <1>1, <1>3, <3>1, <3>2, <3>3 DEF Amid, Mid, SameRank
  <2>3. ASSUME NEW v \in Square, Amid(s, v, t) PROVE v \in (low + 1)..(high - 1)
    <3>2. FileOf(v) \in 0..8 /\ RankOf(v) \in 0..9 /\ v = 9 * RankOf(v) + FileOf(v) /\ v \in Int
      BY Coordinates
    <3> QED BY <1>1, <1>3, <2>3, <3>2 DEF Amid, Mid, SameRank, SameFile
  <2> QED BY <2>1, <2>2, <2>3
<1>4. CASE ~SameRank(s, t)
  <2>1. SameFile(s, t) /\ Between(s, t) = {low + 9 * i : i \in 1..((high - low) \div 9 - 1)}
    BY <1>4 DEF Between, OnLine
  <2>2. /\ FileOf(low) = FileOf(s) /\ FileOf(high) = FileOf(s)
        /\ RankOf(low) \in 0..9 /\ RankOf(high) \in 0..9
        /\ low = 9 * RankOf(low) + FileOf(s) /\ high = 9 * RankOf(high) + FileOf(s)
        /\ RankOf(low) < RankOf(high) /\ {RankOf(low), RankOf(high)} = {RankOf(s), RankOf(t)}
    BY <1>1, <1>2, <1>4, <2>1 DEF SameFile, SameRank
  <2> HIDE DEF low, high
  <2>3. high - low = 9 * (RankOf(high) - RankOf(low))
    BY <1>1, <2>2
  <2>4. (high - low) \div 9 = RankOf(high) - RankOf(low)
    BY <2>2, <2>3
  <2>5. ASSUME NEW i \in 1..(RankOf(high) - RankOf(low) - 1)
        PROVE  low + 9 * i \in Square /\ Amid(s, low + 9 * i, t)
    <3>1. RankOf(low) + i \in 0..9 /\ FileOf(s) \in 0..8 /\ low + 9 * i = SquareAt(FileOf(s), RankOf(low) + i)
      BY <1>1, <2>2 DEF SquareAt
    <3>2. /\ low + 9 * i \in Square /\ FileOf(low + 9 * i) = FileOf(s)
          /\ RankOf(low + 9 * i) = RankOf(low) + i
      BY <3>1, SquareOf
    <3>3. Mid(RankOf(low) + i, RankOf(s), RankOf(t))
      BY <2>2 DEF Mid
    <3> QED BY <2>1, <3>2, <3>3 DEF Amid, SameFile
  <2>6. ASSUME NEW v \in Square, Amid(s, v, t)
        PROVE  \E i \in 1..(RankOf(high) - RankOf(low) - 1) : v = low + 9 * i
    <3>1. FileOf(v) = FileOf(s) /\ Mid(RankOf(v), RankOf(s), RankOf(t))
      BY <1>4, <2>6 DEF Amid, SameFile
    <3>2. RankOf(v) \in 0..9 /\ v = 9 * RankOf(v) + FileOf(v)
      BY Coordinates
    <3>3. RankOf(v) - RankOf(low) \in 1..(RankOf(high) - RankOf(low) - 1)
      BY <2>2, <3>1, <3>2 DEF Mid
    <3>4. v = low + 9 * (RankOf(v) - RankOf(low))
      BY <1>1, <2>2, <3>1, <3>2
    <3> QED BY <3>3, <3>4
  <2> QED BY <2>1, <2>4, <2>5, <2>6
<1> QED BY <1>3, <1>4

\* The two ways to say that nothing is in between, and that one piece is.
LEMMA CountIs ==
  ASSUME NEW s \in Square, NEW t \in Square, OnLine(s, t), NEW occ
  PROVE  /\ Cardinality(Between(s, t) \cap occ) \in Nat
         /\ Cardinality(Between(s, t) \cap occ) = 0 <=> Clear(s, t, occ)
         /\ Cardinality(Between(s, t) \cap occ) = 1 <=> Single(s, t, occ)
         /\ Between(s, t) \cap occ = {} <=> Clear(s, t, occ)
<1> DEFINE B == Between(s, t) \cap occ
<1>1. \A u : u \in B <=> u \in occ \cap Square /\ Amid(s, u, t)
  BY BetweenIs
<1> HIDE DEF B
<1>2. IsFiniteSet(B)
  <2>1. B \subseteq 0..89
    BY <1>1 DEF Square
  <2>2. IsFiniteSet(0..89)
    <3>1. 0 \in Int /\ 89 \in Int
      OBVIOUS
    <3> QED BY <3>1, FS_Interval, Zenon
  <2> QED BY <2>1, <2>2, FS_Subset
<1>3. Cardinality(B) \in Nat /\ (Cardinality(B) = 0 <=> B = {})
  BY <1>2, FS_CardinalityType, FS_EmptySet
<1>4. B = {} <=> Clear(s, t, occ)
  BY <1>1 DEF Clear
<1>5. Cardinality(B) = 1 <=> \E u : B = {u}
  BY <1>2, FS_Singleton
<1>6. (\E u : B = {u}) <=> Single(s, t, occ)
  BY <1>1 DEF Single
<1> QED BY <1>3, <1>4, <1>5, <1>6 DEF B

\* What is amid two squares is so from either.
LEMMA AmidSym ==
  ASSUME NEW s \in Square, NEW t \in Square
  PROVE  \A u \in Square : Amid(s, u, t) <=> Amid(t, u, s)
BY DEF Amid, SameFile, SameRank, Mid

\* A way is clear, or has one piece in it, from either end.
LEMMA ClearSym ==
  ASSUME NEW s \in Square, NEW t \in Square, NEW occ
  PROVE  (Clear(s, t, occ) <=> Clear(t, s, occ)) /\ (Single(s, t, occ) <=> Single(t, s, occ))
BY AmidSym DEF Clear, Single

-----------------------------------------------------------------------------
(* Rays *)

Steps == RankSteps \cup FileSteps

\* The i-th square from s in direction d is on the board.
Far(i, a) == CASE a = 0 -> 0 [] a = 1 -> i [] OTHER -> -i
Inside(s, d, i) == FileOf(s) + Far(i, d[1]) \in 0..8 /\ RankOf(s) + Far(i, d[2]) \in 0..9
Go(s, d, i) == SquareAt(FileOf(s) + Far(i, d[1]), RankOf(s) + Far(i, d[2]))

\* A multiple of a unit step, by cases.
LEMMA FarIs ==
  ASSUME NEW a \in {-1, 0, 1}, NEW i \in Int
  PROVE  i * a = Far(i, a) /\ Far(i, a) \in Int
<1>1. CASE a = 0
  BY <1>1 DEF Far
<1>2. CASE a = 1
  BY <1>2 DEF Far
<1>3. CASE a = -1
  BY <1>3 DEF Far
<1> QED BY <1>1, <1>2, <1>3

\* A step goes along one of the two coordinates.
LEMMA StepParts ==
  ASSUME NEW d \in Steps
  PROVE  d[1] \in {-1, 0, 1} /\ d[2] \in {-1, 0, 1} /\ (d[1] # 0 \/ d[2] # 0) /\ (d[1] = 0 \/ d[2] = 0)
BY DEF Steps, RankSteps, FileSteps

\* The squares before one on the board are on the board.
LEMMA InsideConvex ==
  ASSUME NEW s \in Square, NEW d \in Steps, NEW i \in Nat, NEW j \in 1..i, Inside(s, d, i)
  PROVE  Inside(s, d, j)
<1>1. FileOf(s) \in 0..8 /\ RankOf(s) \in 0..9
  BY Coordinates
<1>2. d[1] \in {-1, 0, 1} /\ d[2] \in {-1, 0, 1}
  BY StepParts
<1>3. FileOf(s) + Far(j, d[1]) \in 0..8
  BY <1>1, <1>2 DEF Inside, Far
<1>4. RankOf(s) + Far(j, d[2]) \in 0..9
  BY <1>1, <1>2 DEF Inside, Far
<1> QED BY <1>3, <1>4 DEF Inside

\* Ten steps leave the board from anywhere.
LEMMA InsideEnds ==
  ASSUME NEW s \in Square, NEW d \in Steps
  PROVE  ~Inside(s, d, 10)
BY Coordinates, StepParts DEF Inside, Far

\* A jump along a ray goes to its square, if there is one.
LEMMA JumpIs ==
  ASSUME NEW s \in Square, NEW d \in Steps, NEW i \in Nat
  PROVE  Jump(s, <<i * d[1], i * d[2]>>) = IF Inside(s, d, i) THEN {Go(s, d, i)} ELSE {}
<1>1. i * d[1] = Far(i, d[1]) /\ i * d[2] = Far(i, d[2])
  BY StepParts, FarIs
<1> QED BY <1>1 DEF Jump, Inside, Go, File, Rank

\* A set of naturals that is not empty has a smallest.
LEMMA SmallestIn ==
  ASSUME NEW S \in SUBSET Nat, S # {}
  PROVE  Min(S) \in S /\ \A x \in S : Min(S) <= x
<1>1. PICK x \in S : \A y \in S : ~(<<y, x>> \in OpToRel(<, Nat))
  BY WFMin, NatLessThanWellFounded, Zenon
<1>2. \A y \in S : ~(y < x)
  BY <1>1 DEF OpToRel
<1>3. \E z \in S : \A y \in S : z =< y
  BY <1>2
<1> QED BY <1>3, Zenon DEF Min

\* A ray is made of the squares up to the edge of the board.
LEMMA RayIs ==
  ASSUME NEW s \in Square, NEW d \in Steps
  PROVE  \E n \in 0..9 :
           /\ Ray[s][d] = [i \in 1..n |-> Go(s, d, i)]
           /\ \A i \in 1..9 : i <= n <=> Inside(s, d, i)
<1> DEFINE At(i) == Jump(s, <<i * d[1], i * d[2]>>)
           Ends(m) == At(m + 1) = {} /\ \A i \in 1..m : At(i) # {}
           n == CHOOSE m \in 0..9 : Ends(m)
<1>1. Ray[s][d] = [i \in 1..n |-> CHOOSE t \in At(i) : TRUE]
  BY DEF Ray, Steps
<1>2. \A i \in 1..10 : At(i) = IF Inside(s, d, i) THEN {Go(s, d, i)} ELSE {}
  <2> SUFFICES ASSUME NEW i \in 1..10 PROVE At(i) = IF Inside(s, d, i) THEN {Go(s, d, i)} ELSE {}
    OBVIOUS
  <2>1. i \in Nat
    OBVIOUS
  <2> QED BY <2>1, JumpIs
<1> HIDE DEF At
<1>3. At(10) = {}
  BY <1>2, InsideEnds
<1>4. \E m \in 0..9 : Ends(m)
  <2> DEFINE S == {i \in 1..10 : At(i) = {}}
             least == Min(S)
  <2>1. S \in SUBSET Nat /\ 10 \in S
    BY <1>3
  <2>2. least \in S /\ \A x \in S : least <= x
    <3> HIDE DEF S
    <3> QED BY <2>1, SmallestIn
  <2> HIDE DEF least
  <2>3. least \in 1..10 /\ At(least) = {} /\ \A i \in 1..10 : i < least => At(i) # {}
    BY <2>2
  <2>4. least - 1 \in 0..9 /\ (least - 1) + 1 = least /\ \A i \in 1..(least - 1) : i \in 1..10 /\ i < least
    BY <2>3
  <2>5. Ends(least - 1)
    BY <2>3, <2>4
  <2> QED BY <2>4, <2>5
<1>5. n \in 0..9 /\ At(n + 1) = {} /\ \A i \in 1..n : At(i) # {}
  <2>1. n \in 0..9 /\ Ends(n)
    <3> HIDE DEF Ends
    <3> QED BY <1>4
  <2> HIDE DEF n
  <2> QED BY <2>1
<1> HIDE DEF n, Ends
<1>6. ASSUME NEW i \in 1..n PROVE (CHOOSE t \in At(i) : TRUE) = Go(s, d, i)
  <2>1. i \in 1..10 /\ At(i) # {}
    BY <1>5
  <2>2. At(i) = {Go(s, d, i)}
    BY <1>2, <2>1
  <2> QED BY <2>2
<1>7. Ray[s][d] = [i \in 1..n |-> Go(s, d, i)]
  BY <1>1, <1>6
<1>8. ASSUME NEW i \in 1..9 PROVE i <= n <=> Inside(s, d, i)
  <2>1. CASE i <= n
    <3>1. At(i) # {} /\ i \in 1..10
      BY <1>5, <2>1
    <3> QED BY <1>2, <2>1, <3>1
  <2>2. CASE ~(i <= n)
    <3>1. At(n + 1) = {} /\ n + 1 \in 1..10 /\ n + 1 \in 1..i /\ i \in Nat
      BY <1>5, <2>2
    <3>2. ~Inside(s, d, n + 1)
      BY <1>2, <3>1
    <3>3. ~Inside(s, d, i)
      BY <3>1, <3>2, InsideConvex
    <3> QED BY <2>2, <3>3
  <2> QED BY <2>1, <2>2
<1> QED BY <1>5, <1>7, <1>8

\* t is the i-th square from s in direction d.
Nth(s, d, i, t) == FileOf(t) = FileOf(s) + Far(i, d[1]) /\ RankOf(t) = RankOf(s) + Far(i, d[2])

\* Between two squares of a ray are those with the numbers between theirs.
LEMMA AmidRay ==
  ASSUME NEW s \in Square, NEW t \in Square, NEW u \in Square, NEW d \in Steps, NEW i \in 1..9,
         Nth(s, d, i, t)
  PROVE  Amid(s, u, t) <=> \E j \in 1..(i - 1) : Nth(s, d, j, u)
<1>1. /\ FileOf(s) \in Int /\ FileOf(t) \in Int /\ FileOf(u) \in Int
      /\ RankOf(s) \in Int /\ RankOf(t) \in Int /\ RankOf(u) \in Int
  BY Coordinates
<1>2. d[1] \in {-1, 0, 1} /\ d[2] \in {-1, 0, 1} /\ (d[1] # 0 \/ d[2] # 0) /\ (d[1] = 0 \/ d[2] = 0)
  BY StepParts
<1>3. ASSUME NEW j \in 1..(i - 1), Nth(s, d, j, u)
      PROVE  Amid(s, u, t)
  BY <1>1, <1>2, <1>3 DEF Nth, Amid, Mid, Far, SameFile, SameRank
<1>4. ASSUME Amid(s, u, t)
      PROVE  \E j \in 1..(i - 1) : Nth(s, d, j, u)
  <2>1. CASE d[1] = 0 /\ d[2] = 1
    <3>1. RankOf(u) - RankOf(s) \in 1..(i - 1)
      BY <1>1, <1>4, <2>1 DEF Nth, Amid, Mid, Far, SameFile, SameRank
    <3>2. Nth(s, d, RankOf(u) - RankOf(s), u)
      BY <1>1, <1>4, <2>1, <3>1, SMTT(30) DEF Nth, Amid, Mid, Far, SameFile, SameRank
    <3> QED BY <3>1, <3>2
  <2>2. CASE d[1] = 0 /\ d[2] = -1
    <3>1. RankOf(s) - RankOf(u) \in 1..(i - 1)
      BY <1>1, <1>4, <2>2 DEF Nth, Amid, Mid, Far, SameFile, SameRank
    <3>2. Nth(s, d, RankOf(s) - RankOf(u), u)
      BY <1>1, <1>4, <2>2, <3>1, SMTT(30) DEF Nth, Amid, Mid, Far, SameFile, SameRank
    <3> QED BY <3>1, <3>2
  <2>3. CASE d[1] = 1 /\ d[2] = 0
    <3>1. FileOf(u) - FileOf(s) \in 1..(i - 1)
      BY <1>1, <1>4, <2>3 DEF Nth, Amid, Mid, Far, SameFile, SameRank
    <3>2. Nth(s, d, FileOf(u) - FileOf(s), u)
      BY <1>1, <1>4, <2>3, <3>1, SMTT(30) DEF Nth, Amid, Mid, Far, SameFile, SameRank
    <3> QED BY <3>1, <3>2
  <2>4. CASE d[1] = -1 /\ d[2] = 0
    <3>1. FileOf(s) - FileOf(u) \in 1..(i - 1)
      BY <1>1, <1>4, <2>4 DEF Nth, Amid, Mid, Far, SameFile, SameRank
    <3>2. Nth(s, d, FileOf(s) - FileOf(u), u)
      BY <1>1, <1>4, <2>4, <3>1, SMTT(30) DEF Nth, Amid, Mid, Far, SameFile, SameRank
    <3> QED BY <3>1, <3>2
  <2> QED BY <1>2, <2>1, <2>2, <2>3, <2>4
<1> QED BY <1>3, <1>4

\* A rook sees the squares of a ray that have no piece before them, ...
LEMMA RookRayIs ==
  ASSUME NEW n \in Nat, NEW ray, DOMAIN ray = 1..n, Len(ray) = n, NEW occ, NEW t
  PROVE  t \in RookRay(ray, occ) <=> \E i \in 1..n : t = ray[i] /\ \A j \in 1..(i - 1) : ray[j] \notin occ
<1> DEFINE hits == {i \in DOMAIN ray : ray[i] \in occ}
           stop == IF hits = {} THEN Len(ray) ELSE Min(hits)
<1>1. hits \in SUBSET Nat /\ RookRay(ray, occ) = {ray[i] : i \in 1..stop}
  BY DEF RookRay
<1>2. /\ stop \in 0..n
      /\ \A i \in 1..n : i <= stop <=> \A j \in 1..(i - 1) : ray[j] \notin occ
  <2>1. CASE hits = {}
    <3>1. stop = n /\ \A j \in 1..n : ray[j] \notin occ
      BY <2>1
    <3> HIDE DEF stop, hits
    <3>2. \A i \in 1..n : \A j \in 1..(i - 1) : ray[j] \notin occ
      BY <3>1
    <3> QED BY <3>1, <3>2
  <2>2. CASE hits # {}
    <3>1. stop \in hits /\ \A x \in hits : stop <= x
      <4>1. Min(hits) \in hits /\ \A x \in hits : Min(hits) <= x
        <5> HIDE DEF hits
        <5> QED BY <1>1, <2>2, SmallestIn
      <4> QED BY <2>2, <4>1
    <3>2. stop \in 1..n /\ ray[stop] \in occ /\ \A j \in 1..n : ray[j] \in occ => stop <= j
      BY <3>1
    <3> HIDE DEF stop, hits
    <3>3. ASSUME NEW i \in 1..n PROVE i <= stop <=> \A j \in 1..(i - 1) : ray[j] \notin occ
      <4>1. CASE i <= stop
        BY <3>2, <4>1
      <4>2. CASE ~(i <= stop)
        <5>1. stop \in 1..(i - 1)
          BY <3>2, <4>2
        <5> QED BY <3>2, <4>2, <5>1
      <4> QED BY <4>1, <4>2
    <3> QED BY <3>2, <3>3
  <2> QED BY <2>1, <2>2
<1> HIDE DEF stop, hits
<1>3. t \in RookRay(ray, occ) <=> \E i \in 1..stop : t = ray[i]
  BY <1>1
<1>4. (\E i \in 1..stop : t = ray[i]) <=> \E i \in 1..n : t = ray[i] /\ i <= stop
  BY <1>2
<1> QED BY <1>2, <1>3, <1>4

\* ... a cannon those that have one.
LEMMA CannonRayIs ==
  ASSUME NEW n \in Nat, NEW ray, DOMAIN ray = 1..n, Len(ray) = n, NEW occ, NEW t
  PROVE  t \in CannonRay(ray, occ)
         <=> \E i \in 1..n :
               /\ t = ray[i]
               /\ \E h \in 1..(i - 1) : ray[h] \in occ /\ \A j \in 1..(i - 1) : ray[j] \in occ => j = h
<1> DEFINE hits == {i \in DOMAIN ray : ray[i] \in occ}
           Over(i) == \E h \in 1..(i - 1) : ray[h] \in occ /\ \A j \in 1..(i - 1) : ray[j] \in occ => j = h
<1>1. hits \in SUBSET Nat
  OBVIOUS
<1>2. \A j : j \in hits <=> j \in 1..n /\ ray[j] \in occ
  OBVIOUS
<1>3. CASE hits = {}
  <2>1. CannonRay(ray, occ) = {}
    BY <1>3 DEF CannonRay
  <2>2. \A i \in 1..n : ~Over(i)
    <3> SUFFICES ASSUME NEW i \in 1..n, NEW h \in 1..(i - 1), ray[h] \in occ PROVE FALSE
      OBVIOUS
    <3>1. h \in 1..n
      OBVIOUS
    <3> HIDE DEF hits
    <3> QED BY <1>2, <1>3, <3>1
  <2> QED BY <2>1, <2>2
<1>4. CASE hits # {}
  <2> DEFINE screen == Min(hits)
             beyond == hits \ {screen}
             stop == IF beyond = {} THEN Len(ray) ELSE Min(beyond)
  <2>1. screen \in hits /\ \A x \in hits : screen <= x
    <3> HIDE DEF hits
    <3> QED BY <1>1, <1>4, SmallestIn
  <2>2. CannonRay(ray, occ) = {ray[i] : i \in (screen + 1)..stop}
    BY <1>4 DEF CannonRay
  <2> HIDE DEF hits
  <2>3. beyond \in SUBSET Nat
    BY <1>1
  <2>4. /\ stop \in screen..n
        /\ \A j \in hits : j # screen => stop <= j
        /\ beyond # {} => stop \in hits /\ stop # screen
        /\ beyond = {} => stop = n
    <3>0. screen \in 1..n
      BY <1>2, <2>1
    <3>1. CASE beyond = {}
      <4>1. stop = n /\ \A j \in hits : j = screen
        BY <3>1
      <4> QED BY <3>0, <3>1, <4>1
    <3>2. CASE beyond # {}
      <4>1. stop \in beyond /\ \A x \in beyond : stop <= x
        <5>1. Min(beyond) \in beyond /\ \A x \in beyond : Min(beyond) <= x
          <6> HIDE DEF beyond
          <6> QED BY <2>3, <3>2, SmallestIn
        <5> QED BY <3>2, <5>1
      <4>2. stop \in hits /\ stop # screen /\ \A j \in hits : j # screen => stop <= j
        BY <4>1
      <4> HIDE DEF stop, beyond
      <4>3. stop \in 1..n /\ screen <= stop
        BY <1>2, <2>1, <4>2
      <4> QED BY <3>0, <3>2, <4>2, <4>3
    <3> QED BY <3>1, <3>2
  <2>5. screen \in 1..n
    BY <1>2, <2>1
  <2> HIDE DEF stop, screen, beyond
  <2>6. ASSUME NEW i \in 1..n PROVE i \in (screen + 1)..stop <=> Over(i)
    <3>1. ASSUME i \in (screen + 1)..stop PROVE Over(i)
      <4>1. screen \in 1..(i - 1) /\ ray[screen] \in occ
        BY <1>2, <2>1, <2>5, <3>1
      <4>2. ASSUME NEW j \in 1..(i - 1), ray[j] \in occ PROVE j = screen
        <5>1. j \in hits /\ j < i /\ i <= stop
          BY <1>2, <2>4, <2>5, <3>1, <4>2
        <5> QED BY <2>4, <2>5, <4>2, <5>1
      <4> QED BY <4>1, <4>2
    <3>2. ASSUME Over(i) PROVE i \in (screen + 1)..stop
      <4>1. PICK h \in 1..(i - 1) : ray[h] \in occ /\ \A j \in 1..(i - 1) : ray[j] \in occ => j = h
        BY <3>2
      <4>2. h \in hits
        BY <1>2, <4>1
      <4>3. screen \in 1..(i - 1) /\ ray[screen] \in occ
        BY <1>2, <2>1, <2>5, <4>2
      <4>4. screen = h
        BY <4>1, <4>3
      <4>5. i <= stop
        <5>1. CASE beyond = {}
          BY <2>4, <5>1
        <5>2. CASE beyond # {}
          <6>1. stop \in hits /\ stop # screen /\ stop \in 1..n /\ ray[stop] \in occ
            BY <1>2, <2>4, <5>2
          <6>2. stop \notin 1..(i - 1)
            BY <4>1, <4>4, <6>1
          <6> QED BY <6>1, <6>2
        <5> QED BY <5>1, <5>2
      <4> QED BY <2>4, <4>3, <4>5
    <3> QED BY <3>1, <3>2
  <2> HIDE DEF Over
  <2>7. t \in CannonRay(ray, occ) <=> \E i \in (screen + 1)..stop : t = ray[i]
    BY <2>2
  <2>8. \A i \in (screen + 1)..stop : i \in 1..n
    BY <2>4, <2>5
  <2>9. (\E i \in (screen + 1)..stop : t = ray[i]) <=> \E i \in 1..n : t = ray[i] /\ Over(i)
    BY <2>6, <2>8
  <2> QED BY <2>7, <2>9 DEF Over
<1> QED BY <1>3, <1>4

\* The squares of a ray, by their coordinates and by number.
LEMMA GoIs ==
  ASSUME NEW s \in Square, NEW d \in Steps, NEW i \in 1..9, Inside(s, d, i)
  PROVE  Go(s, d, i) \in Square /\ Nth(s, d, i, Go(s, d, i))
<1>1. FileOf(s) + Far(i, d[1]) \in 0..8 /\ RankOf(s) + Far(i, d[2]) \in 0..9
  BY DEF Inside
<1> QED BY <1>1, SquareOf DEF Go, Nth

\* A ray by its squares.
LEMMA RayAt ==
  ASSUME NEW s \in Square, NEW d \in Steps
  PROVE  \E n \in 0..9 :
           /\ Ray[s][d] = [i \in 1..n |-> Ray[s][d][i]] /\ Len(Ray[s][d]) = n
           /\ \A i \in 1..n : Ray[s][d][i] \in Square /\ Nth(s, d, i, Ray[s][d][i])
           /\ \A i \in 1..9, t \in Square : Nth(s, d, i, t) => i \in 1..n /\ t = Ray[s][d][i]
<1>1. PICK n \in 0..9 : /\ Ray[s][d] = [i \in 1..n |-> Go(s, d, i)]
                        /\ \A i \in 1..9 : i <= n <=> Inside(s, d, i)
  BY RayIs
<1>2. /\ Ray[s][d] = [i \in 1..n |-> Ray[s][d][i]] /\ Len(Ray[s][d]) = n
      /\ \A i \in 1..n : Ray[s][d][i] = Go(s, d, i)
  BY <1>1
<1>3. ASSUME NEW i \in 1..n PROVE Ray[s][d][i] \in Square /\ Nth(s, d, i, Ray[s][d][i])
  <2>1. i \in 1..9 /\ Inside(s, d, i)
    BY <1>1
  <2> QED BY <1>2, <2>1, GoIs
<1>4. ASSUME NEW i \in 1..9, NEW t \in Square, Nth(s, d, i, t)
      PROVE  i \in 1..n /\ t = Ray[s][d][i]
  <2>1. Inside(s, d, i)
    BY <1>4, Coordinates DEF Nth, Inside
  <2>2. i \in 1..n
    BY <1>1, <2>1
  <2>3. /\ Ray[s][d][i] \in Square /\ FileOf(t) = FileOf(Ray[s][d][i])
        /\ RankOf(t) = RankOf(Ray[s][d][i])
    BY <1>3, <1>4, <2>2 DEF Nth
  <2> QED BY <2>2, <2>3, SameSquare
<1> QED BY <1>2, <1>3, <1>4

\* What a rook and a cannon see along a ray of the board.
LEMMA RaySees ==
  ASSUME NEW s \in Square, NEW d \in Steps, NEW occ, NEW t
  PROVE  /\ t \in RookRay(Ray[s][d], occ)
            <=> t \in Square /\ (\E i \in 1..9 : Nth(s, d, i, t)) /\ Clear(s, t, occ)
         /\ t \in CannonRay(Ray[s][d], occ)
            <=> t \in Square /\ (\E i \in 1..9 : Nth(s, d, i, t)) /\ Single(s, t, occ)
<1> DEFINE ray == Ray[s][d]
           Free(i) == \A j \in 1..(i - 1) : ray[j] \notin occ
           Over(i) == \E h \in 1..(i - 1) : ray[h] \in occ /\ \A j \in 1..(i - 1) : ray[j] \in occ => j = h
<1>1. PICK n \in 0..9 :
           /\ ray = [i \in 1..n |-> ray[i]] /\ Len(ray) = n
           /\ \A i \in 1..n : ray[i] \in Square /\ Nth(s, d, i, ray[i])
           /\ \A i \in 1..9, u \in Square : Nth(s, d, i, u) => i \in 1..n /\ u = ray[i]
  BY RayAt
<1>2. \A i, j \in 1..n : ray[i] = ray[j] => i = j
  <2>1. SUFFICES ASSUME NEW i \in 1..n, NEW j \in 1..n, ray[i] = ray[j] PROVE i = j
    OBVIOUS
  <2>2. Nth(s, d, i, ray[i]) /\ Nth(s, d, j, ray[i]) /\ ray[i] \in Square
    BY <1>1, <2>1
  <2> HIDE DEF ray
  <2>3. /\ FileOf(s) \in Int /\ RankOf(s) \in Int
        /\ d[1] \in {-1, 0, 1} /\ d[2] \in {-1, 0, 1} /\ (d[1] # 0 \/ d[2] # 0)
    BY Coordinates, StepParts
  <2>4. d[1] # 0 => i = j
    BY <2>2, <2>3 DEF Nth, Far
  <2>5. d[2] # 0 => i = j
    BY <2>2, <2>3 DEF Nth, Far
  <2> QED BY <2>3, <2>4, <2>5
<1> HIDE DEF ray
<1>3. /\ t \in RookRay(ray, occ) <=> \E i \in 1..n : t = ray[i] /\ Free(i)
      /\ t \in CannonRay(ray, occ) <=> \E i \in 1..n : t = ray[i] /\ Over(i)
  <2>1. n \in Nat /\ DOMAIN ray = 1..n /\ Len(ray) = n
    BY <1>1
  <2> QED BY <2>1, RookRayIs, CannonRayIs
<1>4. ASSUME NEW i \in 1..n, t = ray[i]
      PROVE  (Free(i) <=> Clear(s, t, occ)) /\ (Over(i) <=> Single(s, t, occ))
  <2>1. i \in 1..9 /\ t \in Square /\ Nth(s, d, i, t)
    BY <1>1, <1>4
  <2>2. \A u \in Square : Amid(s, u, t) <=> \E j \in 1..(i - 1) : Nth(s, d, j, u)
    BY <2>1, AmidRay
  <2>3. \A j \in 1..(i - 1) : j \in 1..n /\ j \in 1..9
    BY <2>1
  <2>4. \A j \in 1..(i - 1), u \in Square : Nth(s, d, j, u) <=> u = ray[j]
    BY <1>1, <2>3
  <2>5. \A j \in 1..(i - 1) : ray[j] \in Square
    BY <1>1, <2>3
  <2>6. \A u \in Square : Amid(s, u, t) <=> \E j \in 1..(i - 1) : u = ray[j]
    BY <2>2, <2>4
  <2>7. Free(i) <=> Clear(s, t, occ)
    BY <2>5, <2>6 DEF Clear
  <2>8. \A h, j \in 1..(i - 1) : ray[h] = ray[j] <=> h = j
    BY <1>2, <2>3
  <2>9. ASSUME Over(i) PROVE Single(s, t, occ)
    <3>1. PICK h \in 1..(i - 1) : ray[h] \in occ /\ \A j \in 1..(i - 1) : ray[j] \in occ => j = h
      BY <2>9
    <3>2. ray[h] \in occ \cap Square /\ Amid(s, ray[h], t)
      BY <2>5, <2>6, <3>1
    <3>3. \A v \in occ \cap Square : Amid(s, v, t) => v = ray[h]
      BY <2>6, <3>1
    <3> QED BY <3>2, <3>3 DEF Single
  <2>10. ASSUME Single(s, t, occ) PROVE Over(i)
    <3>1. PICK u \in occ \cap Square : Amid(s, u, t) /\ \A v \in occ \cap Square : Amid(s, v, t) => v = u
      BY <2>10 DEF Single
    <3>2. PICK h \in 1..(i - 1) : u = ray[h]
      BY <2>6, <3>1
    <3>3. \A j \in 1..(i - 1) : ray[j] \in occ => j = h
      BY <2>5, <2>6, <2>8, <3>1, <3>2
    <3> QED BY <3>1, <3>2, <3>3
  <2> QED BY <2>7, <2>9, <2>10
<1>5. (\E i \in 1..n : t = ray[i]) <=> t \in Square /\ \E i \in 1..9 : Nth(s, d, i, t)
  <2>1. \A i \in 1..n : i \in 1..9
    BY <1>1
  <2> QED BY <1>1, <2>1
<1> HIDE DEF Free, Over
<1> QED BY <1>3, <1>4, <1>5 DEF ray

\* The squares in line with s along a rank or file, without s itself.
Along(line, s, t) == s # t /\ On(line, s, t)

\* A square is along a line of another if it is on a ray of that line.
LEMMA LineRay ==
  ASSUME NEW s \in Square, NEW t \in Square, NEW line \in Sides
  PROVE  Along(line, s, t) <=> \E d \in line : \E i \in 1..9 : Nth(s, d, i, t)
<1>1. /\ FileOf(s) \in 0..8 /\ FileOf(t) \in 0..8 /\ RankOf(s) \in 0..9 /\ RankOf(t) \in 0..9
      /\ (s = t <=> FileOf(s) = FileOf(t) /\ RankOf(s) = RankOf(t))
  BY Coordinates, SameSquare
<1>2. CASE line = RankSteps
  <2>1. Along(line, s, t) <=> s # t /\ RankOf(s) = RankOf(t)
    BY <1>2 DEF Along, On, SameRank
  <2>2. ASSUME NEW d \in line, NEW i \in 1..9, Nth(s, d, i, t) PROVE Along(line, s, t)
    <3>1. d[1] \in {-1, 1} /\ d[2] = 0
      BY <1>2 DEF RankSteps
    <3> QED BY <1>1, <2>1, <2>2, <3>1 DEF Nth, Far
  <2>3. ASSUME Along(line, s, t) PROVE \E d \in line : \E i \in 1..9 : Nth(s, d, i, t)
    <3>1. CASE FileOf(t) > FileOf(s)
      <4>1. FileOf(t) - FileOf(s) \in 1..9 /\ <<1, 0>> \in line
        BY <1>1, <1>2, <3>1 DEF RankSteps
      <4>2. Nth(s, <<1, 0>>, FileOf(t) - FileOf(s), t)
        BY <1>1, <2>1, <2>3, <3>1 DEF Nth, Far
      <4> QED BY <4>1, <4>2
    <3>2. CASE FileOf(t) < FileOf(s)
      <4>1. FileOf(s) - FileOf(t) \in 1..9 /\ <<-1, 0>> \in line
        BY <1>1, <1>2, <3>2 DEF RankSteps
      <4>2. Nth(s, <<-1, 0>>, FileOf(s) - FileOf(t), t)
        BY <1>1, <2>1, <2>3, <3>2 DEF Nth, Far
      <4> QED BY <4>1, <4>2
    <3> QED BY <1>1, <2>1, <2>3, <3>1, <3>2
  <2> QED BY <2>2, <2>3
<1>3. CASE line = FileSteps
  <2>0. line # RankSteps
    <3>1. <<0, 1>> \in FileSteps /\ <<0, 1>> \notin RankSteps
      BY DEF FileSteps, RankSteps
    <3> QED BY <1>3, <3>1
  <2>1. Along(line, s, t) <=> s # t /\ FileOf(s) = FileOf(t)
    BY <2>0 DEF Along, On, SameFile
  <2>2. ASSUME NEW d \in line, NEW i \in 1..9, Nth(s, d, i, t) PROVE Along(line, s, t)
    <3>1. d[2] \in {-1, 1} /\ d[1] = 0
      BY <1>3 DEF FileSteps
    <3> QED BY <1>1, <2>1, <2>2, <3>1 DEF Nth, Far
  <2>3. ASSUME Along(line, s, t) PROVE \E d \in line : \E i \in 1..9 : Nth(s, d, i, t)
    <3>1. CASE RankOf(t) > RankOf(s)
      <4>1. RankOf(t) - RankOf(s) \in 1..9 /\ <<0, 1>> \in line
        BY <1>1, <1>3, <3>1 DEF FileSteps
      <4>2. Nth(s, <<0, 1>>, RankOf(t) - RankOf(s), t)
        BY <1>1, <2>1, <2>3, <3>1 DEF Nth, Far
      <4> QED BY <4>1, <4>2
    <3>2. CASE RankOf(t) < RankOf(s)
      <4>1. RankOf(s) - RankOf(t) \in 1..9 /\ <<0, -1>> \in line
        BY <1>1, <1>3, <3>2 DEF FileSteps
      <4>2. Nth(s, <<0, -1>>, RankOf(s) - RankOf(t), t)
        BY <1>1, <2>1, <2>3, <3>2 DEF Nth, Far
      <4> QED BY <4>1, <4>2
    <3> QED BY <1>1, <2>1, <2>3, <3>1, <3>2
  <2> QED BY <2>2, <2>3
<1> QED BY <1>2, <1>3 DEF Sides

\* What rooks and cannons see along a rank or file, from either end.
LEMMA LineSees ==
  ASSUME NEW s \in Square, NEW line \in Sides, NEW occ, NEW t
  PROVE  /\ t \in RookLine(s, line, occ) <=> t \in Square /\ Along(line, s, t) /\ Clear(s, t, occ)
         /\ t \in CannonLine(s, line, occ) <=> t \in Square /\ Along(line, s, t) /\ Single(s, t, occ)
<1>1. \A d \in line : d \in Steps
  BY DEF Sides, Steps
<1>2. t \in RookLine(s, line, occ) <=> \E d \in line : t \in RookRay(Ray[s][d], occ)
  BY DEF RookLine
<1>3. t \in CannonLine(s, line, occ) <=> \E d \in line : t \in CannonRay(Ray[s][d], occ)
  BY DEF CannonLine
<1>4. \A d \in line : t \in RookRay(Ray[s][d], occ)
                      <=> t \in Square /\ (\E i \in 1..9 : Nth(s, d, i, t)) /\ Clear(s, t, occ)
  BY <1>1, RaySees
<1>5. \A d \in line : t \in CannonRay(Ray[s][d], occ)
                      <=> t \in Square /\ (\E i \in 1..9 : Nth(s, d, i, t)) /\ Single(s, t, occ)
  BY <1>1, RaySees
<1>6. t \in Square => (Along(line, s, t) <=> \E d \in line : \E i \in 1..9 : Nth(s, d, i, t))
  BY LineRay
<1> QED BY <1>2, <1>3, <1>4, <1>5, <1>6

\* On a rank or a file, and not on itself.
Sight(s, t) == s # t /\ OnLine(s, t)

\* The two lines, and what it is to be on one.
LEMMA SidesAre ==
  /\ RankSteps \in Sides /\ FileSteps \in Sides /\ RankSteps # FileSteps
  /\ \A line \in Sides : line = RankSteps \/ line = FileSteps
  /\ \A a, b : (On(RankSteps, a, b) <=> SameRank(a, b)) /\ (On(FileSteps, a, b) <=> SameFile(a, b))
  /\ \A a, b : (OnSame(RankSteps, a, b) <=> SameRank(a, b)) /\ (OnSame(FileSteps, a, b) <=> SameFile(a, b))
<1>1. <<0, 1>> \in FileSteps /\ <<0, 1>> \notin RankSteps
  BY DEF FileSteps, RankSteps
<1>2. RankSteps # FileSteps
  BY <1>1
<1> QED BY <1>2 DEF Sides, On, OnSame

\* What rooks and cannons see.
LEMMA AllSees ==
  ASSUME NEW s \in Square, NEW occ, NEW t
  PROVE  /\ t \in RookAtt(s, occ) <=> t \in Square /\ Sight(s, t) /\ Clear(s, t, occ)
         /\ t \in CannonAtt(s, occ) <=> t \in Square /\ Sight(s, t) /\ Single(s, t, occ)
<1>1. /\ t \in RookAtt(s, occ) <=> t \in RookLine(s, RankSteps, occ) \/ t \in RookLine(s, FileSteps, occ)
      /\ t \in CannonAtt(s, occ) <=> t \in CannonLine(s, RankSteps, occ) \/ t \in CannonLine(s, FileSteps, occ)
  BY DEF RookAtt, CannonAtt, RookLine, CannonLine
<1>2. /\ t \in RookLine(s, RankSteps, occ) <=> t \in Square /\ Along(RankSteps, s, t) /\ Clear(s, t, occ)
      /\ t \in CannonLine(s, RankSteps, occ) <=> t \in Square /\ Along(RankSteps, s, t) /\ Single(s, t, occ)
      /\ t \in RookLine(s, FileSteps, occ) <=> t \in Square /\ Along(FileSteps, s, t) /\ Clear(s, t, occ)
      /\ t \in CannonLine(s, FileSteps, occ) <=> t \in Square /\ Along(FileSteps, s, t) /\ Single(s, t, occ)
  BY LineSees, SidesAre
<1>3. Sight(s, t) <=> Along(RankSteps, s, t) \/ Along(FileSteps, s, t)
  BY SidesAre DEF Sight, Along, OnLine
<1> QED BY <1>1, <1>2, <1>3

-----------------------------------------------------------------------------
(* The other pieces *)

\* There are two colors, and two turns make none.
LEMMA ColorsAre == White = 0 /\ Black = 1 /\ White # Black /\ Opp(White) = Black /\ Opp(Black) = White
                   /\ \A c \in Color : c \in {White, Black} /\ Opp(c) \in Color /\ Opp(c) # c /\ Opp(Opp(c)) = c
BY DEF White, Black, Color, Opp

\* t is df files and dr ranks from s.
Off(s, t, df, dr) == FileOf(t) = FileOf(s) + df /\ RankOf(t) = RankOf(s) + dr

\* A step leads to the square that is off by it.
LEMMA StepTo ==
  ASSUME NEW s \in Square, NEW t, NEW df \in Int, NEW dr \in Int
  PROVE  t \in Jump(s, <<df, dr>>) <=> t \in Square /\ Off(s, t, df, dr)
<1> DEFINE f == FileOf(s) + df
           r == RankOf(s) + dr
<1>1. Jump(s, <<df, dr>>) = IF f \in File /\ r \in Rank THEN {SquareAt(f, r)} ELSE {}
  BY DEF Jump
<1>2. CASE f \in File /\ r \in Rank
  <2>1. SquareAt(f, r) \in Square /\ FileOf(SquareAt(f, r)) = f /\ RankOf(SquareAt(f, r)) = r
    <3>1. f \in 0..8 /\ r \in 0..9
      BY <1>2 DEF File, Rank
    <3> HIDE DEF f, r
    <3> QED BY <3>1, SquareOf
  <2> HIDE DEF f, r
  <2>2. t \in Square /\ FileOf(t) = f /\ RankOf(t) = r => t = SquareAt(f, r)
    BY <2>1, SameSquare
  <2>3. t \in Jump(s, <<df, dr>>) <=> t \in Square /\ FileOf(t) = f /\ RankOf(t) = r
    BY <1>1, <1>2, <2>1, <2>2
  <2> QED BY <2>3 DEF Off, f, r
<1>3. CASE ~(f \in File /\ r \in Rank)
  <2>1. t \in Square => FileOf(t) \in File /\ RankOf(t) \in Rank
    BY Coordinates DEF File, Rank
  <2> QED BY <1>1, <1>3, <2>1 DEF Off
<1> QED BY <1>2, <1>3

\* The eight squares of a knight, whatever its legs.
LEMMA KnightIs ==
  ASSUME NEW s \in Square, NEW t
  PROVE  t \in KnightAttNoMask[s] <=>
           /\ t \in Square
           /\ \/ Off(s, t, -1, -2) \/ Off(s, t, -1, 2) \/ Off(s, t, 1, -2) \/ Off(s, t, 1, 2)
              \/ Off(s, t, -2, -1) \/ Off(s, t, -2, 1) \/ Off(s, t, 2, -1) \/ Off(s, t, 2, 1)
<1>1. t \in KnightAttNoMask[s] <=> \E d \in KnightSteps : t \in Jump(s, d)
  BY DEF KnightAttNoMask, Leaps
<1>2. KnightSteps = {<<-1, -2>>, <<-1, 2>>, <<1, -2>>, <<1, 2>>, <<-2, -1>>, <<-2, 1>>, <<2, -1>>, <<2, 1>>}
  BY DEF KnightSteps
<1>3. (\E d \in KnightSteps : t \in Jump(s, d)) <=>
          \/ t \in Jump(s, <<-1, -2>>) \/ t \in Jump(s, <<-1, 2>>)
          \/ t \in Jump(s, <<1, -2>>) \/ t \in Jump(s, <<1, 2>>)
          \/ t \in Jump(s, <<-2, -1>>) \/ t \in Jump(s, <<-2, 1>>)
          \/ t \in Jump(s, <<2, -1>>) \/ t \in Jump(s, <<2, 1>>)
  BY <1>2, Zenon
<1>4. /\ t \in Jump(s, <<-1, -2>>) <=> t \in Square /\ Off(s, t, -1, -2)
      /\ t \in Jump(s, <<-1, 2>>) <=> t \in Square /\ Off(s, t, -1, 2)
      /\ t \in Jump(s, <<1, -2>>) <=> t \in Square /\ Off(s, t, 1, -2)
      /\ t \in Jump(s, <<1, 2>>) <=> t \in Square /\ Off(s, t, 1, 2)
  BY StepTo
<1>5. /\ t \in Jump(s, <<-2, -1>>) <=> t \in Square /\ Off(s, t, -2, -1)
      /\ t \in Jump(s, <<-2, 1>>) <=> t \in Square /\ Off(s, t, -2, 1)
      /\ t \in Jump(s, <<2, -1>>) <=> t \in Square /\ Off(s, t, 2, -1)
      /\ t \in Jump(s, <<2, 1>>) <=> t \in Square /\ Off(s, t, 2, 1)
  BY StepTo
<1> QED BY <1>1, <1>3, <1>4, <1>5

\* The leg of a knight stands beside it and aslant of its target.
LEMMA LegIs ==
  ASSUME NEW s \in Square, NEW t \in KnightAttNoMask[s]
  PROVE  LET u == LegalLeg(s, t)
         IN /\ t \in Square /\ u \in Square /\ u # s /\ u # t
            /\ \/ Off(s, u, 0, 1) \/ Off(s, u, 0, -1) \/ Off(s, u, 1, 0) \/ Off(s, u, -1, 0)
            /\ \/ Off(t, u, 1, 1) \/ Off(t, u, 1, -1) \/ Off(t, u, -1, 1) \/ Off(t, u, -1, -1)
<1> DEFINE u == LegalLeg(s, t)
<1>1. /\ t \in Square
      /\ \/ Off(s, t, -1, -2) \/ Off(s, t, -1, 2) \/ Off(s, t, 1, -2) \/ Off(s, t, 1, 2)
         \/ Off(s, t, -2, -1) \/ Off(s, t, -2, 1) \/ Off(s, t, 2, -1) \/ Off(s, t, 2, 1)
  BY KnightIs
<1>2. FileOf(s) \in 0..8 /\ RankOf(s) \in 0..9 /\ FileOf(t) \in 0..8 /\ RankOf(t) \in 0..9
  BY <1>1, Coordinates
<1>3. CASE RankOf(t) - RankOf(s) \in {-2, 2}
  <2>1. u = SquareAt(FileOf(s), (RankOf(s) + RankOf(t)) \div 2)
    BY <1>3 DEF LegalLeg
  <2>2. CASE RankOf(t) = RankOf(s) + 2
    <3>1. (RankOf(s) + RankOf(t)) \div 2 = RankOf(s) + 1 /\ RankOf(s) + 1 \in 0..9
      BY <1>2, <2>2
    <3>2. u \in Square /\ Off(s, u, 0, 1)
      BY <1>2, <2>1, <3>1, SquareOf DEF Off
    <3> HIDE DEF u
    <3> QED BY <1>1, <1>2, <2>2, <3>2 DEF Off, u
  <2>3. CASE RankOf(t) = RankOf(s) - 2
    <3>1. (RankOf(s) + RankOf(t)) \div 2 = RankOf(s) - 1 /\ RankOf(s) - 1 \in 0..9
      BY <1>2, <2>3
    <3>2. u \in Square /\ Off(s, u, 0, -1)
      BY <1>2, <2>1, <3>1, SquareOf DEF Off
    <3> HIDE DEF u
    <3> QED BY <1>1, <1>2, <2>3, <3>2 DEF Off, u
  <2> QED BY <1>2, <1>3, <2>2, <2>3
<1>4. CASE RankOf(t) - RankOf(s) \notin {-2, 2}
  <2>1. u = SquareAt((FileOf(s) + FileOf(t)) \div 2, RankOf(s))
    BY <1>4 DEF LegalLeg
  <2>2. FileOf(t) = FileOf(s) + 2 \/ FileOf(t) = FileOf(s) - 2
    BY <1>1, <1>2, <1>4 DEF Off
  <2>3. CASE FileOf(t) = FileOf(s) + 2
    <3>1. (FileOf(s) + FileOf(t)) \div 2 = FileOf(s) + 1 /\ FileOf(s) + 1 \in 0..8
      BY <1>2, <2>3
    <3>2. u \in Square /\ Off(s, u, 1, 0)
      BY <1>2, <2>1, <3>1, SquareOf DEF Off
    <3> HIDE DEF u
    <3> QED BY <1>1, <1>2, <2>3, <3>2 DEF Off, u
  <2>4. CASE FileOf(t) = FileOf(s) - 2
    <3>1. (FileOf(s) + FileOf(t)) \div 2 = FileOf(s) - 1 /\ FileOf(s) - 1 \in 0..8
      BY <1>2, <2>4
    <3>2. u \in Square /\ Off(s, u, -1, 0)
      BY <1>2, <2>1, <3>1, SquareOf DEF Off
    <3> HIDE DEF u
    <3> QED BY <1>1, <1>2, <2>4, <3>2 DEF Off, u
  <2> QED BY <2>2, <2>3, <2>4
<1> QED BY <1>3, <1>4

\* A knight goes back the way it went.
LEMMA KnightSym ==
  ASSUME NEW s \in Square, NEW t \in Square
  PROVE  t \in KnightAttNoMask[s] <=> s \in KnightAttNoMask[t]
BY KnightIs, Coordinates DEF Off

\* A knight's move is along no line.
LEMMA KnightAside ==
  ASSUME NEW s \in Square, NEW t \in KnightAttNoMask[s]
  PROVE  t \in Square /\ s # t /\ ~SameRank(s, t) /\ ~SameFile(s, t)
BY KnightIs, Coordinates DEF Off, SameRank, SameFile

Forward(c) == IF c = White THEN 1 ELSE -1

\* The two sides advance in opposite directions.
LEMMA ForwardIs == \A c \in Color : Forward(c) \in {-1, 1} /\ Forward(Opp(c)) = -Forward(c)
BY DEF Forward, Color, Opp, White, Black

\* The half a square is in, by its rank.
LEMMA HalfIs ==
  ASSUME NEW s \in Square
  PROVE  HalfOf(s) = IF RankOf(s) <= 4 THEN White ELSE Black
BY Coordinates DEF HalfOf

\* The steps along a rank.
LEMMA SidewaysIs ==
  ASSUME NEW s \in Square, NEW t
  PROVE  t \in Leaps(s, RankSteps) <=> t \in Square /\ (Off(s, t, 1, 0) \/ Off(s, t, -1, 0))
<1>1. t \in Leaps(s, RankSteps) <=> t \in Jump(s, <<-1, 0>>) \/ t \in Jump(s, <<1, 0>>)
  BY DEF Leaps, RankSteps
<1> QED BY <1>1, StepTo

\* What a pawn attacks, ...
LEMMA PawnIs ==
  ASSUME NEW s \in Square, NEW c \in Color, NEW t
  PROVE  t \in PawnAtt[c][s] <=>
           /\ t \in Square
           /\ Off(s, t, 0, Forward(c)) \/ (HalfOf(s) # c /\ (Off(s, t, 1, 0) \/ Off(s, t, -1, 0)))
<1> DEFINE ahead == <<0, Forward(c)>>
<1>1. PawnSteps(s, c) = {ahead} \cup (IF HalfOf(s) = c THEN {} ELSE RankSteps)
  BY DEF PawnSteps, Forward
<1>2. PawnAtt[c][s] = Leaps(s, PawnSteps(s, c))
  BY DEF PawnAtt
<1> HIDE DEF ahead
<1>3. t \in PawnAtt[c][s] <=> t \in Jump(s, ahead) \/ (HalfOf(s) # c /\ t \in Leaps(s, RankSteps))
  BY <1>1, <1>2 DEF Leaps
<1>4. t \in Jump(s, ahead) <=> t \in Square /\ Off(s, t, 0, Forward(c))
  BY ForwardIs, StepTo DEF ahead
<1> QED BY <1>3, <1>4, SidewaysIs

\* ... and from where pawns attack.
LEMMA PawnFrom ==
  ASSUME NEW s \in Square, NEW c \in Color, NEW t
  PROVE  t \in PawnAttd[c][s] <=>
           /\ t \in Square
           /\ Off(s, t, 0, -Forward(c)) \/ (HalfOf(s) # c /\ (Off(s, t, 1, 0) \/ Off(s, t, -1, 0)))
<1>1. PawnAttd[c][s] = Jump(s, <<0, -Forward(c)>>) \cup (IF HalfOf(s) = c THEN {} ELSE Leaps(s, RankSteps))
  BY DEF PawnAttd, Forward
<1>2. t \in Jump(s, <<0, -Forward(c)>>) <=> t \in Square /\ Off(s, t, 0, -Forward(c))
  BY ForwardIs, StepTo
<1> QED BY <1>1, <1>2, SidewaysIs

\* The two tables of pawns say the same.
LEMMA PawnSym ==
  ASSUME NEW s \in Square, NEW t \in Square, NEW c \in Color
  PROVE  t \in PawnAtt[c][s] <=> s \in PawnAttd[c][t]
<1>1. FileOf(s) \in Int /\ RankOf(s) \in Int /\ FileOf(t) \in Int /\ RankOf(t) \in Int /\ Forward(c) \in Int
  BY Coordinates, ForwardIs
<1>2. /\ Off(s, t, 0, Forward(c)) <=> Off(t, s, 0, -Forward(c))
      /\ Off(s, t, 1, 0) <=> Off(t, s, -1, 0)
      /\ Off(s, t, -1, 0) <=> Off(t, s, 1, 0)
  BY <1>1 DEF Off
<1>3. Off(s, t, 1, 0) \/ Off(s, t, -1, 0) => HalfOf(s) = HalfOf(t)
  BY <1>1, HalfIs DEF Off
<1> QED BY <1>2, <1>3, PawnIs, PawnFrom

-----------------------------------------------------------------------------
(* Where the pieces of a color may stand *)

Home(c, s, n) == IF c = White THEN RankOf(s) <= n ELSE RankOf(s) >= 9 - n

\* The rank of a square as a player sees it.
LEMMA MirrorIs ==
  ASSUME NEW s \in Square, NEW c \in Color
  PROVE  RankOf(Rel(s, c)) = IF c = White THEN RankOf(s) ELSE 9 - RankOf(s)
<1>1. FileOf(s) \in 0..8 /\ 9 - RankOf(s) \in 0..9
  BY Coordinates
<1> QED BY <1>1, SquareOf DEF Rel, RankMirror

\* The palace of a color.
LEMMA PalaceIs ==
  ASSUME NEW s, NEW c \in Color
  PROVE  s \in KingPos(c) <=> s \in Square /\ FileOf(s) \in 3..5 /\ Home(c, s, 2)
<1>1. s \in Square => (RankOf(Rel(s, c)) \in 0..2 <=> Home(c, s, 2))
  BY MirrorIs, Coordinates DEF Home
<1> QED BY <1>1 DEF KingPos

\* A square of the palaces is in the one of its half.
LEMMA PalacesApart ==
  ASSUME NEW s \in King_Pos
  PROVE  /\ s \in Square
         /\ \A c \in Color : s \in KingPos(c) <=> Home(c, s, 4)
<1>1. \E c \in Color : s \in KingPos(c)
  BY DEF King_Pos, Color
<1>2. s \in Square
  BY <1>1, PalaceIs
<1> QED BY <1>1, <1>2, PalaceIs, Coordinates, ColorsAre DEF Home

\* The steps of a king.
LEMMA KingStep ==
  ASSUME NEW s \in King_Pos, NEW t
  PROVE  t \in KingAtt[s] <=>
           /\ t \in King_Pos
           /\ Off(s, t, 1, 0) \/ Off(s, t, -1, 0) \/ Off(s, t, 0, 1) \/ Off(s, t, 0, -1)
<1>0. s \in Square /\ \A u \in King_Pos : u \in Square
  BY PalacesApart
<1>1. KingAtt[s] = Leaps(s, RankSteps \cup FileSteps) \cap King_Pos
  BY DEF KingAtt
<1>2. t \in Leaps(s, RankSteps \cup FileSteps) <=>
        t \in Jump(s, <<-1, 0>>) \/ t \in Jump(s, <<1, 0>>) \/ t \in Jump(s, <<0, -1>>) \/ t \in Jump(s, <<0, 1>>)
  BY DEF Leaps, RankSteps, FileSteps
<1>3. /\ t \in Jump(s, <<-1, 0>>) <=> t \in Square /\ Off(s, t, -1, 0)
      /\ t \in Jump(s, <<1, 0>>) <=> t \in Square /\ Off(s, t, 1, 0)
      /\ t \in Jump(s, <<0, -1>>) <=> t \in Square /\ Off(s, t, 0, -1)
      /\ t \in Jump(s, <<0, 1>>) <=> t \in Square /\ Off(s, t, 0, 1)
  BY <1>0, StepTo
<1> QED BY <1>0, <1>1, <1>2, <1>3

\* A king stays in its palace.
LEMMA KingStays ==
  ASSUME NEW c \in Color, NEW s \in KingPos(c), NEW t \in KingAtt[s]
  PROVE  t \in KingPos(c) /\ t \in Square
<1>1. s \in King_Pos /\ s \in Square /\ Home(c, s, 2)
  BY PalaceIs, ColorsAre DEF King_Pos
<1>2. /\ t \in King_Pos
      /\ Off(s, t, 1, 0) \/ Off(s, t, -1, 0) \/ Off(s, t, 0, 1) \/ Off(s, t, 0, -1)
  BY <1>1, KingStep
<1>3. t \in Square
  BY <1>2, PalacesApart
<1>4. Home(c, t, 4)
  BY <1>1, <1>2, <1>3, Coordinates DEF Home, Off
<1> QED BY <1>2, <1>3, <1>4, PalacesApart

\* The steps aslant, of one square or of two.
LEMMA AslantIs ==
  ASSUME NEW s \in Square, NEW t, NEW n \in {1, 2}
  PROVE  t \in Leaps(s, {<<n * d[1], n * d[2]>> : d \in DiagonalSteps}) <=>
           /\ t \in Square
           /\ Off(s, t, n, n) \/ Off(s, t, n, -n) \/ Off(s, t, -n, n) \/ Off(s, t, -n, -n)
<1>1. DiagonalSteps = {<<-1, -1>>, <<-1, 1>>, <<1, -1>>, <<1, 1>>}
  BY DEF DiagonalSteps
<1>2. {<<n * d[1], n * d[2]>> : d \in DiagonalSteps} = {<<-n, -n>>, <<-n, n>>, <<n, -n>>, <<n, n>>}
  <2>1. ASSUME NEW x PROVE (\E d \in DiagonalSteps : x = <<n * d[1], n * d[2]>>)
                           <=> x = <<-n, -n>> \/ x = <<-n, n>> \/ x = <<n, -n>> \/ x = <<n, n>>
    <3>1. (\E d \in DiagonalSteps : x = <<n * d[1], n * d[2]>>)
          <=> x = <<n * (-1), n * (-1)>> \/ x = <<n * (-1), n * 1>> \/ x = <<n * 1, n * (-1)>> \/ x = <<n * 1, n * 1>>
      BY <1>1
    <3>2. n * (-1) = -n /\ n * 1 = n
      OBVIOUS
    <3> QED BY <3>1, <3>2
  <2> QED BY <2>1
<1>3. t \in Leaps(s, {<<-n, -n>>, <<-n, n>>, <<n, -n>>, <<n, n>>}) <=>
        t \in Jump(s, <<-n, -n>>) \/ t \in Jump(s, <<-n, n>>) \/ t \in Jump(s, <<n, -n>>) \/ t \in Jump(s, <<n, n>>)
  BY DEF Leaps
<1>4. n \in Int /\ -n \in Int
  OBVIOUS
<1>5. /\ t \in Jump(s, <<-n, -n>>) <=> t \in Square /\ Off(s, t, -n, -n)
      /\ t \in Jump(s, <<n, -n>>) <=> t \in Square /\ Off(s, t, n, -n)
      /\ t \in Jump(s, <<-n, n>>) <=> t \in Square /\ Off(s, t, -n, n)
      /\ t \in Jump(s, <<n, n>>) <=> t \in Square /\ Off(s, t, n, n)
  BY <1>4, StepTo
<1> QED BY <1>2, <1>3, <1>5

\* The steps of an advisor.
LEMMA AdvisorStep ==
  ASSUME NEW s \in Advisor_Pos, NEW t, s \in Square
  PROVE  t \in AdvisorAtt[s] <=>
           /\ t \in Advisor_Pos /\ t \in Square
           /\ Off(s, t, 1, 1) \/ Off(s, t, 1, -1) \/ Off(s, t, -1, 1) \/ Off(s, t, -1, -1)
<1>1. AdvisorAtt[s] = Leaps(s, DiagonalSteps) \cap Advisor_Pos
  BY DEF AdvisorAtt
<1>2. DiagonalSteps = {<<1 * d[1], 1 * d[2]>> : d \in DiagonalSteps}
  <2>1. DiagonalSteps = {<<-1, -1>>, <<-1, 1>>, <<1, -1>>, <<1, 1>>}
    BY DEF DiagonalSteps
  <2>2. /\ <<1 * (-1), 1 * (-1)>> = <<-1, -1>> /\ <<1 * (-1), 1 * 1>> = <<-1, 1>>
        /\ <<1 * 1, 1 * (-1)>> = <<1, -1>> /\ <<1 * 1, 1 * 1>> = <<1, 1>>
    OBVIOUS
  <2>3. \A d \in DiagonalSteps : d = <<1 * d[1], 1 * d[2]>>
    BY <2>1, <2>2
  <2> QED BY <2>3
<1>3. t \in Leaps(s, DiagonalSteps) <=>
           /\ t \in Square
           /\ Off(s, t, 1, 1) \/ Off(s, t, 1, -1) \/ Off(s, t, -1, 1) \/ Off(s, t, -1, -1)
  BY <1>2, AslantIs
<1> QED BY <1>1, <1>3, Zenon

\* An advisor stays where its king's advisors stand.
LEMMA AdvisorStays ==
  ASSUME NEW c \in Color, NEW s \in AdvisorPos(c), NEW t \in AdvisorAtt[s]
  PROVE  t \in AdvisorPos(c) /\ t \in KingPos(c) /\ t \in Square
<1>1. s \in KingPos(c) /\ s \in Advisor_Pos
  BY ColorsAre DEF AdvisorPos, Advisor_Pos
<1>2. s \in Square /\ Home(c, s, 2)
  BY <1>1, PalaceIs
<1>3. /\ t \in Advisor_Pos /\ t \in Square
      /\ Off(s, t, 1, 1) \/ Off(s, t, 1, -1) \/ Off(s, t, -1, 1) \/ Off(s, t, -1, -1)
  BY <1>1, <1>2, AdvisorStep
<1>4. Home(c, t, 4)
  BY <1>2, <1>3, Coordinates DEF Home, Off
<1>5. PICK d \in Color : t \in AdvisorPos(d)
  BY <1>3 DEF Advisor_Pos, Color
<1>6. t \in KingPos(d) /\ t \in King_Pos
  BY <1>5, ColorsAre DEF AdvisorPos, King_Pos
<1>7. d = c
  <2>1. Home(d, t, 2)
    BY <1>6, PalaceIs
  <2>2. c \in {White, Black} /\ d \in {White, Black} /\ White # Black /\ RankOf(t) \in 0..9
    BY <1>3, ColorsAre, Coordinates
  <2> QED BY <1>4, <2>1, <2>2 DEF Home
<1> QED BY <1>3, <1>5, <1>6, <1>7

\* A bishop stands on its own side of the river.
LEMMA BishopPlace ==
  ASSUME NEW s, NEW c \in Color
  PROVE  s \in BishopPos(c) => s \in Square /\ s \in Bishop_Pos /\ Home(c, s, 4)
<1>1. ASSUME s \in BishopPos(c) PROVE RankOf(Rel(s, c)) \in {0, 2, 4} /\ s \in Square
  BY <1>1 DEF BishopPos
<1>2. ASSUME s \in BishopPos(c) PROVE s \in Bishop_Pos /\ Home(c, s, 4)
  <2>1. c \in {White, Black} /\ White # Black /\ RankOf(s) \in 0..9
    BY <1>1, <1>2, ColorsAre, Coordinates
  <2>2. RankOf(Rel(s, c)) = IF c = White THEN RankOf(s) ELSE 9 - RankOf(s)
    BY <1>1, <1>2, MirrorIs
  <2>3. RankOf(Rel(s, c)) \in {0, 2, 4}
    BY <1>1, <1>2
  <2>4. Home(c, s, 4)
    BY <2>1, <2>2, <2>3 DEF Home
  <2>5. s \in Bishop_Pos
    BY <1>2, <2>1 DEF Bishop_Pos
  <2> QED BY <2>4, <2>5
<1> QED BY <1>1, <1>2

\* The steps of a bishop.
LEMMA BishopStep ==
  ASSUME NEW s \in Bishop_Pos, NEW t, s \in Square
  PROVE  t \in BishopAttNoMask[s] <=>
           /\ t \in Bishop_Pos /\ t \in Square
           /\ Off(s, t, 2, 2) \/ Off(s, t, 2, -2) \/ Off(s, t, -2, 2) \/ Off(s, t, -2, -2)
<1>1. BishopAttNoMask[s] = Leaps(s, {<<2 * d[1], 2 * d[2]>> : d \in DiagonalSteps}) \cap Bishop_Pos
  BY DEF BishopAttNoMask
<1> QED BY <1>1, AslantIs

\* A bishop does not cross the river.
LEMMA BishopStays ==
  ASSUME NEW c \in Color, NEW s \in BishopPos(c), NEW t \in BishopAttNoMask[s]
  PROVE  t \in BishopPos(c) /\ t \in Square /\ Home(c, t, 4)
<1>1. s \in Square /\ s \in Bishop_Pos /\ RankOf(Rel(s, c)) \in {0, 2, 4}
  BY BishopPlace DEF BishopPos
<1>2. /\ t \in Bishop_Pos /\ t \in Square
      /\ Off(s, t, 2, 2) \/ Off(s, t, 2, -2) \/ Off(s, t, -2, 2) \/ Off(s, t, -2, -2)
  BY <1>1, BishopStep
<1>3. PICK d \in Color : t \in BishopPos(d)
  BY <1>2 DEF Bishop_Pos, Color
<1>4. RankOf(Rel(t, d)) \in {0, 2, 4}
  BY <1>3 DEF BishopPos
<1>5. RankOf(s) \in {IF c = White THEN 0 ELSE 9, IF c = White THEN 2 ELSE 7, IF c = White THEN 4 ELSE 5}
  BY <1>1, MirrorIs, Coordinates
<1>6. RankOf(t) \in {IF d = White THEN 0 ELSE 9, IF d = White THEN 2 ELSE 7, IF d = White THEN 4 ELSE 5}
  BY <1>2, <1>4, MirrorIs, Coordinates
<1>7. RankOf(t) = RankOf(s) + 2 \/ RankOf(t) = RankOf(s) - 2
  BY <1>1, <1>2, Coordinates DEF Off
<1>8. c \in {White, Black} /\ d \in {White, Black} /\ White # Black
  BY ColorsAre
<1>9. d = c
  BY <1>5, <1>6, <1>7, <1>8
<1> QED BY <1>2, <1>3, <1>9, BishopPlace

\* A pawn stands beyond the river, or on one of ten squares before it.
LEMMA PawnPlace ==
  ASSUME NEW s, NEW c \in Color
  PROVE  s \in PawnPos(c) <=>
           /\ s \in Square
           /\ \/ HalfOf(s) # c
              \/ (IF c = White THEN RankOf(s) \in {3, 4} ELSE RankOf(s) \in {5, 6}) /\ FileOf(s) % 2 = 0
<1>1. s \in Square => (RankOf(Rel(s, c)) >= 5 <=> HalfOf(s) # c)
  <2> SUFFICES ASSUME s \in Square PROVE RankOf(Rel(s, c)) >= 5 <=> HalfOf(s) # c
    OBVIOUS
  <2>1. c \in {White, Black} /\ White # Black /\ RankOf(s) \in 0..9
    BY ColorsAre, Coordinates
  <2>2. RankOf(Rel(s, c)) = IF c = White THEN RankOf(s) ELSE 9 - RankOf(s)
    BY MirrorIs
  <2>3. HalfOf(s) = IF RankOf(s) <= 4 THEN White ELSE Black
    BY HalfIs
  <2> QED BY <2>1, <2>2, <2>3
<1>2. s \in Square => (RankOf(Rel(s, c)) \in {3, 4} <=> IF c = White THEN RankOf(s) \in {3, 4} ELSE RankOf(s) \in {5, 6})
  BY MirrorIs, Coordinates, ColorsAre
<1> QED BY <1>1, <1>2 DEF PawnPos

\* A pawn goes where pawns may stand.
LEMMA PawnStays ==
  ASSUME NEW c \in Color, NEW s \in PawnPos(c), NEW t \in PawnAtt[c][s]
  PROVE  t \in PawnPos(c) /\ t \in Square
<1>1. s \in Square
  BY PawnPlace
<1>2. /\ t \in Square
      /\ Off(s, t, 0, Forward(c)) \/ (HalfOf(s) # c /\ (Off(s, t, 1, 0) \/ Off(s, t, -1, 0)))
  BY <1>1, PawnIs
<1>3. c \in {White, Black} /\ White # Black
  BY ColorsAre
<1>4. /\ HalfOf(s) = IF RankOf(s) <= 4 THEN White ELSE Black
      /\ HalfOf(t) = IF RankOf(t) <= 4 THEN White ELSE Black
      /\ RankOf(s) \in 0..9 /\ RankOf(t) \in 0..9 /\ FileOf(s) \in Int /\ FileOf(t) \in Int
  BY <1>1, <1>2, HalfIs, Coordinates
<1>5. CASE HalfOf(s) # c
  <2>1. HalfOf(t) # c
    BY <1>2, <1>3, <1>4, <1>5 DEF Off, Forward
  <2> QED BY <1>2, <2>1, PawnPlace
<1>6. CASE HalfOf(s) = c
  <2>1. /\ IF c = White THEN RankOf(s) \in {3, 4} ELSE RankOf(s) \in {5, 6}
        /\ FileOf(s) % 2 = 0
    BY <1>6, PawnPlace
  <2>2. FileOf(t) = FileOf(s) /\ RankOf(t) = RankOf(s) + Forward(c)
    BY <1>2, <1>4, <1>6 DEF Off
  <2>3. HalfOf(t) # c \/ (IF c = White THEN RankOf(t) \in {3, 4} ELSE RankOf(t) \in {5, 6})
    BY <1>3, <1>4, <2>1, <2>2 DEF Forward
  <2> QED BY <1>2, <2>1, <2>2, <2>3, PawnPlace
<1> QED BY <1>5, <1>6

-----------------------------------------------------------------------------
(* Attacks on a king *)

Fit(p) == IsPosition(p) /\ FromFen(p)

TypeAt(p, s) == TypeOf(p.board[s])

\* A piece of the type and color c on a attacks the king on k; a king, by facing it.
Aims(type, c, a, k, occ) ==
  \/ type = "r" /\ Sight(k, a) /\ Clear(k, a, occ)
  \/ type = "c" /\ Sight(k, a) /\ Single(k, a, occ)
  \/ type = "n" /\ a \in KnightAttNoMask[k] /\ LegalLeg(a, k) \notin occ
  \/ type = "p" /\ a \in PawnAttd[c][k]
  \/ type = "k" /\ a # k /\ SameFile(k, a) /\ Clear(k, a, occ)

\* The king of color me is attacked or faces the other.
Exposed(p, me) ==
  \E a \in Us(p, Opp(me)) : Aims(TypeAt(p, a), Opp(me), a, KingSq(p, me), Occ(p))

\* What a position that was read consists of.
LEMMA FitTypes ==
  ASSUME NEW p, Fit(p)
  PROVE  /\ Occ(p) \in SUBSET Square /\ p.turn \in Color
         /\ \A s \in Occ(p) : /\ p.board[s] \in Piece /\ ColorOf(p.board[s]) \in Color /\ TypeAt(p, s) \in Type
                              /\ p.board[s] = <<ColorOf(p.board[s]), TypeAt(p, s)>>
         /\ \A c : Us(p, c) \subseteq Occ(p)
         /\ \A s \in Occ(p), c \in Color : s \in Us(p, c) \/ s \in Us(p, Opp(c))
         /\ \A c \in Color : Us(p, c) \cap Us(p, Opp(c)) = {}
         /\ \A type : \A s \in Occ(p) : p.board[s] = <<ColorOf(p.board[s]), type>> <=> TypeAt(p, s) = type
         /\ \A c, types : Pieces(p, c, types) = {s \in Us(p, c) : TypeAt(p, s) \in types}
<1>1. Occ(p) \in SUBSET Square /\ p.turn \in Color /\ \A s \in Occ(p) : p.board[s] \in Piece
  BY DEF Fit, IsPosition, Occ
<1>2. ASSUME NEW s \in Occ(p)
      PROVE  /\ ColorOf(p.board[s]) \in Color /\ TypeAt(p, s) \in Type
             /\ p.board[s] = <<ColorOf(p.board[s]), TypeAt(p, s)>>
  <2>1. p.board[s] \in Color \X Type
    BY <1>1 DEF Piece
  <2> QED BY <2>1 DEF ColorOf, TypeOf, TypeAt
<1>3. \A s \in Occ(p), c \in Color : s \in Us(p, c) \/ s \in Us(p, Opp(c))
  <2> SUFFICES ASSUME NEW s \in Occ(p), NEW c \in Color PROVE ColorOf(p.board[s]) \in {c, Opp(c)}
    BY DEF Us
  <2> QED BY <1>2, ColorsAre
<1>4. \A c \in Color : Us(p, c) \cap Us(p, Opp(c)) = {}
  BY ColorsAre DEF Us
<1>5. \A type : \A s \in Occ(p) : p.board[s] = <<ColorOf(p.board[s]), type>> <=> TypeAt(p, s) = type
  BY <1>2 DEF TypeAt, TypeOf
<1>6. \A c, types : Pieces(p, c, types) = {s \in Us(p, c) : TypeAt(p, s) \in types}
  BY DEF Pieces, Us, TypeAt
<1> QED BY <1>1, <1>2, <1>3, <1>4, <1>5, <1>6 DEF Us

\* A set of squares is finite.
LEMMA Finite ==
  ASSUME NEW S \in SUBSET Square
  PROVE  IsFiniteSet(S) /\ Cardinality(S) \in Nat
<1>1. IsFiniteSet(0..89)
  <2>1. 0 \in Int /\ 89 \in Int
    OBVIOUS
  <2> QED BY <2>1, FS_Interval, Zenon
<1>2. IsFiniteSet(S)
  BY <1>1, FS_Subset DEF Square
<1> QED BY <1>2, FS_CardinalityType

\* A side has one king, in its palace, and KingSq finds it.
LEMMA KingStands ==
  ASSUME NEW p, Fit(p), NEW c \in Color
  PROVE  LET k == KingSq(p, c)
         IN /\ k \in Square /\ k \in Us(p, c) /\ p.board[k] = <<c, "k">> /\ TypeAt(p, k) = "k"
            /\ k \in KingPos(c)
            /\ \A s \in Us(p, c) : TypeAt(p, s) = "k" => s = k
<1> DEFINE kings == {s \in Occ(p) : p.board[s] = <<c, "k">>}
           k == KingSq(p, c)
<1>0. Occ(p) \in SUBSET Square
  BY FitTypes
<1>1. Cardinality(kings) = 1
  BY DEF Fit, FromFen, Number
<1>2. IsFiniteSet(kings)
  BY <1>0, Finite
<1>3. PICK s : kings = {s}
  <2> HIDE DEF kings
  <2> QED BY <1>1, <1>2, FS_Singleton
<1>4. k \in Occ(p) /\ p.board[k] = <<c, "k">>
  BY <1>3 DEF KingSq
<1>5. \A t \in Occ(p) : p.board[t] = <<c, "k">> => t = k
  BY <1>3, <1>4
<1>6. ColorOf(p.board[k]) = c /\ TypeAt(p, k) = "k" /\ TypeOf(p.board[k]) = "k"
  BY <1>4 DEF ColorOf, TypeAt, TypeOf
<1>7. Within(k, "k", c)
  <2>1. "k" \in DOMAIN PosOf
    BY DEF PosOf
  <2> QED BY <1>4, <1>6, <2>1 DEF Fit, FromFen
<1>8. k \in KingPos(c)
  BY <1>7 DEF Within, PosOf
<1>9. ASSUME NEW t \in Us(p, c), TypeAt(p, t) = "k" PROVE t = k
  <2>1. t \in Occ(p) /\ ColorOf(p.board[t]) = c
    BY DEF Us
  <2>2. p.board[t] = <<c, "k">>
    BY <1>9, <2>1, FitTypes
  <2> QED BY <1>5, <2>1, <2>2
<1> HIDE DEF k
<1> QED BY <1>0, <1>4, <1>6, <1>8, <1>9 DEF Us, k

\* Where a piece of the four types stands that have their places.
LEMMA PlaceOf ==
  ASSUME NEW p, Fit(p), NEW c \in Color, NEW s \in Us(p, c)
  PROVE  /\ TypeAt(p, s) = "k" => s \in KingPos(c)
         /\ TypeAt(p, s) = "a" => s \in AdvisorPos(c)
         /\ TypeAt(p, s) = "b" => s \in BishopPos(c)
         /\ TypeAt(p, s) = "p" => s \in PawnPos(c)
<1>1. s \in Occ(p) /\ ColorOf(p.board[s]) = c
  BY DEF Us
<1>2. TypeAt(p, s) \in {"k", "a", "b", "p"} => s \in PosOf[TypeAt(p, s)][c]
  BY <1>1 DEF Fit, FromFen, PosOf, Within, TypeAt
<1> QED BY <1>2 DEF PosOf

\* An attack is seen from the king: by what leaps, and along lines.
LEMMA AimsOther ==
  ASSUME NEW type, NEW c \in Color, NEW a \in Square, NEW k \in Square, NEW occ
  PROVE  /\ \A x \in {a, k} : Aims(type, c, a, k, occ) <=> Aims(type, c, a, k, occ \cup {x})
         /\ ~Aims(type, c, k, k, occ)
         /\ Aims("r", c, a, k, occ) <=> a \in RookAtt(k, occ)
         /\ Aims("c", c, a, k, occ) <=> a \in CannonAtt(k, occ)
         /\ Aims("n", c, a, k, occ) <=> a \in KnightAttd(k, occ)
         /\ Aims("p", c, a, k, occ) <=> a \in PawnAttd[c][k]
         /\ Aims("k", c, a, k, occ) <=> a # k /\ SameFile(k, a) /\ Between(k, a) \cap occ = {}
         /\ type \notin {"r", "c", "n", "p", "k"} => ~Aims(type, c, a, k, occ)
<1>1. \A x \in {a, k} : ~Amid(k, x, a)
  BY Coordinates DEF Amid, Mid
<1>2. \A x \in {a, k} : /\ Clear(k, a, occ) <=> Clear(k, a, occ \cup {x})
                        /\ Single(k, a, occ) <=> Single(k, a, occ \cup {x})
  BY <1>1 DEF Clear, Single
<1>3. a \in KnightAttNoMask[k] => LegalLeg(a, k) \notin {a, k}
  BY KnightSym, LegIs
<1>4. ~Aims(type, c, k, k, occ)
  <2>1. k \notin KnightAttNoMask[k]
    BY KnightAside
  <2>2. k \notin PawnAttd[c][k]
    BY PawnFrom, ForwardIs, Coordinates DEF Off
  <2> QED BY <2>1, <2>2 DEF Aims, Sight
<1>5. a \in KnightAttd(k, occ) <=> a \in KnightAttNoMask[k] /\ LegalLeg(a, k) \notin occ
  BY DEF KnightAttd
<1>6. SameFile(k, a) => (Between(k, a) \cap occ = {} <=> Clear(k, a, occ))
  BY CountIs DEF OnLine
<1>7. /\ Aims("r", c, a, k, occ) <=> a \in RookAtt(k, occ)
      /\ Aims("c", c, a, k, occ) <=> a \in CannonAtt(k, occ)
  BY AllSees DEF Aims
<1>8. \A x \in {a, k} : Aims(type, c, a, k, occ) <=> Aims(type, c, a, k, occ \cup {x})
  BY <1>2, <1>3 DEF Aims
<1> QED BY <1>4, <1>5, <1>6, <1>7, <1>8 DEF Aims

\* Attacks by type, and all at once.
Struck(p, opp, k, occ, gone) ==
  \E a \in Us(p, opp) \ gone : Aims(TypeAt(p, a), opp, a, k, occ)

\* The test of a side in check looks for a piece that strikes the king.
LEMMA AttackedIs ==
  ASSUME NEW p, Fit(p), NEW opp \in Color, NEW k \in Square, k # KingSq(p, opp),
         NEW occ, NEW gone, KingSq(p, opp) \notin gone
  PROVE  Attacked(p, k, opp, occ, gone) <=> Struck(p, opp, k, occ, gone)
<1> DEFINE of(type) == Pieces(p, opp, {type}) \ gone
           K == KingSq(p, opp)
<1>1. /\ \A type, a : a \in of(type) <=> a \in Us(p, opp) \ gone /\ TypeAt(p, a) = type
      /\ Us(p, opp) \subseteq Square
  BY FitTypes
<1>2. K \in Square /\ K \in Us(p, opp) \ gone /\ \A s \in Us(p, opp) : TypeAt(p, s) = "k" <=> s = K
  BY KingStands
<1>3. Attacked(p, k, opp, occ, gone) <=>
         \/ \E a \in of("r") : a \in RookAtt(k, occ)
         \/ \E a \in of("c") : a \in CannonAtt(k, occ)
         \/ \E a \in of("n") : a \in KnightAttd(k, occ)
         \/ \E a \in of("p") : a \in PawnAttd[opp][k]
         \/ SameFile(k, K) /\ Between(k, K) \cap occ = {}
  BY DEF Attacked
<1> HIDE DEF of, K
<1>4. ASSUME NEW a \in Us(p, opp) \ gone
      PROVE  Aims(TypeAt(p, a), opp, a, k, occ) <=>
               \/ a \in of("r") /\ a \in RookAtt(k, occ)
               \/ a \in of("c") /\ a \in CannonAtt(k, occ)
               \/ a \in of("n") /\ a \in KnightAttd(k, occ)
               \/ a \in of("p") /\ a \in PawnAttd[opp][k]
               \/ a = K /\ SameFile(k, K) /\ Between(k, K) \cap occ = {}
  <2>1. /\ Aims("r", opp, a, k, occ) <=> a \in RookAtt(k, occ)
        /\ Aims("c", opp, a, k, occ) <=> a \in CannonAtt(k, occ)
        /\ Aims("n", opp, a, k, occ) <=> a \in KnightAttd(k, occ)
        /\ Aims("p", opp, a, k, occ) <=> a \in PawnAttd[opp][k]
        /\ Aims("k", opp, a, k, occ) <=> a # k /\ SameFile(k, a) /\ Between(k, a) \cap occ = {}
        /\ TypeAt(p, a) \notin {"r", "c", "n", "p", "k"} => ~Aims(TypeAt(p, a), opp, a, k, occ)
    BY <1>1, AimsOther
  <2>2. k # K
    BY DEF K
  <2>3. CASE TypeAt(p, a) = "r"
    BY <1>1, <1>2, <2>1, <2>3
  <2>4. CASE TypeAt(p, a) = "c"
    BY <1>1, <1>2, <2>1, <2>4
  <2>5. CASE TypeAt(p, a) = "n"
    BY <1>1, <1>2, <2>1, <2>5
  <2>6. CASE TypeAt(p, a) = "p"
    BY <1>1, <1>2, <2>1, <2>6
  <2>7. CASE TypeAt(p, a) = "k"
    BY <1>1, <1>2, <2>1, <2>2, <2>7
  <2>8. CASE TypeAt(p, a) \notin {"r", "c", "n", "p", "k"}
    BY <1>1, <1>2, <2>1, <2>8
  <2> QED BY <2>3, <2>4, <2>5, <2>6, <2>7, <2>8
<1>5. \A type : \A a \in of(type) : a \in Us(p, opp) \ gone
  BY <1>1
<1> QED BY <1>2, <1>3, <1>4, <1>5 DEF Struck

\* The kings' palaces are apart.
LEMMA KingsApart ==
  ASSUME NEW c \in Color, NEW s \in KingPos(c), NEW t \in KingPos(Opp(c))
  PROVE  s # t /\ ~SameRank(s, t) /\ t \notin KingPos(c)
<1>1. s \in Square /\ t \in Square /\ Home(c, s, 2) /\ Home(Opp(c), t, 2)
  BY PalaceIs, ColorsAre
<1>2. c \in {White, Black} /\ Opp(c) \in {White, Black} /\ White # Black /\ Opp(c) # c
  BY ColorsAre
<1>3. RankOf(s) \in 0..9 /\ RankOf(t) \in 0..9
  BY <1>1, Coordinates
<1>4. RankOf(s) # RankOf(t) /\ ~Home(c, t, 2)
  BY <1>1, <1>2, <1>3 DEF Home
<1> QED BY <1>4, PalaceIs DEF SameRank

\* A king is exposed if it is in check or faces the other.
LEMMA ExposedIs ==
  ASSUME NEW p, Fit(p), NEW me \in Color
  PROVE  Exposed(p, me) <=> InCheck(p, me) \/ KingsFace(p)
<1> DEFINE k == KingSq(p, me)
           K == KingSq(p, Opp(me))
<1>0. Opp(me) \in Color
  BY ColorsAre
<1>1. k \in Square /\ K \in Square /\ k \in KingPos(me) /\ K \in KingPos(Opp(me))
  BY <1>0, KingStands
<1>2. k # K
  BY <1>1, KingsApart
<1>3. Attacked(p, k, Opp(me), Occ(p), {}) <=> Struck(p, Opp(me), k, Occ(p), {})
  BY <1>0, <1>1, <1>2, AttackedIs
<1>4. Struck(p, Opp(me), k, Occ(p), {}) <=> Exposed(p, me)
  BY DEF Struck, Exposed
<1>5. KingsFace(p) <=> SameFile(k, K) /\ Between(k, K) \cap Occ(p) = {}
  <2>1. me \in {White, Black} /\ White # Black /\ Opp(me) = IF me = White THEN Black ELSE White
    BY ColorsAre
  <2>2. CASE me = White
    BY <2>1, <2>2 DEF KingsFace
  <2>3. CASE me = Black
    <3>1. KingsFace(p) <=> SameFile(K, k) /\ Between(K, k) \cap Occ(p) = {}
      BY <2>1, <2>3 DEF KingsFace
    <3> HIDE DEF k, K
    <3>2. SameFile(K, k) <=> SameFile(k, K)
      BY DEF SameFile
    <3>3. SameFile(k, K) => (Between(K, k) \cap Occ(p) = {} <=> Between(k, K) \cap Occ(p) = {})
      BY <1>1, <3>2, CountIs, ClearSym DEF OnLine
    <3> QED BY <3>1, <3>2, <3>3
  <2> QED BY <2>1, <2>2, <2>3
<1>6. Attacked(p, k, Opp(me), Occ(p), {}) <=>
        InCheck(p, me) \/ (SameFile(k, K) /\ Between(k, K) \cap Occ(p) = {})
  BY DEF Attacked, InCheck
<1> QED BY <1>3, <1>4, <1>5, <1>6

-----------------------------------------------------------------------------
(* What a move of the pieces does *)

\* The moving piece, on the lines it goes along.
LEMMA PseudoIs ==
  ASSUME NEW p, Fit(p), NEW m, To(m) \in Square, MoveIsPseudo(p, m)
  PROVE  LET from == From(m)
             to == To(m)
             type == TypeAt(p, from)
         IN /\ from \in Us(p, p.turn) /\ from \in Square /\ to \notin Us(p, p.turn) /\ from # to
            /\ \/ type = "r" /\ OnLine(from, to) /\ Clear(from, to, Occ(p))
               \/ type = "c" /\ OnLine(from, to) /\ IF to \in Occ(p) THEN Single(from, to, Occ(p))
                                                    ELSE Clear(from, to, Occ(p))
               \/ type = "n" /\ to \in KnightAttNoMask[from] /\ LegalLeg(from, to) \notin Occ(p)
               \/ type = "b" /\ to \in BishopAttNoMask[from] /\ (from + to) \div 2 \notin Occ(p)
               \/ type = "a" /\ to \in AdvisorAtt[from]
               \/ type = "p" /\ to \in PawnAtt[p.turn][from]
               \/ type = "k" /\ to \in KingAtt[from]
<1> DEFINE from == From(m)
           to == To(m)
           type == TypeAt(p, from)
<1>1. from \in Us(p, p.turn) /\ to \notin Us(p, p.turn) /\ from # to
  BY DEF MoveIsPseudo
<1>2. from \in Square /\ type \in Type
  BY <1>1, FitTypes
<1>3. /\ type = "r" => OnLine(from, to) /\ Screens(p, from, to) = 0
      /\ type = "c" => OnLine(from, to) /\ Screens(p, from, to) = IF to \in Occ(p) THEN 1 ELSE 0
      /\ type = "n" => to \in KnightAttNoMask[from] /\ LegalLeg(from, to) \notin Occ(p)
      /\ type = "b" => to \in BishopAttNoMask[from] /\ (from + to) \div 2 \notin Occ(p)
      /\ type = "a" => to \in AdvisorAtt[from]
      /\ type = "p" => to \in PawnAtt[p.turn][from]
      /\ type = "k" => to \in KingAtt[from]
  BY DEF MoveIsPseudo, TypeAt
<1>4. OnLine(from, to) => /\ Screens(p, from, to) = 0 <=> Clear(from, to, Occ(p))
                          /\ Screens(p, from, to) = 1 <=> Single(from, to, Occ(p))
  BY <1>2, CountIs DEF Screens
<1> HIDE DEF from, to, type
<1>5. type \in {"k", "r", "n", "c", "a", "b", "p"}
  BY <1>2 DEF Type
<1>6. type = "c" => OnLine(from, to) /\ IF to \in Occ(p) THEN Single(from, to, Occ(p))
                                                    ELSE Clear(from, to, Occ(p))
  BY <1>3, <1>4
<1>7. type = "r" => OnLine(from, to) /\ Clear(from, to, Occ(p))
  BY <1>3, <1>4
<1> QED BY <1>1, <1>2, <1>3, <1>5, <1>6, <1>7 DEF from, to, type

\* The side to move and the other.
LEMMA TurnColors ==
  ASSUME NEW p, Fit(p)
  PROVE  p.turn \in Color /\ Opp(p.turn) \in Color /\ Opp(Opp(p.turn)) = p.turn /\ Opp(p.turn) # p.turn
BY FitTypes, ColorsAre

\* A king is not taken: whoever could take it attacks it already.
LEMMA KingSpared ==
  ASSUME NEW p, Fit(p), ~Exposed(p, Opp(p.turn)), NEW m, To(m) \in Square, MoveIsPseudo(p, m)
  PROVE  To(m) # KingSq(p, Opp(p.turn))
<1> DEFINE c == p.turn
           K == KingSq(p, Opp(c))
           from == From(m)
           type == TypeAt(p, from)
<1> SUFFICES ASSUME To(m) = K PROVE FALSE
  OBVIOUS
<1>1. c \in Color /\ Opp(c) \in Color /\ Opp(Opp(c)) = c /\ Opp(c) # c
  BY TurnColors
<1>2. K \in Square /\ K \in Us(p, Opp(c)) /\ K \in KingPos(Opp(c)) /\ K \in Occ(p)
  BY <1>1, KingStands, FitTypes
<1>3. /\ from \in Us(p, c) /\ from \in Square /\ from # K
      /\ \/ type = "r" /\ OnLine(from, K) /\ Clear(from, K, Occ(p))
         \/ type = "c" /\ OnLine(from, K) /\ IF K \in Occ(p) THEN Single(from, K, Occ(p))
                                              ELSE Clear(from, K, Occ(p))
         \/ type = "n" /\ K \in KnightAttNoMask[from] /\ LegalLeg(from, K) \notin Occ(p)
         \/ type = "b" /\ K \in BishopAttNoMask[from] /\ (from + K) \div 2 \notin Occ(p)
         \/ type = "a" /\ K \in AdvisorAtt[from]
         \/ type = "p" /\ K \in PawnAtt[c][from]
         \/ type = "k" /\ K \in KingAtt[from]
  BY PseudoIs
<1>4. ~Aims(type, c, from, K, Occ(p))
  BY <1>1, <1>3 DEF Exposed
<1>5. /\ type = "k" => from \in KingPos(c)
      /\ type = "a" => from \in AdvisorPos(c)
      /\ type = "b" => from \in BishopPos(c)
  BY <1>1, <1>3, PlaceOf
<1> HIDE DEF c, K, from, type
<1>6. OnLine(K, from) <=> OnLine(from, K)
  BY DEF OnLine, SameRank, SameFile
<1>7. CASE type = "r"
  BY <1>2, <1>3, <1>4, <1>6, <1>7, ClearSym DEF Aims, Sight
<1>8. CASE type = "c"
  BY <1>2, <1>3, <1>4, <1>6, <1>8, ClearSym DEF Aims, Sight
<1>9. CASE type = "n"
  BY <1>2, <1>3, <1>4, <1>9, KnightSym DEF Aims
<1>10. CASE type = "p"
  BY <1>1, <1>2, <1>3, <1>4, <1>10, PawnSym DEF Aims
<1>11. CASE type = "k"
  <2>0. K \in KingAtt[from] /\ from \in KingPos(c)
    BY <1>3, <1>5, <1>11
  <2>1. K \in KingPos(c)
    BY <1>1, <2>0, KingStays
  <2> QED BY <1>1, <1>2, <2>1, KingsApart
<1>12. CASE type = "a"
  <2>0. K \in AdvisorAtt[from] /\ from \in AdvisorPos(c)
    BY <1>3, <1>5, <1>12
  <2>1. K \in KingPos(c)
    BY <1>1, <2>0, AdvisorStays
  <2> QED BY <1>1, <1>2, <2>1, KingsApart
<1>13. CASE type = "b"
  <2>1. Home(c, K, 4)
    BY <1>1, <1>3, <1>5, <1>13, BishopStays
  <2>2. Home(Opp(c), K, 2)
    BY <1>1, <1>2, PalaceIs
  <2>3. c \in {White, Black} /\ Opp(c) \in {White, Black} /\ White # Black /\ RankOf(K) \in 0..9
    BY <1>1, <1>2, ColorsAre, Coordinates
  <2> QED BY <1>1, <2>1, <2>2, <2>3 DEF Home
<1> QED BY <1>3, <1>7, <1>8, <1>9, <1>10, <1>11, <1>12, <1>13

\* The pieces after a move.
LEMMA UsAfter ==
  ASSUME NEW p, Fit(p), NEW m, To(m) \in Square, From(m) \in Us(p, p.turn), To(m) \notin Us(p, p.turn)
  PROVE  LET q == After(p, m)
         IN /\ Occ(q) = (Occ(p) \ {From(m)}) \cup {To(m)} /\ q.turn = Opp(p.turn) /\ From(m) # To(m)
            /\ q.board[To(m)] = p.board[From(m)] /\ TypeAt(q, To(m)) = TypeAt(p, From(m))
            /\ \A s \in Occ(p) \ {From(m), To(m)} : q.board[s] = p.board[s] /\ TypeAt(q, s) = TypeAt(p, s)
            /\ Us(q, p.turn) = (Us(p, p.turn) \ {From(m)}) \cup {To(m)}
            /\ Us(q, Opp(p.turn)) = Us(p, Opp(p.turn)) \ {To(m)}
            /\ IsPosition(q)
<1> DEFINE q == After(p, m)
           c == p.turn
<1>1. IsPosition(p) /\ Movable(p, m)
  BY DEF Fit, Movable
<1>2. /\ From(m) \in Occ(p) /\ From(m) # To(m)
      /\ Occ(q) = (Occ(p) \ {From(m)}) \cup {To(m)}
      /\ q.board[To(m)] = p.board[From(m)]
      /\ \A s \in Occ(p) \ {From(m), To(m)} : q.board[s] = p.board[s]
      /\ q.turn = Opp(p.turn)
  BY <1>1, NextBoard
<1>3. IsPosition(q)
  BY <1>1, NextPosition
<1>4. \A s, d : s \in Us(q, d) <=> s \in Occ(q) /\ ColorOf(q.board[s]) = d
  BY DEF Us
<1>5. \A s, d : s \in Us(p, d) <=> s \in Occ(p) /\ ColorOf(p.board[s]) = d
  BY DEF Us
<1>6. c \in Color /\ Opp(c) # c
  BY TurnColors
<1> HIDE DEF q, c
<1>7. Us(q, c) = (Us(p, c) \ {From(m)}) \cup {To(m)}
  BY <1>2, <1>4, <1>5, <1>6 DEF c
<1>8. Us(q, Opp(c)) = Us(p, Opp(c)) \ {To(m)}
  BY <1>2, <1>4, <1>5, <1>6 DEF c
<1> QED BY <1>2, <1>3, <1>7, <1>8 DEF q, c, TypeAt

\* The place a piece goes to is one for it.
LEMMA TargetFits ==
  ASSUME NEW p, Fit(p), NEW m, To(m) \in Square, MoveIsPseudo(p, m),
         TypeAt(p, From(m)) \in DOMAIN PosOf
  PROVE  Within(To(m), TypeAt(p, From(m)), p.turn)
<1> DEFINE c == p.turn
           from == From(m)
           to == To(m)
           type == TypeAt(p, from)
<1>1. c \in Color
  BY TurnColors
<1>2. type \in {"k", "a", "b", "p"}
  BY DEF PosOf
<1>3. /\ from \in Us(p, c)
      /\ \/ type = "b" /\ to \in BishopAttNoMask[from]
         \/ type = "a" /\ to \in AdvisorAtt[from]
         \/ type = "p" /\ to \in PawnAtt[c][from]
         \/ type = "k" /\ to \in KingAtt[from]
  <2>1. LET t == TypeAt(p, from) IN
            /\ from \in Us(p, p.turn)
            /\ \/ t = "r" \/ t = "c" \/ t = "n"
               \/ t = "b" /\ to \in BishopAttNoMask[from]
               \/ t = "a" /\ to \in AdvisorAtt[from]
               \/ t = "p" /\ to \in PawnAtt[p.turn][from]
               \/ t = "k" /\ to \in KingAtt[from]
    BY PseudoIs
  <2> QED BY <1>2, <2>1
<1>4. /\ type = "k" => from \in KingPos(c)
      /\ type = "a" => from \in AdvisorPos(c)
      /\ type = "b" => from \in BishopPos(c)
      /\ type = "p" => from \in PawnPos(c)
  BY <1>1, <1>3, PlaceOf
<1>5. /\ PosOf["k"][c] = KingPos(c) /\ PosOf["a"][c] = AdvisorPos(c)
      /\ PosOf["b"][c] = BishopPos(c) /\ PosOf["p"][c] = PawnPos(c)
  BY <1>1 DEF PosOf
<1> HIDE DEF c, from, to, type
<1>6. /\ type = "k" => to \in KingPos(c)
      /\ type = "a" => to \in AdvisorPos(c)
      /\ type = "b" => to \in BishopPos(c)
      /\ type = "p" => to \in PawnPos(c)
  BY <1>1, <1>3, <1>4, KingStays, AdvisorStays, BishopStays, PawnStays
<1>7. to \in PosOf[type][c]
  BY <1>2, <1>5, <1>6
<1> QED BY <1>7 DEF Within, c, from, to, type

\* One piece less, or in another place.
LEMMA NumberAfter ==
  ASSUME NEW p, Fit(p), NEW m, To(m) \in Square, From(m) \in Us(p, p.turn), To(m) \notin Us(p, p.turn),
         NEW piece
  PROVE  /\ Number(After(p, m), piece) <= Number(p, piece)
         /\ To(m) \notin Occ(p) \/ p.board[To(m)] # piece => Number(After(p, m), piece) = Number(p, piece)
<1> DEFINE q == After(p, m)
           from == From(m)
           to == To(m)
           P == {s \in Occ(p) : p.board[s] = piece}
           Q == {s \in Occ(q) : q.board[s] = piece}
<1>1. /\ Occ(q) = (Occ(p) \ {from}) \cup {to} /\ from # to /\ from \in Occ(p)
      /\ q.board[to] = p.board[from]
      /\ \A s \in Occ(p) \ {from, to} : q.board[s] = p.board[s]
  BY UsAfter DEF Us
<1>2. Occ(p) \in SUBSET Square /\ Occ(q) \in SUBSET Square
  BY <1>1, FitTypes
<1>3. IsFiniteSet(P) /\ IsFiniteSet(Q) /\ Cardinality(P) \in Nat
  BY <1>2, Finite
<1>4. to \in Occ(p) => p.board[to] # p.board[from]
  BY DEF Us
<1>5. Number(p, piece) = Cardinality(P) /\ Number(q, piece) = Cardinality(Q)
  BY DEF Number
<1> HIDE DEF q, from, to
<1>6. CASE p.board[from] = piece
  <2>1. Q = (P \ {from}) \cup {to} /\ from \in P /\ to \notin P
    BY <1>1, <1>4, <1>6
  <2> HIDE DEF P, Q
  <2>2. IsFiniteSet(P \ {from}) /\ Cardinality(P \ {from}) = Cardinality(P) - 1
    BY <1>3, <2>1, FS_RemoveElement
  <2>3. Cardinality(Q) = Cardinality(P \ {from}) + 1
    BY <1>1, <2>1, <2>2, FS_AddElement
  <2> QED BY <1>3, <1>5, <2>2, <2>3 DEF q
<1>7. CASE p.board[from] # piece
  <2>1. Q = P \ {to}
    BY <1>1, <1>7
  <2>2. to \notin Occ(p) \/ p.board[to] # piece => Q = P
    BY <1>1, <1>7
  <2> HIDE DEF P, Q
  <2>3. Cardinality(Q) <= Cardinality(P)
    BY <1>3, <2>1, FS_Subset
  <2> QED BY <1>5, <2>2, <2>3 DEF q, to
<1> QED BY <1>6, <1>7

\* A position that fits is followed by one, unless a king is taken.
LEMMA NextFits ==
  ASSUME NEW p, Fit(p), NEW m, To(m) \in Square, MoveIsPseudo(p, m), To(m) # KingSq(p, Opp(p.turn))
  PROVE  Fit(After(p, m))
<1> DEFINE q == After(p, m)
           from == From(m)
           to == To(m)
<1>1. from \in Us(p, p.turn) /\ to \notin Us(p, p.turn)
  BY PseudoIs
<1>2. /\ Occ(q) = (Occ(p) \ {from}) \cup {to} /\ from # to
      /\ q.board[to] = p.board[from]
      /\ \A s \in Occ(p) \ {from, to} : q.board[s] = p.board[s]
      /\ IsPosition(q)
  BY <1>1, UsAfter
<1>3. from \in Occ(p) /\ ColorOf(p.board[from]) = p.turn
  BY <1>1 DEF Us
<1>4. ASSUME NEW piece \in Piece PROVE Number(q, piece) <= AtMost(TypeOf(piece))
  <2>1. Number(p, piece) <= AtMost(TypeOf(piece))
    BY DEF Fit, FromFen
  <2>2. Number(q, piece) <= Number(p, piece)
    BY <1>1, NumberAfter
  <2>3. Number(p, piece) \in Nat /\ Number(q, piece) \in Nat
    <3>1. {s \in Occ(p) : p.board[s] = piece} \in SUBSET Square /\ {s \in Occ(q) : q.board[s] = piece} \in SUBSET Square
      BY <1>2, FitTypes
    <3> QED BY <3>1, Finite DEF Number
  <2>4. AtMost(TypeOf(piece)) \in Nat
    BY DEF AtMost
  <2> QED BY <2>1, <2>2, <2>3, <2>4
<1>5. ASSUME NEW s \in Occ(q), TypeOf(q.board[s]) \in DOMAIN PosOf
      PROVE  Within(s, TypeOf(q.board[s]), ColorOf(q.board[s]))
  <2>1. CASE s = to
    <3>1. TypeAt(p, from) = TypeOf(q.board[s]) /\ ColorOf(q.board[s]) = p.turn
      BY <1>2, <1>3, <2>1 DEF TypeAt
    <3> QED BY <1>5, <2>1, <3>1, TargetFits
  <2>2. CASE s # to
    <3>1. s \in Occ(p) /\ q.board[s] = p.board[s]
      BY <1>2, <2>2
    <3> QED BY <1>5, <3>1 DEF Fit, FromFen
  <2> QED BY <2>1, <2>2
<1>6. ASSUME NEW c \in Color PROVE Number(q, <<c, "k">>) = 1
  <2>1. Number(p, <<c, "k">>) = 1
    BY DEF Fit, FromFen
  <2>2. to \notin Occ(p) \/ p.board[to] # <<c, "k">>
    <3> SUFFICES ASSUME to \in Occ(p), p.board[to] = <<c, "k">> PROVE FALSE
      OBVIOUS
    <3>1. ColorOf(p.board[to]) = c /\ TypeAt(p, to) = "k"
      BY DEF ColorOf, TypeAt, TypeOf
    <3>2. to \in Us(p, Opp(p.turn)) /\ Opp(p.turn) \in Color
      BY <1>1, FitTypes, ColorsAre
    <3> QED BY <3>1, <3>2, KingStands
  <2> QED BY <1>1, <2>1, <2>2, NumberAfter
<1> QED BY <1>2, <1>4, <1>5, <1>6 DEF Fit, FromFen

\* The king a move leaves or sets.
Guarded(p, m) == IF TypeAt(p, From(m)) = "k" THEN To(m) ELSE KingSq(p, p.turn)
OccAfter(p, m) == (Occ(p) \ {From(m)}) \cup {To(m)}

\* Whether a move is safe, seen from the position before it.
LEMMA ExposedAfter ==
  ASSUME NEW p, Fit(p), NEW m, To(m) \in Square, MoveIsPseudo(p, m), To(m) # KingSq(p, Opp(p.turn))
  PROVE  /\ KingSq(After(p, m), p.turn) = Guarded(p, m)
         /\ KingSq(After(p, m), Opp(p.turn)) = KingSq(p, Opp(p.turn))
         /\ Exposed(After(p, m), p.turn) <=> Struck(p, Opp(p.turn), Guarded(p, m), OccAfter(p, m), {To(m)})
<1> DEFINE q == After(p, m)
           c == p.turn
           opp == Opp(c)
           from == From(m)
           to == To(m)
<1>1. from \in Us(p, c) /\ to \notin Us(p, c)
  BY PseudoIs
<1>2. /\ Occ(q) = OccAfter(p, m) /\ from # to
      /\ TypeAt(q, to) = TypeAt(p, from)
      /\ \A s \in Occ(p) \ {from, to} : TypeAt(q, s) = TypeAt(p, s)
      /\ Us(q, c) = (Us(p, c) \ {from}) \cup {to}
      /\ Us(q, opp) = Us(p, opp) \ {to}
  BY <1>1, UsAfter DEF OccAfter
<1>3. Fit(q) /\ c \in Color /\ opp \in Color /\ opp # c
  BY NextFits, TurnColors
<1>4. /\ KingSq(q, c) \in Us(q, c) /\ TypeAt(q, KingSq(q, c)) = "k"
      /\ \A s \in Us(q, c) : TypeAt(q, s) = "k" => s = KingSq(q, c)
      /\ KingSq(q, opp) \in Us(q, opp) /\ TypeAt(q, KingSq(q, opp)) = "k"
      /\ \A s \in Us(q, opp) : TypeAt(q, s) = "k" => s = KingSq(q, opp)
  BY <1>3, KingStands
<1>5. /\ KingSq(p, c) \in Us(p, c) /\ TypeAt(p, KingSq(p, c)) = "k"
      /\ \A s \in Us(p, c) : TypeAt(p, s) = "k" => s = KingSq(p, c)
      /\ KingSq(p, opp) \in Us(p, opp) /\ TypeAt(p, KingSq(p, opp)) = "k"
  BY <1>3, KingStands
<1>6. Us(p, c) \subseteq Occ(p) /\ Us(p, opp) \subseteq Occ(p) /\ Us(p, c) \cap Us(p, opp) = {}
  BY <1>3, FitTypes
<1> HIDE DEF q, c, opp, from, to
<1>7. KingSq(q, c) = Guarded(p, m)
  <2>1. CASE TypeAt(p, from) = "k"
    BY <1>2, <1>4, <2>1 DEF Guarded, from, to
  <2>2. CASE TypeAt(p, from) # "k"
    <3>1. KingSq(p, c) \in Us(q, c) /\ TypeAt(q, KingSq(p, c)) = "k"
      BY <1>1, <1>2, <1>5, <1>6, <2>2
    <3> QED BY <1>4, <2>2, <3>1 DEF Guarded, from, c
  <2> QED BY <2>1, <2>2
<1>8. KingSq(q, opp) = KingSq(p, opp)
  <2>1. KingSq(p, opp) # to
    BY DEF to, opp, c
  <2>2. KingSq(p, opp) \in Us(q, opp) /\ KingSq(p, opp) # from
    BY <1>1, <1>2, <1>5, <1>6, <2>1
  <2>3. TypeAt(q, KingSq(p, opp)) = "k"
    BY <1>2, <1>5, <1>6, <2>1, <2>2
  <2> QED BY <1>4, <2>2, <2>3
<1>9. Exposed(q, c) <=> \E a \in Us(p, opp) \ {to} : Aims(TypeAt(q, a), opp, a, Guarded(p, m), OccAfter(p, m))
  BY <1>2, <1>7 DEF Exposed, opp
<1>10. \A a \in Us(p, opp) \ {to} : TypeAt(q, a) = TypeAt(p, a)
  BY <1>1, <1>2, <1>6
<1>11. Exposed(q, c) <=> Struck(p, opp, Guarded(p, m), OccAfter(p, m), {to})
  BY <1>9, <1>10 DEF Struck
<1> QED BY <1>7, <1>8, <1>11 DEF q, c, opp, to

-----------------------------------------------------------------------------
(* The two tests of legality are one *)

\* A pseudo-legal move that takes no king.
Playable(p, m) ==
  Fit(p) /\ To(m) \in Square /\ MoveIsPseudo(p, m) /\ To(m) # KingSq(p, Opp(p.turn))

\* What the lemmas below need of a move.
LEMMA PlayableIs ==
  ASSUME NEW p, NEW m, Playable(p, m)
  PROVE  LET f == From(m)
             t == To(m)
             me == p.turn
             k == KingSq(p, me)
             K == KingSq(p, Opp(me))
         IN /\ me \in Color /\ Opp(me) \in Color /\ Opp(me) # me /\ Opp(Opp(me)) = me
            /\ f \in Us(p, me) /\ f \in Occ(p) /\ f \in Square /\ t \in Square /\ f # t /\ t \notin Us(p, me)
            /\ ColorOf(p.board[f]) = me /\ TypeOf(p.board[f]) = TypeAt(p, f)
            /\ k \in Us(p, me) /\ k \in Square /\ k \in Occ(p) /\ k # t /\ k \in KingPos(me)
            /\ K \in Us(p, Opp(me)) /\ K \in Square /\ K # t /\ K # k /\ K \in KingPos(Opp(me))
            /\ TypeAt(p, f) = "k" <=> f = k
            /\ Us(p, Opp(me)) \subseteq Square /\ Us(p, Opp(me)) \subseteq Occ(p)
            /\ f \notin Us(p, Opp(me)) /\ k \notin Us(p, Opp(me))
            /\ t \in Occ(p) <=> t \in Us(p, Opp(me))
            /\ Occ(p) \subseteq Square
<1> DEFINE f == From(m)
           t == To(m)
           me == p.turn
           k == KingSq(p, me)
           K == KingSq(p, Opp(me))
<1>1. me \in Color /\ Opp(me) \in Color /\ Opp(me) # me /\ Opp(Opp(me)) = me
  BY TurnColors DEF Playable
<1>2. f \in Us(p, me) /\ f \in Square /\ f # t /\ t \notin Us(p, me) /\ t \in Square
  BY PseudoIs DEF Playable
<1>3. /\ k \in Us(p, me) /\ k \in Square /\ k \in KingPos(me) /\ TypeAt(p, k) = "k"
      /\ \A s \in Us(p, me) : TypeAt(p, s) = "k" => s = k
      /\ K \in Us(p, Opp(me)) /\ K \in Square /\ K \in KingPos(Opp(me))
  BY <1>1, KingStands DEF Playable
<1>4. K # k
  BY <1>1, <1>3, KingsApart
<1>5. /\ Occ(p) \subseteq Square /\ Us(p, me) \subseteq Occ(p) /\ Us(p, Opp(me)) \subseteq Occ(p)
      /\ Us(p, me) \cap Us(p, Opp(me)) = {}
      /\ \A s \in Occ(p) : s \in Us(p, me) \/ s \in Us(p, Opp(me))
  BY <1>1, FitTypes DEF Playable
<1>6. K # t
  BY DEF Playable
<1>7. ColorOf(p.board[f]) = me /\ TypeOf(p.board[f]) = TypeAt(p, f)
  BY <1>2 DEF Us, TypeAt
<1> HIDE DEF f, t, me, k, K
<1>8. k # t /\ (t \in Occ(p) <=> t \in Us(p, Opp(me))) /\ f \notin Us(p, Opp(me)) /\ k \notin Us(p, Opp(me))
  BY <1>2, <1>3, <1>5
<1>9. TypeAt(p, f) = "k" <=> f = k
  BY <1>2, <1>3
<1>10. f \in Occ(p) /\ k \in Occ(p) /\ Us(p, Opp(me)) \subseteq Square
  BY <1>2, <1>3, <1>5
<1> QED BY <1>1, <1>2, <1>3, <1>4, <1>5, <1>6, <1>7, <1>8, <1>9, <1>10 DEF f, t, me, k, K

\* A side in check: the position after the move is looked at.
LEMMA CheckedTest ==
  ASSUME NEW p, NEW m, Playable(p, m)
  PROVE  PseudoIsLegalIncheck(p, m) <=> ~Exposed(After(p, m), p.turn)
<1> DEFINE f == From(m)
           t == To(m)
           me == p.turn
           opp == Opp(me)
           k == KingSq(p, me)
           K == KingSq(p, opp)
           block == Occ(p) \ {f}
<1>1. /\ me \in Color /\ opp \in Color /\ opp # me /\ Opp(opp) = me
      /\ f \in Us(p, me) /\ f \in Square /\ t \in Square /\ f # t /\ t \notin Us(p, me)
      /\ ColorOf(p.board[f]) = me /\ TypeOf(p.board[f]) = TypeAt(p, f)
      /\ k \in Square /\ k # t
      /\ K \in Us(p, opp) /\ K \in Square /\ K # t /\ K # k
      /\ Us(p, opp) \subseteq Square
  BY PlayableIs
<1>2. Exposed(After(p, m), me) <=> Struck(p, opp, Guarded(p, m), OccAfter(p, m), {t})
  BY ExposedAfter DEF Playable
<1>3. Fit(p)
  BY DEF Playable
<1>4. OccAfter(p, m) = block \cup {t}
  BY DEF OccAfter
<1>5. PseudoIsLegalIncheck(p, m) <=>
        IF TypeAt(p, f) = "k" THEN ~Attacked(p, t, opp, block, {})
        ELSE ~Attacked(p, k, opp, block \cup {t}, {t} \cap Us(p, opp))
  BY <1>1 DEF PseudoIsLegalIncheck
<1>6. CASE TypeAt(p, f) = "k"
  <2>1. Guarded(p, m) = t
    BY <1>6 DEF Guarded
  <2>2. Attacked(p, t, opp, block, {}) <=> Struck(p, opp, t, block, {})
    BY <1>1, <1>3, AttackedIs
  <2>3. \A a \in Us(p, opp) : /\ a \in Square
                              /\ Aims(TypeAt(p, a), opp, a, t, block) <=> Aims(TypeAt(p, a), opp, a, t, block \cup {t})
                              /\ ~Aims(TypeAt(p, a), opp, t, t, block)
    <3> SUFFICES ASSUME NEW a \in Us(p, opp)
                 PROVE  /\ a \in Square
                        /\ Aims(TypeAt(p, a), opp, a, t, block) <=> Aims(TypeAt(p, a), opp, a, t, block \cup {t})
                        /\ ~Aims(TypeAt(p, a), opp, t, t, block)
      OBVIOUS
    <3>1. a \in Square /\ t \in Square /\ opp \in Color
      BY <1>1
    <3> HIDE DEF opp, t, block
    <3>2. \A x \in {a, t} : Aims(TypeAt(p, a), opp, a, t, block) <=> Aims(TypeAt(p, a), opp, a, t, block \cup {x})
      BY <3>1, AimsOther
    <3>3. ~Aims(TypeAt(p, a), opp, t, t, block)
      BY <3>1, AimsOther
    <3> QED BY <3>1, <3>2, <3>3
  <2> HIDE DEF block, opp, t
  <2>4. Struck(p, opp, t, block, {}) <=> Struck(p, opp, t, block \cup {t}, {t})
    BY <2>3 DEF Struck
  <2> QED BY <1>2, <1>4, <1>5, <1>6, <2>1, <2>2, <2>4
<1>7. CASE TypeAt(p, f) # "k"
  <2>1. Guarded(p, m) = k
    BY <1>7 DEF Guarded
  <2>2. Attacked(p, k, opp, block \cup {t}, {t} \cap Us(p, opp))
        <=> Struck(p, opp, k, block \cup {t}, {t} \cap Us(p, opp))
    <3>1. K \notin {t} \cap Us(p, opp)
      BY <1>1
    <3> QED BY <1>1, <1>3, <3>1, AttackedIs
  <2> HIDE DEF block, opp, t
  <2>3. Struck(p, opp, k, block \cup {t}, {t} \cap Us(p, opp)) <=> Struck(p, opp, k, block \cup {t}, {t})
    BY DEF Struck
  <2> QED BY <1>2, <1>4, <1>5, <1>7, <2>1, <2>2, <2>3
<1> QED BY <1>6, <1>7

-----------------------------------------------------------------------------
(* A king that is not in check *)

\* From two squares side by side, along their line and across it.
Beside(f, t) == Off(f, t, 1, 0) \/ Off(f, t, -1, 0) \/ Off(f, t, 0, 1) \/ Off(f, t, 0, -1)

\* The lines of two squares side by side, from a third.
LEMMA BesideLines ==
  ASSUME NEW f \in Square, NEW t \in Square, NEW a \in Square, a # f, a # t, Beside(f, t), OnLine(t, a)
  PROVE  LET on == IF SameFile(f, t) THEN SameFile(t, a) ELSE SameRank(t, a)
         IN /\ ~on => ~Amid(t, f, a)
            /\ ~Amid(t, t, a) /\ ~Amid(f, f, a)
            /\ on => /\ OnLine(f, a) /\ (SameFile(t, a) <=> SameFile(f, a))
                     /\ Amid(t, f, a) <=> ~Amid(f, t, a)
                     /\ \A u \in Square : u # f /\ u # t => (Amid(t, u, a) <=> Amid(f, u, a))
<1>1. /\ FileOf(f) \in Int /\ RankOf(f) \in Int /\ FileOf(t) \in Int /\ RankOf(t) \in Int
      /\ FileOf(a) \in Int /\ RankOf(a) \in Int
  BY Coordinates
<1>2. ~(FileOf(a) = FileOf(f) /\ RankOf(a) = RankOf(f)) /\ ~(FileOf(a) = FileOf(t) /\ RankOf(a) = RankOf(t))
  BY SameSquare
<1>3. ~Amid(t, t, a) /\ ~Amid(f, f, a)
  BY <1>1 DEF Amid, Mid, SameFile, SameRank
<1>4. CASE SameFile(f, t)
  <2>1. FileOf(f) = FileOf(t) /\ (RankOf(t) = RankOf(f) + 1 \/ RankOf(t) = RankOf(f) - 1)
    BY <1>1, <1>4 DEF Beside, Off, SameFile
  <2>2. ~SameFile(t, a) => ~Amid(t, f, a)
    BY <1>1, <2>1 DEF Amid, Mid, SameFile, SameRank
  <2>3. ASSUME SameFile(t, a)
        PROVE  /\ OnLine(f, a) /\ SameFile(f, a) /\ (Amid(t, f, a) <=> ~Amid(f, t, a))
               /\ \A u \in Square : u # f /\ u # t => (Amid(t, u, a) <=> Amid(f, u, a))
    <3>1. FileOf(a) = FileOf(t) /\ RankOf(a) # RankOf(t) /\ RankOf(a) # RankOf(f)
      BY <1>2, <2>1, <2>3 DEF SameFile
    <3>2. ~SameRank(t, a) /\ ~SameRank(f, a)
      BY <3>1 DEF SameRank
    <3>3. Amid(t, f, a) <=> ~Amid(f, t, a)
      BY <1>1, <2>1, <3>1 DEF Amid, Mid, SameFile, SameRank
    <3>4. ASSUME NEW u \in Square, u # f, u # t PROVE Amid(t, u, a) <=> Amid(f, u, a)
      <4>1. RankOf(u) \in Int /\ (FileOf(u) = FileOf(t) => RankOf(u) # RankOf(t) /\ RankOf(u) # RankOf(f))
        BY <2>1, <3>4, Coordinates, SameSquare
      <4> QED BY <1>1, <2>1, <3>1, <4>1 DEF Amid, Mid, SameFile, SameRank
    <3> QED BY <2>1, <3>1, <3>3, <3>4 DEF OnLine, SameFile
  <2> QED BY <1>3, <1>4, <2>2, <2>3
<1>5. CASE ~SameFile(f, t)
  <2>1. RankOf(f) = RankOf(t) /\ (FileOf(t) = FileOf(f) + 1 \/ FileOf(t) = FileOf(f) - 1)
    BY <1>1, <1>5 DEF Beside, Off, SameFile
  <2>2. ~SameRank(t, a) => ~Amid(t, f, a)
    BY <1>1, <2>1 DEF Amid, Mid, SameFile, SameRank
  <2>3. ASSUME SameRank(t, a)
        PROVE  /\ OnLine(f, a) /\ (SameFile(t, a) <=> SameFile(f, a)) /\ (Amid(t, f, a) <=> ~Amid(f, t, a))
               /\ \A u \in Square : u # f /\ u # t => (Amid(t, u, a) <=> Amid(f, u, a))
    <3>1. RankOf(a) = RankOf(t) /\ FileOf(a) # FileOf(t) /\ FileOf(a) # FileOf(f)
      BY <1>2, <2>1, <2>3 DEF SameRank
    <3>3. Amid(t, f, a) <=> ~Amid(f, t, a)
      BY <1>1, <2>1, <3>1 DEF Amid, Mid, SameFile, SameRank
    <3>4. ASSUME NEW u \in Square, u # f, u # t PROVE Amid(t, u, a) <=> Amid(f, u, a)
      <4>1. FileOf(u) \in Int /\ (RankOf(u) = RankOf(t) => FileOf(u) # FileOf(t) /\ FileOf(u) # FileOf(f))
        BY <2>1, <3>4, Coordinates, SameSquare
      <4> QED BY <1>1, <2>1, <3>1, <4>1 DEF Amid, Mid, SameFile, SameRank
    <3> QED BY <2>1, <3>1, <3>3, <3>4 DEF OnLine, SameRank, SameFile
  <2> QED BY <1>3, <1>5, <2>2, <2>3
<1> QED BY <1>4, <1>5

\* What is seen from the king's new square with it gone from the old one.
LEMMA BesideLooks ==
  ASSUME NEW f \in Square, NEW t \in Square, NEW a \in Square, a # f, a # t, Beside(f, t), OnLine(t, a),
         NEW occ, f \in occ
  PROVE  LET on == IF SameFile(f, t) THEN SameFile(t, a) ELSE SameRank(t, a)
             after == (occ \ {f}) \cup {t}
         IN /\ Single(t, a, after) <=> Single(t, a, occ \ {f})
            /\ ~on => /\ Clear(t, a, after) <=> Clear(t, a, occ)
                      /\ Single(t, a, after) <=> Single(t, a, occ)
            /\ on /\ t \notin occ => /\ Clear(t, a, after) <=> Clear(f, a, occ)
                                     /\ Single(t, a, after) <=> Single(f, a, occ)
            /\ on /\ t \in occ => (Clear(t, a, after) <=> Clear(t, a, occ) \/ (Amid(t, f, a) /\ Clear(f, a, occ)))
<1> DEFINE on == IF SameFile(f, t) THEN SameFile(t, a) ELSE SameRank(t, a)
           after == (occ \ {f}) \cup {t}
<1>1. /\ ~on => ~Amid(t, f, a)
      /\ ~Amid(t, t, a) /\ ~Amid(f, f, a)
      /\ on => /\ Amid(t, f, a) <=> ~Amid(f, t, a)
               /\ \A u \in Square : u # f /\ u # t => (Amid(t, u, a) <=> Amid(f, u, a))
  BY BesideLines
<1> HIDE DEF on
<1>2. Single(t, a, after) <=> Single(t, a, occ \ {f})
  BY <1>1 DEF Single
<1>3. ~on => /\ Clear(t, a, after) <=> Clear(t, a, occ)
             /\ Single(t, a, after) <=> Single(t, a, occ)
  BY <1>1 DEF Clear, Single
<1>4. ASSUME on, t \notin occ
      PROVE  /\ Clear(t, a, after) <=> Clear(f, a, occ)
             /\ Single(t, a, after) <=> Single(f, a, occ)
  <2>1. \A u \in Square : u \in after /\ Amid(t, u, a) <=> u \in occ /\ Amid(f, u, a)
    BY <1>1, <1>4
  <2> HIDE DEF after
  <2> QED BY <2>1 DEF Clear, Single
<1>5. ASSUME on, t \in occ
      PROVE  Clear(t, a, after) <=> Clear(t, a, occ) \/ (Amid(t, f, a) /\ Clear(f, a, occ))
  <2>1. CASE Amid(t, f, a)
    <3>1. ~Clear(t, a, occ)
      BY <2>1 DEF Clear
    <3>2. \A u \in Square : u \in after /\ Amid(t, u, a) <=> u \in occ /\ Amid(f, u, a)
      BY <1>1, <1>5, <2>1
    <3> HIDE DEF after
    <3> QED BY <2>1, <3>1, <3>2 DEF Clear
  <2>2. CASE ~Amid(t, f, a)
    BY <1>1, <2>2 DEF Clear
  <2> QED BY <2>1, <2>2
<1> QED BY <1>2, <1>3, <1>4, <1>5 DEF on

\* The lines that a king's step is on and that it crosses.
StepLine(f, t) == IF SameFile(f, t) THEN FileSteps ELSE RankSteps
CrossLine(f, t) == IF SameFile(f, t) THEN RankSteps ELSE FileSteps
Sliders(line) == IF line = FileSteps THEN {"r", "k"} ELSE {"r"}

\* What the test of a king's move looks for on a.
Menaces(p, m, a) ==
  LET f == From(m)
      t == To(m)
      type == TypeAt(p, a)
      opp == Opp(p.turn)
      along == StepLine(f, t)
      across == CrossLine(f, t)
  IN \/ type \in Sliders(across) /\ a \in RookLine(t, across, Occ(p))
     \/ type = "c" /\ a \in CannonLine(t, across, Occ(p))
     \/ type = "n" /\ a \in KnightAttd(t, Occ(p))
     \/ type = "p" /\ a \in PawnAttd[opp][t]
     \/ t \in Occ(p) /\ type \in Sliders(along) /\ a \in RookLine(t, along, Occ(p))
     \/ t \in Occ(p) /\ type = "c" /\ a \in CannonLine(t, along, Occ(p) \ {f})

\* The test of a king is that no piece menaces it where it goes.
LEMMA KingSafeIs ==
  ASSUME NEW p, NEW m, Playable(p, m)
  PROVE  KingSafe(p, m) <=> \A a \in Us(p, Opp(p.turn)) : ~Menaces(p, m, a)
<1> DEFINE f == From(m)
           t == To(m)
           opp == Opp(p.turn)
           along == StepLine(f, t)
           across == CrossLine(f, t)
           of(types) == Pieces(p, opp, types)
<1>1. ColorOf(p.board[f]) = p.turn
  BY PlayableIs
<1>2. \A types, a : a \in of(types) <=> a \in Us(p, opp) /\ TypeAt(p, a) \in types
  BY FitTypes DEF Playable
<1>3. KingSafe(p, m) <=>
        /\ RookLine(t, across, Occ(p)) \cap of(Sliders(across)) = {}
        /\ CannonLine(t, across, Occ(p)) \cap of({"c"}) = {}
        /\ KnightAttd(t, Occ(p)) \cap of({"n"}) = {}
        /\ PawnAttd[opp][t] \cap of({"p"}) = {}
        /\ t \in Occ(p) => /\ RookLine(t, along, Occ(p)) \cap of(Sliders(along)) = {}
                           /\ CannonLine(t, along, Occ(p) \ {f}) \cap of({"c"}) = {}
  BY <1>1 DEF KingSafe, StepLine, CrossLine, Sliders
<1>4. \A a : Menaces(p, m, a) <=>
        \/ TypeAt(p, a) \in Sliders(across) /\ a \in RookLine(t, across, Occ(p))
        \/ TypeAt(p, a) = "c" /\ a \in CannonLine(t, across, Occ(p))
        \/ TypeAt(p, a) = "n" /\ a \in KnightAttd(t, Occ(p))
        \/ TypeAt(p, a) = "p" /\ a \in PawnAttd[opp][t]
        \/ t \in Occ(p) /\ TypeAt(p, a) \in Sliders(along) /\ a \in RookLine(t, along, Occ(p))
        \/ t \in Occ(p) /\ TypeAt(p, a) = "c" /\ a \in CannonLine(t, along, Occ(p) \ {f})
  BY DEF Menaces
<1> HIDE DEF f, t, opp, along, across, of
<1>5. \A types, S : S \cap of(types) = {} <=> \A a \in Us(p, opp) : ~(TypeAt(p, a) \in types /\ a \in S)
  BY <1>2
<1>6. KingSafe(p, m) <=> \A a \in Us(p, opp) :
        /\ ~(TypeAt(p, a) \in Sliders(across) /\ a \in RookLine(t, across, Occ(p)))
        /\ ~(TypeAt(p, a) \in {"c"} /\ a \in CannonLine(t, across, Occ(p)))
        /\ ~(TypeAt(p, a) \in {"n"} /\ a \in KnightAttd(t, Occ(p)))
        /\ ~(TypeAt(p, a) \in {"p"} /\ a \in PawnAttd[opp][t])
        /\ t \in Occ(p) => ~(TypeAt(p, a) \in Sliders(along) /\ a \in RookLine(t, along, Occ(p)))
        /\ t \in Occ(p) => ~(TypeAt(p, a) \in {"c"} /\ a \in CannonLine(t, along, Occ(p) \ {f}))
  <2> DEFINE R == RookLine(t, across, Occ(p))
             C == CannonLine(t, across, Occ(p))
             N == KnightAttd(t, Occ(p))
             P == PawnAttd[opp][t]
             R2 == RookLine(t, along, Occ(p))
             C2 == CannonLine(t, along, Occ(p) \ {f})
  <2>1. KingSafe(p, m) <=>
          /\ R \cap of(Sliders(across)) = {} /\ C \cap of({"c"}) = {}
          /\ N \cap of({"n"}) = {} /\ P \cap of({"p"}) = {}
          /\ t \in Occ(p) => R2 \cap of(Sliders(along)) = {} /\ C2 \cap of({"c"}) = {}
    BY <1>3
  <2> HIDE DEF R, C, N, P, R2, C2
  <2>2. R \cap of(Sliders(across)) = {} <=> \A a \in Us(p, opp) : ~(TypeAt(p, a) \in Sliders(across) /\ a \in R)
    BY <1>5
  <2>3. C \cap of({"c"}) = {} <=> \A a \in Us(p, opp) : ~(TypeAt(p, a) \in {"c"} /\ a \in C)
    BY <1>5
  <2>4. N \cap of({"n"}) = {} <=> \A a \in Us(p, opp) : ~(TypeAt(p, a) \in {"n"} /\ a \in N)
    BY <1>5
  <2>5. P \cap of({"p"}) = {} <=> \A a \in Us(p, opp) : ~(TypeAt(p, a) \in {"p"} /\ a \in P)
    BY <1>5
  <2>6. R2 \cap of(Sliders(along)) = {} <=> \A a \in Us(p, opp) : ~(TypeAt(p, a) \in Sliders(along) /\ a \in R2)
    BY <1>5
  <2>7. C2 \cap of({"c"}) = {} <=> \A a \in Us(p, opp) : ~(TypeAt(p, a) \in {"c"} /\ a \in C2)
    BY <1>5
  <2>8. KingSafe(p, m) <=> \A a \in Us(p, opp) :
          /\ ~(TypeAt(p, a) \in Sliders(across) /\ a \in R) /\ ~(TypeAt(p, a) \in {"c"} /\ a \in C)
          /\ ~(TypeAt(p, a) \in {"n"} /\ a \in N) /\ ~(TypeAt(p, a) \in {"p"} /\ a \in P)
          /\ t \in Occ(p) => ~(TypeAt(p, a) \in Sliders(along) /\ a \in R2)
          /\ t \in Occ(p) => ~(TypeAt(p, a) \in {"c"} /\ a \in C2)
    BY <2>1, <2>2, <2>3, <2>4, <2>5, <2>6, <2>7, Zenon
  <2> QED BY <2>8 DEF R, C, N, P, R2, C2
<1>7. \A a : TypeAt(p, a) \in {"c"} <=> TypeAt(p, a) = "c"
  OBVIOUS
<1>8. \A a : TypeAt(p, a) \in {"n"} <=> TypeAt(p, a) = "n"
  OBVIOUS
<1>9. \A a : TypeAt(p, a) \in {"p"} <=> TypeAt(p, a) = "p"
  OBVIOUS
<1> QED BY <1>4, <1>6, <1>7, <1>8, <1>9, Zenon DEF opp

\* Each piece attacks the king on its new square just if the test finds it.
LEMMA MenacesIs ==
  ASSUME NEW p, NEW m, Playable(p, m), ~Exposed(p, p.turn), TypeAt(p, From(m)) = "k",
         NEW a \in Us(p, Opp(p.turn)), a # To(m)
  PROVE  Menaces(p, m, a) <=> Aims(TypeAt(p, a), Opp(p.turn), a, To(m), OccAfter(p, m))
<1> DEFINE f == From(m)
           t == To(m)
           opp == Opp(p.turn)
           type == TypeAt(p, a)
           occ == Occ(p)
           after == OccAfter(p, m)
           along == StepLine(f, t)
           across == CrossLine(f, t)
           on == IF SameFile(f, t) THEN SameFile(t, a) ELSE SameRank(t, a)
<1>1. /\ p.turn \in Color /\ opp \in Color /\ f \in Square /\ t \in Square /\ f # t /\ f \in occ
      /\ f = KingSq(p, p.turn) /\ f \in KingPos(p.turn) /\ a \in Square /\ a # f
  BY PlayableIs
<1>2. ~Aims(type, opp, a, f, occ)
  BY <1>1 DEF Exposed
<1>3. Beside(f, t)
  <2>1. t \in KingAtt[f]
    BY PseudoIs DEF Playable
  <2>2. f \in King_Pos
    BY <1>1, ColorsAre DEF King_Pos
  <2> QED BY <2>1, <2>2, KingStep DEF Beside
<1>4. after = (occ \ {f}) \cup {t}
  BY DEF OccAfter
<1>5. /\ a \in RookLine(t, across, occ) <=> Along(across, t, a) /\ Clear(t, a, occ)
      /\ a \in CannonLine(t, across, occ) <=> Along(across, t, a) /\ Single(t, a, occ)
      /\ a \in RookLine(t, along, occ) <=> Along(along, t, a) /\ Clear(t, a, occ)
      /\ a \in CannonLine(t, along, occ \ {f}) <=> Along(along, t, a) /\ Single(t, a, occ \ {f})
  <2>1. across \in Sides /\ along \in Sides
    BY SidesAre DEF StepLine, CrossLine
  <2> QED BY <1>1, <2>1, LineSees
<1>6. /\ Along(along, t, a) <=> on
      /\ Along(across, t, a) <=> OnLine(t, a) /\ ~on
  <2>1. ~(SameFile(t, a) /\ SameRank(t, a))
    BY <1>1, SameSquare DEF SameFile, SameRank
  <2> QED BY <2>1, SidesAre DEF Along, OnLine, StepLine, CrossLine
<1>7. on => OnLine(t, a)
  BY DEF OnLine
<1>8. OnLine(t, a) =>
        /\ Single(t, a, after) <=> Single(t, a, occ \ {f})
        /\ ~on => /\ Clear(t, a, after) <=> Clear(t, a, occ)
                  /\ Single(t, a, after) <=> Single(t, a, occ)
        /\ on /\ t \notin occ => /\ Clear(t, a, after) <=> Clear(f, a, occ)
                                 /\ Single(t, a, after) <=> Single(f, a, occ)
        /\ on /\ t \in occ => (Clear(t, a, after) <=> Clear(t, a, occ) \/ (Amid(t, f, a) /\ Clear(f, a, occ)))
  BY <1>1, <1>3, <1>4, BesideLooks
<1>9. on => OnLine(f, a) /\ (SameFile(t, a) <=> SameFile(f, a))
  BY <1>1, <1>3, <1>7, BesideLines
<1>10. Sliders(across) = (IF SameFile(f, t) THEN {"r"} ELSE {"r", "k"})
       /\ Sliders(along) = (IF SameFile(f, t) THEN {"r", "k"} ELSE {"r"})
  BY SidesAre DEF Sliders, StepLine, CrossLine
<1>11. Menaces(p, m, a) <=>
        \/ type \in Sliders(across) /\ a \in RookLine(t, across, occ)
        \/ type = "c" /\ a \in CannonLine(t, across, occ)
        \/ type = "n" /\ a \in KnightAttd(t, occ)
        \/ type = "p" /\ a \in PawnAttd[opp][t]
        \/ t \in occ /\ type \in Sliders(along) /\ a \in RookLine(t, along, occ)
        \/ t \in occ /\ type = "c" /\ a \in CannonLine(t, along, occ \ {f})
  BY DEF Menaces
<1>12. a # t
  OBVIOUS
<1>13. a \in KnightAttd(t, occ) <=> a \in KnightAttNoMask[t] /\ LegalLeg(a, t) \notin after
  <2>1. ASSUME a \in KnightAttNoMask[t] PROVE LegalLeg(a, t) \notin {f, t}
    <3> DEFINE u == LegalLeg(a, t)
    <3>1. t \in KnightAttNoMask[a]
      BY <1>1, <2>1, KnightSym
    <3>2. u \in Square /\ u # t /\ (Off(t, u, 1, 1) \/ Off(t, u, 1, -1) \/ Off(t, u, -1, 1) \/ Off(t, u, -1, -1))
      BY <1>1, <3>1, LegIs
    <3> HIDE DEF u
    <3>3. u # f
      <4>1. FileOf(f) \in Int /\ RankOf(f) \in Int /\ FileOf(t) \in Int /\ RankOf(t) \in Int
        BY <1>1, Coordinates
      <4> QED BY <1>3, <3>2, <4>1 DEF Beside, Off
    <3> QED BY <3>2, <3>3 DEF u
  <2> QED BY <1>4, <2>1 DEF KnightAttd
<1> HIDE DEF f, t, opp, type, occ, after, along, across, on
<1>14. ASSUME type = "r" PROVE Menaces(p, m, a) <=> Aims(type, opp, a, t, after)
  <2>1. OnLine(t, a) /\ on => ~Clear(f, a, occ)
    BY <1>1, <1>2, <1>9, <1>14 DEF Aims, Sight
  <2>2. Aims(type, opp, a, t, after) <=> OnLine(t, a) /\ Clear(t, a, after)
    BY <1>12, <1>14 DEF Aims, Sight
  <2>3. Menaces(p, m, a) <=> (OnLine(t, a) /\ ~on /\ Clear(t, a, occ)) \/ (t \in occ /\ on /\ Clear(t, a, occ))
    BY <1>5, <1>6, <1>10, <1>11, <1>14
  <2> QED BY <1>7, <1>8, <2>1, <2>2, <2>3
<1>15. ASSUME type = "c" PROVE Menaces(p, m, a) <=> Aims(type, opp, a, t, after)
  <2>1. OnLine(t, a) /\ on => ~Single(f, a, occ)
    BY <1>1, <1>2, <1>9, <1>15 DEF Aims, Sight
  <2>2. Aims(type, opp, a, t, after) <=> OnLine(t, a) /\ Single(t, a, after)
    BY <1>12, <1>15 DEF Aims, Sight
  <2>3. Menaces(p, m, a) <=> (OnLine(t, a) /\ ~on /\ Single(t, a, occ)) \/ (t \in occ /\ on /\ Single(t, a, occ \ {f}))
    BY <1>5, <1>6, <1>10, <1>11, <1>15
  <2> QED BY <1>7, <1>8, <2>1, <2>2, <2>3
<1>16. ASSUME type = "n" PROVE Menaces(p, m, a) <=> Aims(type, opp, a, t, after)
  BY <1>10, <1>11, <1>13, <1>16 DEF Aims
<1>17. ASSUME type = "p" PROVE Menaces(p, m, a) <=> Aims(type, opp, a, t, after)
  BY <1>10, <1>11, <1>17 DEF Aims
<1>18. ASSUME type = "k" PROVE Menaces(p, m, a) <=> Aims(type, opp, a, t, after)
  <2>1. on /\ SameFile(t, a) => ~Clear(f, a, occ)
    BY <1>1, <1>2, <1>9, <1>18 DEF Aims
  <2>2. Aims(type, opp, a, t, after) <=> SameFile(t, a) /\ Clear(t, a, after)
    BY <1>12, <1>18 DEF Aims
  <2>3. SameFile(t, a) => OnLine(t, a) /\ (on <=> SameFile(f, t))
    <3>1. SameFile(t, a) => ~SameRank(t, a)
      BY <1>1, <1>12, SameSquare DEF SameFile, SameRank
    <3> QED BY <3>1 DEF OnLine, on
  <2>4. OnLine(t, a) /\ ~SameFile(f, t) /\ ~on => SameFile(t, a)
    BY DEF on, OnLine
  <2>5. on /\ SameFile(f, t) => SameFile(t, a)
    BY DEF on
  <2>6. Menaces(p, m, a) <=> \/ ~SameFile(f, t) /\ OnLine(t, a) /\ ~on /\ Clear(t, a, occ)
                             \/ SameFile(f, t) /\ t \in occ /\ on /\ Clear(t, a, occ)
    BY <1>5, <1>6, <1>10, <1>11, <1>18
  <2> QED BY <1>7, <1>8, <2>1, <2>2, <2>3, <2>4, <2>5, <2>6
<1>19. ASSUME type \notin {"r", "c", "n", "p", "k"} PROVE Menaces(p, m, a) <=> Aims(type, opp, a, t, after)
  BY <1>10, <1>11, <1>19 DEF Aims
<1>20. Menaces(p, m, a) <=> Aims(type, opp, a, t, after)
  BY <1>14, <1>15, <1>16, <1>17, <1>18, <1>19
<1> QED BY <1>20 DEF type, opp, t, after

\* A king that is not in check: its new square is looked at.
LEMMA KingTest ==
  ASSUME NEW p, NEW m, Playable(p, m), ~Exposed(p, p.turn), TypeAt(p, From(m)) = "k"
  PROVE  KingSafe(p, m) <=> ~Exposed(After(p, m), p.turn)
<1> DEFINE t == To(m)
           opp == Opp(p.turn)
           after == OccAfter(p, m)
<1>1. Exposed(After(p, m), p.turn) <=> Struck(p, opp, t, after, {t})
  BY ExposedAfter DEF Playable, Guarded
<1>2. KingSafe(p, m) <=> \A a \in Us(p, opp) : ~Menaces(p, m, a)
  BY KingSafeIs
<1>3. \A a \in Us(p, opp) : a # t => (Menaces(p, m, a) <=> Aims(TypeAt(p, a), opp, a, t, after))
  BY MenacesIs
<1>4. t \in Us(p, opp) => ~Menaces(p, m, t)
  <2>1. t \in Square /\ opp \in Color
    BY PlayableIs
  <2>2. StepLine(From(m), t) \in Sides /\ CrossLine(From(m), t) \in Sides
    BY SidesAre DEF StepLine, CrossLine
  <2>3. \A occ : \A line \in Sides : t \notin RookLine(t, line, occ) /\ t \notin CannonLine(t, line, occ)
    BY <2>1, LineSees DEF Along
  <2>4. t \notin KnightAttd(t, Occ(p)) /\ t \notin PawnAttd[opp][t]
    <3> HIDE DEF t, opp
    <3>1. ASSUME NEW type PROVE ~Aims(type, opp, t, t, Occ(p))
      BY <2>1, AimsOther
    <3>2. Aims("n", opp, t, t, Occ(p)) <=> t \in KnightAttd(t, Occ(p))
      BY <2>1, AimsOther
    <3>3. Aims("p", opp, t, t, Occ(p)) <=> t \in PawnAttd[opp][t]
      BY <2>1, AimsOther
    <3> QED BY <3>1, <3>2, <3>3
  <2> QED BY <2>2, <2>3, <2>4 DEF Menaces
<1> HIDE DEF t, opp, after
<1>5. Struck(p, opp, t, after, {t}) <=> \E a \in Us(p, opp) : a # t /\ Aims(TypeAt(p, a), opp, a, t, after)
  BY DEF Struck
<1> QED BY <1>1, <1>2, <1>3, <1>4, <1>5

-----------------------------------------------------------------------------
(* The squares a move and an attack go over *)

\* Between by the numbers of the squares, and by their coordinates.
LEMMA MidIs ==
  ASSUME NEW s \in Square, NEW t \in Square, NEW u \in Square, NEW line \in Sides,
         OnSame(line, s, t), OnSame(line, s, u)
  PROVE  Mid(u, s, t) <=> Amid(t, u, s)
<1>1. /\ FileOf(s) \in 0..8 /\ RankOf(s) \in 0..9 /\ s = 9 * RankOf(s) + FileOf(s)
      /\ FileOf(t) \in 0..8 /\ RankOf(t) \in 0..9 /\ t = 9 * RankOf(t) + FileOf(t)
      /\ FileOf(u) \in 0..8 /\ RankOf(u) \in 0..9 /\ u = 9 * RankOf(u) + FileOf(u)
  BY Coordinates
<1>2. (SameFile(s, t) /\ SameFile(s, u)) \/ (SameRank(s, t) /\ SameRank(s, u))
  BY SidesAre
<1> QED BY <1>1, <1>2 DEF Amid, Mid, SameFile, SameRank

\* Of two squares on one line, distinct, it is the line.
LEMMA OneLine ==
  ASSUME NEW s \in Square, NEW t \in Square, s # t
  PROVE  ~(SameFile(s, t) /\ SameRank(s, t))
BY SameSquare DEF SameFile, SameRank

\* What is between two squares of a line is on it.
LEMMA AmidOn ==
  ASSUME NEW s \in Square, NEW t \in Square, NEW u \in Square, NEW line \in Sides, Along(line, s, t), Amid(s, u, t)
  PROVE  /\ OnSame(line, s, t) /\ OnSame(line, t, s) /\ OnSame(line, s, u) /\ OnSame(line, u, s)
         /\ OnSame(line, t, u) /\ OnSame(line, u, t) /\ u # s /\ u # t
<1>1. ~(SameFile(s, t) /\ SameRank(s, t))
  BY OneLine DEF Along
<1>2. FileOf(s) \in Int /\ RankOf(s) \in Int /\ FileOf(t) \in Int /\ RankOf(t) \in Int
      /\ FileOf(u) \in Int /\ RankOf(u) \in Int
  BY Coordinates
<1>3. (line = RankSteps /\ SameRank(s, t)) \/ (line = FileSteps /\ SameFile(s, t))
  BY SidesAre DEF Along
<1> QED BY <1>1, <1>2, <1>3, SidesAre DEF Amid, Mid, SameFile, SameRank

\* A piece that leaves the squares between two others along their line, or comes in
\* along it, passes one of them.
LEMMA Crossing ==
  ASSUME NEW k \in Square, NEW a \in Square, NEW f \in Square, NEW t \in Square, NEW line \in Sides,
         Along(line, k, a), OnSame(line, k, f), OnSame(line, k, t),
         f # k, f # a, t # k, t # a, Amid(k, f, a) # Amid(k, t, a)
  PROVE  Amid(f, k, t) \/ Amid(f, a, t)
<1>1. ~(SameFile(k, a) /\ SameRank(k, a)) /\ ~(SameFile(k, f) /\ SameRank(k, f)) /\ ~(SameFile(k, t) /\ SameRank(k, t))
      /\ ~(SameFile(a, f) /\ SameRank(a, f)) /\ ~(SameFile(a, t) /\ SameRank(a, t))
  BY OneLine DEF Along
<1>2. FileOf(k) \in Int /\ RankOf(k) \in Int /\ FileOf(a) \in Int /\ RankOf(a) \in Int
      /\ FileOf(f) \in Int /\ RankOf(f) \in Int /\ FileOf(t) \in Int /\ RankOf(t) \in Int
  BY Coordinates
<1>3. \/ SameRank(k, a) /\ SameRank(k, f) /\ SameRank(k, t)
      \/ SameFile(k, a) /\ SameFile(k, f) /\ SameFile(k, t)
  BY SidesAre DEF Along
<1> QED BY <1>1, <1>2, <1>3 DEF Amid, Mid, SameFile, SameRank

\* A capture of a piece beyond a screen, seen from behind the capturing piece.
LEMMA FurtherOn ==
  ASSUME NEW k \in Square, NEW f \in Square, NEW t \in Square, NEW u \in Square, Amid(k, f, t), Amid(f, u, t)
  PROVE  Amid(k, u, t) /\ u # f
<1>2. FileOf(k) \in Int /\ RankOf(k) \in Int /\ FileOf(u) \in Int /\ RankOf(u) \in Int
      /\ FileOf(f) \in Int /\ RankOf(f) \in Int /\ FileOf(t) \in Int /\ RankOf(t) \in Int
  BY Coordinates
<1> QED BY <1>2 DEF Amid, Mid, SameFile, SameRank

\* What goes along a line.
LEMMA LineMover ==
  ASSUME NEW p, NEW m, Playable(p, m), OnLine(From(m), To(m))
  PROVE  TypeAt(p, From(m)) \in {"r", "c", "p", "k"}
<1> DEFINE f == From(m)
           t == To(m)
           type == TypeAt(p, f)
<1>1. f \in Square /\ t \in Square /\ f # t /\ p.turn \in Color /\ f \in Us(p, p.turn)
  BY PlayableIs
<1>2. \/ type \in {"r", "c", "p", "k"}
      \/ type = "n" /\ t \in KnightAttNoMask[f]
      \/ type = "b" /\ t \in BishopAttNoMask[f]
      \/ type = "a" /\ t \in AdvisorAtt[f]
  BY PseudoIs DEF Playable
<1>3. /\ FileOf(f) \in Int /\ RankOf(f) \in Int /\ FileOf(t) \in Int /\ RankOf(t) \in Int
  BY <1>1, Coordinates
<1>4. SameFile(f, t) \/ SameRank(f, t)
  BY DEF OnLine
<1> HIDE DEF f, t
<1>5. type # "n" \/ t \notin KnightAttNoMask[f]
  BY <1>1, <1>4, KnightAside
<1>6. type = "b" => t \notin BishopAttNoMask[f]
  <2> SUFFICES ASSUME type = "b", t \in BishopAttNoMask[f] PROVE FALSE
    OBVIOUS
  <2>1. f \in Bishop_Pos
    BY <1>1, PlaceOf, BishopPlace DEF Playable
  <2>2. Off(f, t, 2, 2) \/ Off(f, t, 2, -2) \/ Off(f, t, -2, 2) \/ Off(f, t, -2, -2)
    BY <1>1, <2>1, BishopStep
  <2> QED BY <1>3, <1>4, <2>2 DEF Off, SameFile, SameRank
<1>7. type = "a" => t \notin AdvisorAtt[f]
  <2> SUFFICES ASSUME type = "a", t \in AdvisorAtt[f] PROVE FALSE
    OBVIOUS
  <2>1. f \in AdvisorPos(p.turn)
    BY <1>1, PlaceOf DEF Playable
  <2>2. f \in Advisor_Pos
    BY <1>1, <2>1, ColorsAre DEF Advisor_Pos
  <2>3. Off(f, t, 1, 1) \/ Off(f, t, 1, -1) \/ Off(f, t, -1, 1) \/ Off(f, t, -1, -1)
    BY <1>1, <2>2, AdvisorStep
  <2> QED BY <1>3, <1>4, <2>3 DEF Off, SameFile, SameRank
<1> QED BY <1>2, <1>5, <1>6, <1>7 DEF f

\* A piece that goes along a line goes over free squares, or is a cannon that takes
\* a piece beyond a screen.
LEMMA SlidePath ==
  ASSUME NEW p, NEW m, Playable(p, m), OnLine(From(m), To(m))
  PROVE  \/ Clear(From(m), To(m), Occ(p))
         \/ TypeAt(p, From(m)) = "c" /\ To(m) \in Occ(p) /\ Single(From(m), To(m), Occ(p))
<1> DEFINE f == From(m)
           t == To(m)
           type == TypeAt(p, f)
<1>1. f \in Square /\ t \in Square /\ p.turn \in Color /\ f \in Us(p, p.turn)
  BY PlayableIs
<1>2. \/ type = "r" /\ Clear(f, t, Occ(p))
      \/ type = "c" /\ IF t \in Occ(p) THEN Single(f, t, Occ(p)) ELSE Clear(f, t, Occ(p))
      \/ type = "p" /\ t \in PawnAtt[p.turn][f]
      \/ type = "k" /\ t \in KingAtt[f]
  BY PseudoIs, LineMover DEF Playable
<1> HIDE DEF f, t
<1>3. Beside(f, t) => Clear(f, t, Occ(p))
  <2> HAVE Beside(f, t)
  <2>1. \A u \in Square : FileOf(u) \in Int /\ RankOf(u) \in Int
    BY Coordinates
  <2>2. \A u \in Square : ~Amid(f, u, t)
    BY <1>1, <2>1 DEF Beside, Off, Amid, Mid, SameFile, SameRank
  <2> QED BY <2>2 DEF Clear
<1>4. t \in PawnAtt[p.turn][f] => Beside(f, t)
  <2>1. Forward(p.turn) \in {-1, 1}
    BY <1>1, ForwardIs
  <2> QED BY <1>1, <2>1, PawnIs DEF Beside
<1>5. type = "k" /\ t \in KingAtt[f] => Beside(f, t)
  <2> HAVE type = "k" /\ t \in KingAtt[f]
  <2>1. f \in King_Pos
    BY <1>1, PlaceOf, ColorsAre DEF King_Pos, Playable
  <2> QED BY <2>1, KingStep DEF Beside
<1> QED BY <1>2, <1>3, <1>4, <1>5 DEF f, t

\* A move connects a capture of the king with itself through the squares between.
LEMMA Connects ==
  ASSUME NEW m, From(m) \in Square, To(m) \in Square, NEW k \in Square, NEW a \in Square, NEW line \in Sides,
         Along(line, k, a), NEW cap \in BOOLEAN
  PROVE  LET F == Amid(k, From(m), a)
             T == Amid(k, To(m), a)
         IN MoveConnect(m, <<a, k>>, cap) <=>
              IF OnSame(line, From(m), To(m)) THEN F /\ (~T \/ cap) ELSE F \/ T
<1> DEFINE f == From(m)
           t == To(m)
           F == Amid(k, f, a)
           T == Amid(k, t, a)
<1>1. f \in Square /\ t \in Square /\ k # a /\ OnSame(line, a, k)
  BY SidesAre DEF Along, SameFile, SameRank
<1>2. ASSUME NEW u \in Square PROVE OnSame(line, a, u) /\ Mid(u, a, k) <=> Amid(k, u, a)
  <2>1. OnSame(line, a, u) => (Mid(u, a, k) <=> Amid(k, u, a))
    BY <1>1, <1>2, MidIs
  <2>2. Amid(k, u, a) => OnSame(line, a, u)
    BY <1>2, AmidOn
  <2> QED BY <2>1, <2>2
<1>3. \A b \in Square, u \in Square, v \in Square : OnSame(line, b, u) /\ OnSame(line, u, v) => OnSame(line, b, v)
  BY SidesAre DEF SameFile, SameRank
<1>4. LineConnects(line, m, <<a, k>>, cap) <=>
        IF OnSame(line, f, t) THEN F /\ (~T \/ cap) ELSE F \/ T
  <2>1. LineConnects(line, m, <<a, k>>, cap) <=>
          IF OnSame(line, f, t) THEN OnSame(line, a, f) /\ Mid(f, a, k) /\ (~Mid(t, a, k) \/ cap)
          ELSE (OnSame(line, a, f) /\ Mid(f, a, k)) \/ (OnSame(line, a, t) /\ Mid(t, a, k))
    BY <1>1 DEF LineConnects, From, To
  <2>2. (OnSame(line, a, f) /\ Mid(f, a, k) <=> F) /\ (OnSame(line, a, t) /\ Mid(t, a, k) <=> T)
    BY <1>1, <1>2
  <2>3. OnSame(line, f, t) /\ OnSame(line, a, f) => OnSame(line, a, t)
    BY <1>1, <1>3
  <2> HIDE DEF f, t, F, T
  <2> QED BY <2>1, <2>2, <2>3
<1>5. \A other \in {FileSteps, RankSteps} : other # line => ~LineConnects(other, m, <<a, k>>, cap)
  <2> SUFFICES ASSUME NEW other \in {FileSteps, RankSteps}, other # line, LineConnects(other, m, <<a, k>>, cap) PROVE FALSE
    OBVIOUS
  <2>1. OnSame(other, a, k)
    BY DEF LineConnects, From, To
  <2>2. ~(SameFile(a, k) /\ SameRank(a, k))
    BY <1>1, OneLine
  <2> QED BY <1>1, <2>1, <2>2, SidesAre
<1>6. line \in {FileSteps, RankSteps}
  BY SidesAre
<1>7. k \notin KnightAttNoMask[a]
  BY <1>1, KnightAside, SidesAre
<1>8. a \in Bishop_Pos => k \notin BishopAttNoMask[a]
  <2> SUFFICES ASSUME a \in Bishop_Pos, k \in BishopAttNoMask[a] PROVE FALSE
    OBVIOUS
  <2>1. Off(a, k, 2, 2) \/ Off(a, k, 2, -2) \/ Off(a, k, -2, 2) \/ Off(a, k, -2, -2)
    BY BishopStep
  <2>2. FileOf(a) \in Int /\ RankOf(a) \in Int /\ FileOf(k) \in Int /\ RankOf(k) \in Int
    BY Coordinates
  <2>3. SameFile(a, k) \/ SameRank(a, k)
    BY <1>1, SidesAre
  <2> QED BY <2>1, <2>2, <2>3 DEF Off, SameFile, SameRank
<1>9. MoveConnect(m, <<a, k>>, cap) <=> \E l \in {FileSteps, RankSteps} : LineConnects(l, m, <<a, k>>, cap)
  <2>1. From(<<a, k>>) = a /\ To(<<a, k>>) = k
    BY DEF From, To
  <2> QED BY <1>7, <1>8, <2>1 DEF MoveConnect
<1> QED BY <1>4, <1>5, <1>6, <1>9

-----------------------------------------------------------------------------
(* A piece that moves while its king is not in check *)

\* The line of the piece that moves and its king, and that of its new square.
LineOf(s, k) == IF SameRank(s, k) THEN RankSteps ELSE FileSteps

\* What attacks the king through the square the piece leaves.
Pinning(p, m, k, a) ==
  LET f == From(m)
      t == To(m)
      line == LineOf(f, k)
      block == Occ(p) \ {f}
      rook == TypeAt(p, a) \in Sliders(line) /\ Along(line, k, a) /\ Clear(k, a, block)
      cannon == TypeAt(p, a) = "c" /\ Along(line, k, a) /\ Single(k, a, block)
  IN /\ OnSame(line, f, k) /\ Amid(k, f, a)
     /\ IF ~OnSame(line, f, t) THEN rook \/ cannon
        ELSE t \in Occ(p) /\ ((cannon /\ a # t) \/ (TypeAt(p, f) = "c" /\ rook))

\* A cannon that the piece becomes the screen of.
Screening(p, m, k, a) ==
  LET f == From(m)
      t == To(m)
      line == LineOf(t, k)
  IN /\ t \notin Occ(p) /\ OnLine(t, k)
     /\ TypeAt(p, a) = "c" /\ Along(line, k, a) /\ Single(k, a, Occ(p) \cup {t})
     /\ IF OnSame(line, f, t) THEN Amid(k, f, a) /\ ~Amid(k, t, a) ELSE Amid(k, f, a) \/ Amid(k, t, a)

\* A knight whose leg is freed.
Freeing(p, m, k, a) ==
  a \in KnightAttNoMask[k] /\ TypeAt(p, a) = "n" /\ From(m) = LegalLeg(a, k) /\ To(m) # a

\* The two tests of lines and the one of knights, piece by piece.
LEMMA PinIs ==
  ASSUME NEW p, NEW m, Playable(p, m), NEW k \in Square
  PROVE  (OnSame(LineOf(From(m), k), From(m), k) => PinKept(p, m, k, LineOf(From(m), k)))
         <=> \A a \in Us(p, Opp(p.turn)) : ~Pinning(p, m, k, a)
<1> DEFINE f == From(m)
           t == To(m)
           opp == Opp(p.turn)
           line == LineOf(f, k)
           block == Occ(p) \ {f}
           us == Us(p, opp)
           rook(a) == TypeAt(p, a) \in Sliders(line) /\ Along(line, k, a) /\ Clear(k, a, block)
           cannon(a) == TypeAt(p, a) = "c" /\ Along(line, k, a) /\ Single(k, a, block)
           rooks == RookLine(k, line, block) \cap Pieces(p, opp, Sliders(line))
           cannons == CannonLine(k, line, block) \cap Pieces(p, opp, {"c"})
           attackers == IF ~OnSame(line, f, t) THEN rooks \cup cannons
                        ELSE IF t \notin Occ(p) THEN {}
                        ELSE (cannons \ {t}) \cup IF TypeOf(p.board[f]) = "c" THEN rooks ELSE {}
<1>1. f \in Square /\ t \in Square /\ us \subseteq Square /\ ColorOf(p.board[f]) = p.turn
      /\ TypeOf(p.board[f]) = TypeAt(p, f)
  BY PlayableIs
<1>2. line \in Sides
  BY SidesAre DEF LineOf
<1>3. \A a, types : a \in Pieces(p, opp, types) <=> a \in us /\ TypeAt(p, a) \in types
  BY FitTypes DEF Playable
<1>4. \A a : (a \in rooks <=> a \in us /\ rook(a)) /\ (a \in cannons <=> a \in us /\ cannon(a))
  <2> TAKE a
  <2>1. /\ a \in RookLine(k, line, block) <=> a \in Square /\ Along(line, k, a) /\ Clear(k, a, block)
        /\ a \in CannonLine(k, line, block) <=> a \in Square /\ Along(line, k, a) /\ Single(k, a, block)
    BY <1>2, LineSees
  <2> QED BY <1>1, <1>3, <2>1
<1>5. PinKept(p, m, k, line) <=> \A a \in attackers : ~MoveConnect(m, <<a, k>>, OnSame(line, f, t))
  BY <1>1 DEF PinKept, Sliders
<1>6. ASSUME NEW a \in attackers
      PROVE  MoveConnect(m, <<a, k>>, OnSame(line, f, t)) <=> IF OnSame(line, f, t) THEN Amid(k, f, a) ELSE Amid(k, f, a) \/ Amid(k, t, a)
  <2>1. Along(line, k, a) /\ a \in Square
    BY <1>1, <1>4, <1>6
  <2>2. OnSame(line, f, t) \in BOOLEAN
    BY DEF OnSame, SameFile, SameRank
  <2> HIDE DEF attackers, line
  <2>3. MoveConnect(m, <<a, k>>, OnSame(line, f, t)) <=>
          IF OnSame(line, f, t) THEN Amid(k, f, a) /\ (~Amid(k, t, a) \/ OnSame(line, f, t)) ELSE Amid(k, f, a) \/ Amid(k, t, a)
    BY <1>1, <1>2, <2>1, <2>2, Connects
  <2> QED BY <2>3
<1>7. ASSUME NEW a \in Square, Along(line, k, a), OnSame(line, f, k), ~OnSame(line, f, t) PROVE ~Amid(k, t, a)
  <2>1. Amid(k, t, a) => OnSame(line, k, t)
    BY <1>1, <1>2, <1>7, AmidOn
  <2>2. OnSame(line, f, k) /\ OnSame(line, k, t) => OnSame(line, f, t)
    BY <1>2, SidesAre DEF SameFile, SameRank
  <2> QED BY <1>7, <2>1, <2>2
<1>8. \A a : Pinning(p, m, k, a) <=>
        /\ OnSame(line, f, k) /\ Amid(k, f, a)
        /\ IF ~OnSame(line, f, t) THEN rook(a) \/ cannon(a)
           ELSE t \in Occ(p) /\ ((cannon(a) /\ a # t) \/ (TypeAt(p, f) = "c" /\ rook(a)))
  BY DEF Pinning
<1>9. \A a : a \in attackers <=> a \in us /\ IF ~OnSame(line, f, t) THEN rook(a) \/ cannon(a)
           ELSE t \in Occ(p) /\ ((cannon(a) /\ a # t) \/ (TypeAt(p, f) = "c" /\ rook(a)))
  BY <1>1, <1>4
<1>10. \A a \in attackers : Along(line, k, a) /\ a \in Square
  BY <1>1, <1>4
<1> HIDE DEF f, t, us, line, block, rook, cannon, rooks, cannons, attackers
<1>11. OnSame(line, f, k) => (PinKept(p, m, k, line) <=> \A a \in us : ~Pinning(p, m, k, a))
  <2> SUFFICES ASSUME OnSame(line, f, k) PROVE PinKept(p, m, k, line) <=> \A a \in us : ~Pinning(p, m, k, a)
    OBVIOUS
  <2>1. ASSUME NEW a \in attackers PROVE MoveConnect(m, <<a, k>>, OnSame(line, f, t)) <=> Amid(k, f, a)
    BY <1>6, <1>7, <1>10, <2>1
  <2>2. \A a : Pinning(p, m, k, a) /\ a \in us <=> a \in attackers /\ Amid(k, f, a)
    BY <1>8, <1>9
  <2> QED BY <1>5, <2>1, <2>2
<1>12. ~OnSame(line, f, k) => \A a \in us : ~Pinning(p, m, k, a)
  BY <1>8
<1> QED BY <1>11, <1>12 DEF line, f, us, opp

\* The test of screens, cannon by cannon.
LEMMA ScreenIs ==
  ASSUME NEW p, NEW m, Playable(p, m), NEW k \in Square
  PROVE  NoScreen(p, m, k) <=> \A a \in Us(p, Opp(p.turn)) : ~Screening(p, m, k, a)
<1> DEFINE f == From(m)
           t == To(m)
           opp == Opp(p.turn)
           line == LineOf(t, k)
           block == Occ(p) \cup {t}
           us == Us(p, opp)
           cannons == CannonLine(k, line, block) \cap Pieces(p, opp, {"c"})
<1>1. f \in Square /\ t \in Square /\ us \subseteq Square /\ ColorOf(p.board[f]) = p.turn
  BY PlayableIs
<1>2. line \in Sides
  BY SidesAre DEF LineOf
<1>3. \A a : a \in Pieces(p, opp, {"c"}) <=> a \in us /\ TypeAt(p, a) = "c"
  BY FitTypes DEF Playable
<1>4. \A a : a \in cannons <=> a \in us /\ TypeAt(p, a) = "c" /\ Along(line, k, a) /\ Single(k, a, block)
  <2> TAKE a
  <2>1. a \in CannonLine(k, line, block) <=> a \in Square /\ Along(line, k, a) /\ Single(k, a, block)
    BY <1>2, LineSees
  <2> QED BY <1>1, <1>3, <2>1
<1>5. NoScreen(p, m, k) <=> (t \notin Occ(p) /\ OnLine(t, k) => \A a \in cannons : ~MoveConnect(m, <<a, k>>, FALSE))
  BY <1>1 DEF NoScreen, LineOf
<1>6. ASSUME NEW a \in cannons
      PROVE  MoveConnect(m, <<a, k>>, FALSE) <=>
               IF OnSame(line, f, t) THEN Amid(k, f, a) /\ ~Amid(k, t, a) ELSE Amid(k, f, a) \/ Amid(k, t, a)
  <2>1. Along(line, k, a) /\ a \in Square
    BY <1>1, <1>4, <1>6
  <2> HIDE DEF cannons, line
  <2>3. MoveConnect(m, <<a, k>>, FALSE) <=>
          IF OnSame(line, f, t) THEN Amid(k, f, a) /\ (~Amid(k, t, a) \/ FALSE) ELSE Amid(k, f, a) \/ Amid(k, t, a)
    BY <1>1, <1>2, <2>1, Connects
  <2> QED BY <2>3
<1>7. \A a : Screening(p, m, k, a) <=>
        /\ t \notin Occ(p) /\ OnLine(t, k)
        /\ TypeAt(p, a) = "c" /\ Along(line, k, a) /\ Single(k, a, block)
        /\ IF OnSame(line, f, t) THEN Amid(k, f, a) /\ ~Amid(k, t, a) ELSE Amid(k, f, a) \/ Amid(k, t, a)
  BY DEF Screening
<1> HIDE DEF f, t, us, line, block, cannons
<1>8. \A a : Screening(p, m, k, a) /\ a \in us <=> t \notin Occ(p) /\ OnLine(t, k) /\ a \in cannons /\ MoveConnect(m, <<a, k>>, FALSE)
  BY <1>4, <1>6, <1>7
<1>9. NoScreen(p, m, k) <=> \A a \in us : ~Screening(p, m, k, a)
  <2>1. \A a \in cannons : a \in us
    BY <1>4
  <2> QED BY <1>5, <1>8, <2>1
<1> QED BY <1>9 DEF us, opp

\* The leg of a knight that attacks a king is aslant of the king.
LEMMA LegPosIs ==
  ASSUME NEW k \in Square, NEW a \in KnightAttNoMask[k]
  PROVE  a \in Square /\ IsLegPos(LegalLeg(a, k), k)
<1>1. a \in Square /\ k \in KnightAttNoMask[a]
  BY KnightIs, KnightSym
<1> DEFINE u == LegalLeg(a, k)
<1>2. u \in Square /\ (Off(k, u, 1, 1) \/ Off(k, u, 1, -1) \/ Off(k, u, -1, 1) \/ Off(k, u, -1, -1))
  BY <1>1, LegIs
<1> HIDE DEF u
<1>3. /\ FileOf(u) \in Int /\ RankOf(u) \in Int /\ u = 9 * RankOf(u) + FileOf(u)
      /\ FileOf(k) \in Int /\ RankOf(k) \in Int /\ k = 9 * RankOf(k) + FileOf(k)
  BY <1>2, Coordinates
<1>4. u - k \in {-10, -8, 8, 10}
  BY <1>2, <1>3 DEF Off
<1> QED BY <1>1, <1>4 DEF IsLegPos, u

\* The test of a piece, attacker by attacker.
LEMMA PieceSafeIs ==
  ASSUME NEW p, NEW m, Playable(p, m)
  PROVE  LET k == KingSq(p, p.turn)
             quiet == /\ To(m) \notin Occ(p)
                      /\ \/ SameRank(From(m), k) /\ SameRank(From(m), To(m))
                         \/ SameFile(From(m), k) /\ SameFile(From(m), To(m))
         IN PieceSafe(p, m) <=>
              /\ \A a \in Us(p, Opp(p.turn)) : ~Pinning(p, m, k, a) /\ ~Freeing(p, m, k, a)
              /\ quiet \/ \A a \in Us(p, Opp(p.turn)) : ~Screening(p, m, k, a)
<1> DEFINE f == From(m)
           t == To(m)
           opp == Opp(p.turn)
           us == Us(p, opp)
           k == KingSq(p, p.turn)
           line == LineOf(f, k)
           knights == KnightAttNoMask[k] \cap Pieces(p, opp, {"n"})
<1>1. f \in Square /\ t \in Square /\ us \subseteq Square /\ ColorOf(p.board[f]) = p.turn /\ k \in Square
  BY PlayableIs
<1>2. PieceSafe(p, m) <=>
        /\ OnSame(line, f, k) => PinKept(p, m, k, line)
        /\ IsLegPos(f, k) => \A s \in knights : f = LegalLeg(s, k) => t = s
        /\ \/ t \notin Occ(p) /\ SameRank(f, k) /\ SameRank(f, t)
           \/ t \notin Occ(p) /\ SameFile(f, k) /\ SameFile(f, t)
           \/ NoScreen(p, m, k)
  BY <1>1 DEF PieceSafe, LineOf
<1>3. (OnSame(line, f, k) => PinKept(p, m, k, line)) <=> \A a \in us : ~Pinning(p, m, k, a)
  BY <1>1, PinIs
<1>4. NoScreen(p, m, k) <=> \A a \in us : ~Screening(p, m, k, a)
  BY <1>1, ScreenIs
<1>5. (IsLegPos(f, k) => \A s \in knights : f = LegalLeg(s, k) => t = s) <=> \A a \in us : ~Freeing(p, m, k, a)
  <2>1. \A a : a \in Pieces(p, opp, {"n"}) <=> a \in us /\ TypeAt(p, a) = "n"
    BY FitTypes DEF Playable
  <2>2. \A a \in KnightAttNoMask[k] : IsLegPos(LegalLeg(a, k), k)
    BY <1>1, LegPosIs
  <2>3. \A a : Freeing(p, m, k, a) <=> a \in KnightAttNoMask[k] /\ TypeAt(p, a) = "n" /\ f = LegalLeg(a, k) /\ t # a
    BY DEF Freeing
  <2> HIDE DEF f, t, us, k
  <2> QED BY <2>1, <2>2, <2>3
<1> HIDE DEF f, t, us, k, line, knights, opp
<1>6. PieceSafe(p, m) <=>
              /\ \A a \in us : ~Pinning(p, m, k, a) /\ ~Freeing(p, m, k, a)
              /\ (t \notin Occ(p) /\ ((SameRank(f, k) /\ SameRank(f, t)) \/ (SameFile(f, k) /\ SameFile(f, t))))
                 \/ \A a \in us : ~Screening(p, m, k, a)
  BY <1>2, <1>3, <1>4, <1>5
<1> QED BY <1>6 DEF f, t, us, k, opp

\* What a move changes between two squares.
LEMMA Counting ==
  ASSUME NEW k, NEW a, NEW f \in Square, NEW t \in Square, f # t, NEW occ, f \in occ
  PROVE  LET F == Amid(k, f, a)
             T == Amid(k, t, a)
             block == occ \ {f}
             after == (occ \ {f}) \cup {t}
             wide == occ \cup {t}
         IN /\ ~F => (Clear(k, a, block) <=> Clear(k, a, occ)) /\ (Single(k, a, block) <=> Single(k, a, occ))
            /\ ~T => (Clear(k, a, after) <=> Clear(k, a, block)) /\ (Single(k, a, after) <=> Single(k, a, block))
            /\ t \in occ => after = block
            /\ T => ~Clear(k, a, after)
            /\ T /\ t \in occ => ~Clear(k, a, block)
            /\ T /\ ~F => (Single(k, a, after) <=> Single(k, a, wide))
            /\ T /\ F /\ t \notin occ => (Single(k, a, after) <=> Single(k, a, occ))
<1> DEFINE F == Amid(k, f, a)
           T == Amid(k, t, a)
           block == occ \ {f}
           after == (occ \ {f}) \cup {t}
           wide == occ \cup {t}
           N(o) == {u \in o \cap Square : Amid(k, u, a)}
<1>1. \A o : Clear(k, a, o) <=> N(o) = {}
  BY DEF Clear
<1>2. \A o : Single(k, a, o) <=> \E u : N(o) = {u}
  <2> TAKE o
  <2>1. ASSUME Single(k, a, o) PROVE \E u : N(o) = {u}
    <3> PICK u \in o \cap Square : Amid(k, u, a) /\ \A v \in o \cap Square : Amid(k, v, a) => v = u
      BY <2>1 DEF Single
    <3>1. N(o) = {u}
      OBVIOUS
    <3> QED BY <3>1
  <2>2. ASSUME NEW u, N(o) = {u} PROVE Single(k, a, o)
    <3>1. u \in o \cap Square /\ Amid(k, u, a)
      BY <2>2
    <3>2. \A v \in o \cap Square : Amid(k, v, a) => v = u
      BY <2>2
    <3> QED BY <3>1, <3>2 DEF Single
  <2> QED BY <2>1, <2>2
<1>3. N(block) = N(occ) \ {f}
  OBVIOUS
<1>4. N(after) = N(block) \cup (IF T THEN {t} ELSE {})
  OBVIOUS
<1>5. N(wide) = N(occ) \cup (IF T THEN {t} ELSE {})
  OBVIOUS
<1>6. f \in N(occ) <=> F
  OBVIOUS
<1>7. (t \in N(occ) <=> T /\ t \in occ) /\ (t \in N(block) <=> T /\ t \in occ)
  OBVIOUS
<1>8. t \in occ => after = block
  OBVIOUS
<1> HIDE DEF N, F, T, block, after, wide
<1>9. ~F => N(block) = N(occ)
  BY <1>3, <1>6
<1>10. ~T => N(after) = N(block)
  BY <1>4
<1>11. T => t \in N(after)
  BY <1>4
<1>12. T /\ ~F => N(after) = N(wide)
  BY <1>4, <1>5, <1>9
<1>13. T /\ F /\ t \notin occ => ((\E u : N(after) = {u}) <=> \E u : N(occ) = {u})
  <2> SUFFICES ASSUME T, F, t \notin occ PROVE (\E u : N(after) = {u}) <=> \E u : N(occ) = {u}
    OBVIOUS
  <2> DEFINE M == N(block)
  <2>1. N(after) = M \cup {t} /\ t \notin M
    BY <1>4, <1>7
  <2>2. N(occ) = M \cup {f} /\ f \notin M
    BY <1>3, <1>6
  <2> HIDE DEF M
  <2>3. (\E u : M \cup {t} = {u}) <=> M = {}
    <3>1. ASSUME NEW u, M \cup {t} = {u} PROVE M = {}
      BY <2>1, <3>1
    <3>2. M = {} => M \cup {t} = {t}
      OBVIOUS
    <3> QED BY <3>1, <3>2
  <2>4. (\E u : M \cup {f} = {u}) <=> M = {}
    <3>1. ASSUME NEW u, M \cup {f} = {u} PROVE M = {}
      BY <2>2, <3>1
    <3>2. M = {} => M \cup {f} = {f}
      OBVIOUS
    <3> QED BY <3>1, <3>2
  <2> QED BY <2>1, <2>2, <2>3, <2>4
<1>14. /\ ~F => (Clear(k, a, block) <=> Clear(k, a, occ)) /\ (Single(k, a, block) <=> Single(k, a, occ))
       /\ ~T => (Clear(k, a, after) <=> Clear(k, a, block)) /\ (Single(k, a, after) <=> Single(k, a, block))
  BY <1>1, <1>2, <1>9, <1>10
<1>15. T => ~Clear(k, a, after)
  BY <1>1, <1>11
<1>16. T /\ t \in occ => ~Clear(k, a, block)
  BY <1>1, <1>7
<1>17. T /\ ~F => (Single(k, a, after) <=> Single(k, a, wide))
  BY <1>2, <1>12
<1>18. T /\ F /\ t \notin occ => (Single(k, a, after) <=> Single(k, a, occ))
  BY <1>2, <1>13
<1> QED BY <1>8, <1>14, <1>15, <1>16, <1>17, <1>18 DEF F, T, block, after, wide

\* The line of two squares.
LEMMA LineOfIs ==
  ASSUME NEW s \in Square, NEW k \in Square, s # k, NEW line \in Sides
  PROVE  /\ OnSame(line, s, k) => LineOf(s, k) = line /\ OnLine(s, k)
         /\ OnSame(LineOf(s, k), s, k) => OnLine(s, k)
         /\ LineOf(s, k) \in Sides
<1>1. ~(SameFile(s, k) /\ SameRank(s, k))
  BY OneLine
<1> QED BY <1>1, SidesAre DEF LineOf, OnLine

\* Between two pieces on a line, what a move uncovers, and what it makes a screen.
LEMMA LineFound ==
  ASSUME NEW p, NEW m, Playable(p, m), NEW k \in Occ(p), k \notin {From(m), To(m)},
         NEW a \in Occ(p), a \notin {From(m), To(m)}, NEW line \in Sides, Along(line, k, a)
  PROVE  LET f == From(m)
             t == To(m)
             occ == Occ(p)
             after == OccAfter(p, m)
             F == Amid(k, f, a)
             T == Amid(k, t, a)
             along == OnSame(line, f, t)
         IN /\ ~Clear(k, a, occ) =>
                 (Clear(k, a, after) <=>
                    F /\ Clear(k, a, occ \ {f}) /\ (~along \/ (t \in occ /\ TypeAt(p, f) = "c")))
            /\ ~Single(k, a, occ) =>
                 (Single(k, a, after) <=>
                    \/ F /\ Single(k, a, occ \ {f}) /\ (~along \/ t \in occ)
                    \/ /\ t \notin occ /\ OnSame(line, t, k) /\ Single(k, a, occ \cup {t})
                       /\ IF along THEN F /\ ~T ELSE F \/ T)
            /\ along /\ OnSame(line, t, k) /\ ~(F <=> T) => t \in occ /\ TypeAt(p, f) = "c"
<1> DEFINE f == From(m)
           t == To(m)
           occ == Occ(p)
           after == OccAfter(p, m)
           block == occ \ {f}
           wide == occ \cup {t}
           F == Amid(k, f, a)
           T == Amid(k, t, a)
           along == OnSame(line, f, t)
           c == TypeAt(p, f) = "c"
<1>1. /\ f \in Square /\ t \in Square /\ k \in Square /\ a \in Square /\ f # t /\ f # k /\ t # k /\ f # a /\ t # a
      /\ f \in occ /\ k \in occ /\ a \in occ
  BY PlayableIs
<1>2. after = (occ \ {f}) \cup {t}
  BY DEF OccAfter
<1>3. /\ ~F => (Clear(k, a, block) <=> Clear(k, a, occ)) /\ (Single(k, a, block) <=> Single(k, a, occ))
      /\ ~T => (Clear(k, a, after) <=> Clear(k, a, block)) /\ (Single(k, a, after) <=> Single(k, a, block))
      /\ t \in occ => after = block
      /\ T => ~Clear(k, a, after)
      /\ T /\ t \in occ => ~Clear(k, a, block)
      /\ T /\ ~F => (Single(k, a, after) <=> Single(k, a, wide))
      /\ T /\ F /\ t \notin occ => (Single(k, a, after) <=> Single(k, a, occ))
  <2> HIDE DEF f, t, occ, after
  <2> QED BY <1>1, <1>2, Counting
<1>4. (F => OnSame(line, f, k) /\ OnSame(line, k, f)) /\ (T => OnSame(line, t, k) /\ OnSame(line, k, t))
  BY <1>1, AmidOn
<1>5. \A r, s, u : OnSame(line, r, s) /\ OnSame(line, s, u) => OnSame(line, r, u)
  BY SidesAre DEF SameFile, SameRank
<1>6. \A r, s : OnSame(line, r, s) => OnSame(line, s, r) /\ OnLine(r, s)
  BY SidesAre DEF SameFile, SameRank, OnLine
<1>7. along /\ OnSame(line, t, k) /\ F # T => c /\ t \in occ
  <2> SUFFICES ASSUME along, OnSame(line, t, k), F # T PROVE c /\ t \in occ
    OBVIOUS
  <2>1. OnSame(line, k, f) /\ OnSame(line, k, t)
    <3> HIDE DEF f, t
    <3> QED BY <1>5, <1>6
  <2>2. Amid(f, k, t) \/ Amid(f, a, t)
    <3>1. Along(line, k, a) /\ Amid(k, f, a) # Amid(k, t, a)
      OBVIOUS
    <3> HIDE DEF f, t
    <3> QED BY <1>1, <2>1, <3>1, Crossing
  <2>3. ~Clear(f, t, occ)
    BY <1>1, <2>2 DEF Clear
  <2>4. OnLine(f, t)
    BY <1>6
  <2> QED BY <2>3, <2>4, SlidePath
<1>8. F \in BOOLEAN /\ T \in BOOLEAN
  BY DEF Amid, SameFile, SameRank, Mid
<1> HIDE DEF f, t, occ, after, block, wide, F, T, along, c
<1>9. F /\ OnSame(line, t, k) => OnSame(line, f, t)
  BY <1>4, <1>5, <1>6
<1>10. ~Clear(k, a, occ) => (Clear(k, a, after) <=> F /\ Clear(k, a, block) /\ (~along \/ (t \in occ /\ c)))
  <2>1. ASSUME F, ~T, along PROVE c /\ t \in occ
    <3>1. OnSame(line, t, k)
      BY <1>4, <1>5, <1>6, <2>1 DEF along
    <3> QED BY <1>7, <2>1, <3>1
  <2>2. F /\ T => along
    BY <1>4, <1>9 DEF along
  <2> QED BY <1>3, <2>1, <2>2
<1>11. ~Single(k, a, occ) =>
         (Single(k, a, after) <=>
                    \/ F /\ Single(k, a, block) /\ (~along \/ t \in occ)
                    \/ /\ t \notin occ /\ OnSame(line, t, k) /\ Single(k, a, wide)
                       /\ IF along THEN F /\ ~T ELSE F \/ T)
  <2> SUFFICES ASSUME ~Single(k, a, occ)
               PROVE  Single(k, a, after) <=>
                         \/ F /\ Single(k, a, block) /\ (~along \/ t \in occ)
                         \/ /\ t \notin occ /\ OnSame(line, t, k) /\ Single(k, a, wide)
                            /\ IF along THEN F /\ ~T ELSE F \/ T
    OBVIOUS
  <2>1. CASE ~F /\ ~T
    BY <1>3, <2>1
  <2>2. CASE ~F /\ T
    <3>1. t \notin occ => ~along
      BY <1>4, <1>7, <1>8, <2>2
    <3>2. CASE t \in occ
      BY <1>3, <2>2, <3>2
    <3>3. CASE t \notin occ
      BY <1>3, <1>4, <2>2, <3>1, <3>3
    <3> QED BY <3>2, <3>3
  <2>3. CASE F /\ T
    <3>1. along
      BY <1>4, <1>9, <2>3 DEF along
    <3> QED BY <1>3, <2>3, <3>1
  <2>4. CASE F /\ ~T
    <3>1. along => OnSame(line, t, k)
      BY <1>4, <1>5, <1>6, <2>4 DEF along
    <3>2. along => t \in occ
      BY <1>7, <1>8, <2>4, <3>1
    <3>3. ~along => ~OnSame(line, t, k)
      BY <1>9, <2>4 DEF along
    <3> QED BY <1>3, <2>4, <3>2, <3>3
  <2> QED BY <2>1, <2>2, <2>3, <2>4
<1>12. along /\ OnSame(line, t, k) /\ ~(F <=> T) => t \in occ /\ c
  BY <1>7, <1>8
<1> QED BY <1>10, <1>11, <1>12 DEF f, t, occ, after, block, wide, F, T, along, c

\* An attacker's own square.
LEMMA TakenSafe ==
  ASSUME NEW p, NEW m, Playable(p, m), TypeAt(p, From(m)) # "k", To(m) \in Us(p, Opp(p.turn))
  PROVE  LET k == KingSq(p, p.turn)
         IN ~Pinning(p, m, k, To(m)) /\ ~Freeing(p, m, k, To(m)) /\ ~Screening(p, m, k, To(m))
<1> DEFINE f == From(m)
           t == To(m)
           k == KingSq(p, p.turn)
           line == LineOf(f, k)
<1>1. /\ f \in Square /\ t \in Square /\ k \in Square /\ f # t /\ f # k /\ t # k /\ f \in Occ(p) /\ t \in Occ(p)
  BY PlayableIs
<1>2. ~Freeing(p, m, k, t) /\ ~Screening(p, m, k, t)
  BY <1>1 DEF Freeing, Screening
<1>3. ASSUME Pinning(p, m, k, t) PROVE FALSE
  <2>1. Along(line, k, t) /\ Amid(k, f, t)
    BY <1>3 DEF Pinning
  <2>2. line \in Sides
    BY SidesAre DEF LineOf
  <2>3. OnSame(line, f, t)
    BY <1>1, <2>1, <2>2, AmidOn
  <2>4. TypeAt(p, f) = "c" /\ Clear(k, t, Occ(p) \ {f})
    BY <1>3, <2>3 DEF Pinning
  <2>5. Single(f, t, Occ(p))
    BY <1>1, <2>4, PseudoIs DEF Playable
  <2>6. PICK u \in Occ(p) \cap Square : Amid(f, u, t)
    BY <2>5 DEF Single
  <2>7. Amid(k, u, t) /\ u # f
    BY <1>1, <2>1, <2>6, FurtherOn
  <2> QED BY <2>4, <2>6, <2>7 DEF Clear
<1> QED BY <1>2, <1>3

\* Each piece attacks the king after the move just if the test finds it.
LEMMA FoundIs ==
  ASSUME NEW p, NEW m, Playable(p, m), ~Exposed(p, p.turn), TypeAt(p, From(m)) # "k",
         NEW a \in Us(p, Opp(p.turn)), a # To(m)
  PROVE  LET k == KingSq(p, p.turn)
         IN Aims(TypeAt(p, a), Opp(p.turn), a, k, OccAfter(p, m)) <=>
              Pinning(p, m, k, a) \/ Freeing(p, m, k, a) \/ Screening(p, m, k, a)
<1> DEFINE f == From(m)
           t == To(m)
           opp == Opp(p.turn)
           k == KingSq(p, p.turn)
           type == TypeAt(p, a)
           occ == Occ(p)
           after == OccAfter(p, m)
           block == occ \ {f}
           wide == occ \cup {t}
           F == Amid(k, f, a)
           T == Amid(k, t, a)
           found == Pinning(p, m, k, a) \/ Freeing(p, m, k, a) \/ Screening(p, m, k, a)
<1>1. /\ f \in Square /\ t \in Square /\ k \in Square /\ a \in Square /\ f # t /\ f # k /\ t # k /\ f # a /\ t # a
      /\ f \in occ /\ k \in occ /\ a \in occ /\ a # k /\ opp \in Color /\ k \in KingPos(p.turn) /\ p.turn \in Color
  BY PlayableIs
<1>2. ~Aims(type, opp, a, k, occ)
  BY DEF Exposed
<1>3. after = (occ \ {f}) \cup {t}
  BY DEF OccAfter
<1>4. /\ Pinning(p, m, k, a) <=>
           /\ OnSame(LineOf(f, k), f, k) /\ F
           /\ IF ~OnSame(LineOf(f, k), f, t)
              THEN \/ type \in Sliders(LineOf(f, k)) /\ Along(LineOf(f, k), k, a) /\ Clear(k, a, block)
                   \/ type = "c" /\ Along(LineOf(f, k), k, a) /\ Single(k, a, block)
              ELSE t \in occ /\ \/ type = "c" /\ Along(LineOf(f, k), k, a) /\ Single(k, a, block) /\ a # t
                                \/ TypeAt(p, f) = "c" /\ type \in Sliders(LineOf(f, k)) /\ Along(LineOf(f, k), k, a)
                                   /\ Clear(k, a, block)
  BY DEF Pinning
<1>5. Screening(p, m, k, a) <=>
        /\ t \notin occ /\ OnLine(t, k)
        /\ type = "c" /\ Along(LineOf(t, k), k, a) /\ Single(k, a, wide)
        /\ IF OnSame(LineOf(t, k), f, t) THEN F /\ ~T ELSE F \/ T
  BY DEF Screening
<1>6. Freeing(p, m, k, a) <=> a \in KnightAttNoMask[k] /\ type = "n" /\ f = LegalLeg(a, k)
  BY DEF Freeing
<1>7. Sliders(LineOf(f, k)) \subseteq {"r", "k"} /\ "r" \in Sliders(LineOf(f, k))
  BY DEF Sliders
<1>19. a # t
  OBVIOUS
<1>8. \A line \in Sides : Along(line, k, a) =>
            /\ ~Clear(k, a, occ) =>
                 (Clear(k, a, after) <=>
                    F /\ Clear(k, a, block) /\ (~OnSame(line, f, t) \/ (t \in occ /\ TypeAt(p, f) = "c")))
            /\ ~Single(k, a, occ) =>
                 (Single(k, a, after) <=>
                    \/ F /\ Single(k, a, block) /\ (~OnSame(line, f, t) \/ t \in occ)
                    \/ /\ t \notin occ /\ OnSame(line, t, k) /\ Single(k, a, wide)
                       /\ IF OnSame(line, f, t) THEN F /\ ~T ELSE F \/ T)
  BY <1>1, <1>19, LineFound
<1>9. \A line \in Sides : Along(line, k, a) /\ F => OnSame(line, f, k)
  BY <1>1, AmidOn
<1>10. LineOf(f, k) \in Sides /\ LineOf(t, k) \in Sides
  BY SidesAre DEF LineOf
<1>11. \A line \in Sides : (OnSame(line, f, k) => LineOf(f, k) = line) /\ (OnSame(line, t, k) => LineOf(t, k) = line /\ OnLine(t, k))
  BY <1>1, LineOfIs
<1>12. \A line \in Sides, other \in Sides : Along(line, k, a) /\ Along(other, k, a) => line = other
  <2>1. ~(SameFile(k, a) /\ SameRank(k, a))
    BY <1>1, OneLine
  <2> QED BY <2>1, SidesAre DEF Along
<1>13. OnLine(t, k) => OnSame(LineOf(t, k), t, k)
  BY SidesAre DEF OnLine, LineOf
<1>14. Sight(k, a) <=> \E line \in Sides : Along(line, k, a)
  <2>1. Sight(k, a) <=> Along(RankSteps, k, a) \/ Along(FileSteps, k, a)
    BY SidesAre DEF Sight, OnLine, Along
  <2> QED BY <2>1, SidesAre
<1>15. F => OnSame(LineOf(f, k), f, k) \/ ~OnLine(k, a)
  <2>1. OnLine(k, a) => Sight(k, a)
    BY <1>1 DEF Sight
  <2> QED BY <1>9, <1>11, <1>14, <2>1
<1>16. Aims(type, opp, a, k, after) <=>
         \/ type = "r" /\ Sight(k, a) /\ Clear(k, a, after)
         \/ type = "c" /\ Sight(k, a) /\ Single(k, a, after)
         \/ type = "n" /\ a \in KnightAttNoMask[k] /\ LegalLeg(a, k) \notin after
         \/ type = "p" /\ a \in PawnAttd[opp][k]
         \/ type = "k" /\ a # k /\ SameFile(k, a) /\ Clear(k, a, after)
  BY DEF Aims
<1>17. ~(\/ type = "r" /\ Sight(k, a) /\ Clear(k, a, occ)
         \/ type = "c" /\ Sight(k, a) /\ Single(k, a, occ)
         \/ type = "n" /\ a \in KnightAttNoMask[k] /\ LegalLeg(a, k) \notin occ
         \/ type = "p" /\ a \in PawnAttd[opp][k]
         \/ type = "k" /\ a # k /\ SameFile(k, a) /\ Clear(k, a, occ))
  BY <1>2 DEF Aims
<1>18. type = "k" => a \in KingPos(opp)
  BY <1>1, PlaceOf DEF Playable
<1> HIDE DEF f, t, opp, k, type, occ, after, block, wide, F, T
<1>20. ASSUME type = "r" PROVE Aims(type, opp, a, k, after) <=> found
  <2>1. CASE ~Sight(k, a)
    BY <1>4, <1>5, <1>6, <1>10, <1>14, <1>16, <1>20, <2>1
  <2>2. CASE Sight(k, a)
    <3> PICK line \in Sides : Along(line, k, a)
      BY <1>14, <2>2
    <3>1. ~Clear(k, a, occ)
      BY <1>17, <1>20, <2>2
    <3>2. Clear(k, a, after) <=>
            F /\ Clear(k, a, block) /\ (~OnSame(line, f, t) \/ (t \in occ /\ TypeAt(p, f) = "c"))
      BY <1>8, <3>1
    <3>3. F => OnSame(LineOf(f, k), f, k) /\ LineOf(f, k) = line
      BY <1>9, <1>11
    <3>4. Pinning(p, m, k, a) <=> F /\ Clear(k, a, block) /\ (~OnSame(line, f, t) \/ (t \in occ /\ TypeAt(p, f) = "c"))
      <4>1. CASE ~F
        BY <1>4, <4>1
      <4>2. CASE F
        BY <1>4, <1>7, <1>20, <3>3, <4>2
      <4> QED BY <4>1, <4>2
    <3> QED BY <1>5, <1>6, <1>16, <1>20, <2>2, <3>2, <3>4
  <2> QED BY <2>1, <2>2
<1>21. ASSUME type = "c" PROVE Aims(type, opp, a, k, after) <=> found
  <2>1. CASE ~Sight(k, a)
    BY <1>4, <1>5, <1>6, <1>10, <1>14, <1>16, <1>21, <2>1
  <2>2. CASE Sight(k, a)
    <3> PICK line \in Sides : Along(line, k, a)
      BY <1>14, <2>2
    <3>1. ~Single(k, a, occ)
      BY <1>17, <1>21, <2>2
    <3>2. Single(k, a, after) <=>
                    \/ F /\ Single(k, a, block) /\ (~OnSame(line, f, t) \/ t \in occ)
                    \/ /\ t \notin occ /\ OnSame(line, t, k) /\ Single(k, a, wide)
                       /\ IF OnSame(line, f, t) THEN F /\ ~T ELSE F \/ T
      BY <1>8, <3>1
    <3>3. F => OnSame(LineOf(f, k), f, k) /\ LineOf(f, k) = line
      BY <1>9, <1>11
    <3>4. Pinning(p, m, k, a) <=> F /\ Single(k, a, block) /\ (~OnSame(line, f, t) \/ t \in occ)
      <4>1. CASE ~F
        BY <1>4, <4>1
      <4>2. CASE F
        <5>1. type \notin Sliders(LineOf(f, k))
          BY <1>7, <1>21
        <5> QED BY <1>4, <1>19, <1>21, <3>3, <4>2, <5>1
      <4> QED BY <4>1, <4>2
    <3>5. Screening(p, m, k, a) <=> /\ t \notin occ /\ OnSame(line, t, k) /\ Single(k, a, wide)
                                    /\ IF OnSame(line, f, t) THEN F /\ ~T ELSE F \/ T
      <4>1. CASE OnSame(line, t, k)
        <5>1. LineOf(t, k) = line /\ OnLine(t, k)
          BY <1>11, <4>1
        <5> QED BY <1>5, <1>21, <4>1, <5>1
      <4>2. CASE ~OnSame(line, t, k)
        <5>1. OnLine(t, k) => ~Along(LineOf(t, k), k, a)
          BY <1>10, <1>12, <1>13, <4>2
        <5> QED BY <1>5, <4>2, <5>1
      <4> QED BY <4>1, <4>2
    <3> QED BY <1>6, <1>16, <1>21, <2>2, <3>2, <3>4, <3>5
  <2> QED BY <2>1, <2>2
<1>22. ASSUME type = "n" PROVE Aims(type, opp, a, k, after) <=> found
  <2>1. ~Pinning(p, m, k, a) /\ ~Screening(p, m, k, a)
    <3>1. type \notin Sliders(LineOf(f, k))
      BY <1>7, <1>22
    <3> QED BY <1>4, <1>5, <1>22, <3>1
  <2>2. a \in KnightAttNoMask[k] => LegalLeg(a, k) \in occ
    BY <1>17, <1>22
  <2>3. a \in KnightAttNoMask[k] => (LegalLeg(a, k) \notin after <=> LegalLeg(a, k) = f)
    BY <1>1, <1>3, <2>2
  <2> QED BY <1>6, <1>16, <1>22, <2>1, <2>3
<1>23. ASSUME type = "p" PROVE Aims(type, opp, a, k, after) <=> found
  <2>1. type \notin Sliders(LineOf(f, k))
    BY <1>7, <1>23
  <2> QED BY <1>4, <1>5, <1>6, <1>16, <1>17, <1>23, <2>1
<1>24. ASSUME type = "k" PROVE Aims(type, opp, a, k, after) <=> found
  <2>1. ~SameRank(k, a)
    <3>1. a \in KingPos(Opp(p.turn))
      BY <1>18, <1>24 DEF opp
    <3> QED BY <1>1, <3>1, KingsApart
  <2>2. ~Along(RankSteps, k, a) /\ (Along(FileSteps, k, a) <=> SameFile(k, a))
    BY <1>1, <2>1, SidesAre DEF Along
  <2>3. Along(LineOf(f, k), k, a) => LineOf(f, k) = FileSteps /\ SameFile(k, a)
    BY <1>10, <2>2, SidesAre
  <2>4. LineOf(f, k) = FileSteps => type \in Sliders(LineOf(f, k))
    BY <1>24 DEF Sliders
  <2>5. CASE ~SameFile(k, a)
    BY <1>4, <1>5, <1>6, <1>16, <1>24, <2>3, <2>5
  <2>6. CASE SameFile(k, a)
    <3> DEFINE line == FileSteps
    <3>0. line \in Sides /\ Along(line, k, a)
      BY <2>2, <2>6, SidesAre
    <3>1. ~Clear(k, a, occ)
      BY <1>1, <1>17, <1>24, <2>6
    <3> HIDE DEF line
    <3>2. Clear(k, a, after) <=>
            F /\ Clear(k, a, block) /\ (~OnSame(line, f, t) \/ (t \in occ /\ TypeAt(p, f) = "c"))
      BY <1>8, <3>0, <3>1
    <3>3. F => OnSame(LineOf(f, k), f, k) /\ LineOf(f, k) = line
      BY <1>9, <1>11, <3>0
    <3>4. Pinning(p, m, k, a) <=> F /\ Clear(k, a, block) /\ (~OnSame(line, f, t) \/ (t \in occ /\ TypeAt(p, f) = "c"))
      <4>1. CASE ~F
        BY <1>4, <4>1
      <4>2. CASE F
        <5>1. type \in Sliders(LineOf(f, k))
          BY <2>4, <3>3, <4>2 DEF line
        <5> QED BY <1>4, <1>24, <3>0, <3>3, <4>2, <5>1
      <4> QED BY <4>1, <4>2
    <3> QED BY <1>1, <1>5, <1>6, <1>16, <1>24, <2>6, <3>2, <3>4
  <2> QED BY <2>5, <2>6
<1>25. ASSUME type \notin {"r", "c", "n", "p", "k"} PROVE Aims(type, opp, a, k, after) <=> found
  <2>1. type \notin Sliders(LineOf(f, k))
    BY <1>7, <1>25
  <2> QED BY <1>4, <1>5, <1>6, <1>16, <1>25, <2>1
<1>26. Aims(type, opp, a, k, after) <=> found
  BY <1>20, <1>21, <1>22, <1>23, <1>24, <1>25
<1> QED BY <1>26 DEF type, opp, k, after

\* A piece that moves along the line of its king to a free square makes no screen.
LEMMA QuietAlong ==
  ASSUME NEW p, NEW m, Playable(p, m), TypeAt(p, From(m)) # "k", To(m) \notin Occ(p),
         NEW a \in Us(p, Opp(p.turn)),
         \/ SameRank(From(m), KingSq(p, p.turn)) /\ SameRank(From(m), To(m))
         \/ SameFile(From(m), KingSq(p, p.turn)) /\ SameFile(From(m), To(m))
  PROVE  ~Screening(p, m, KingSq(p, p.turn), a)
<1> DEFINE f == From(m)
           t == To(m)
           k == KingSq(p, p.turn)
           line == LineOf(t, k)
<1>1. /\ f \in Square /\ t \in Square /\ k \in Square /\ a \in Square /\ f # t /\ f # k /\ t # k /\ f # a
      /\ a \in Occ(p) /\ k \in Occ(p)
  BY PlayableIs
<1>2. a # t
  BY <1>1
<1>3. line \in Sides /\ OnSame(line, f, t) /\ OnSame(line, t, k)
  <2>1. ~(SameFile(t, k) /\ SameRank(t, k))
    BY <1>1, OneLine
  <2> QED BY <2>1, SidesAre DEF LineOf, SameFile, SameRank
<1>4. Along(line, k, a) => (Amid(k, f, a) <=> Amid(k, t, a))
  BY <1>1, <1>2, <1>3, LineFound
<1> QED BY <1>3, <1>4 DEF Screening

\* The test of a piece is the look at the position after its move.
LEMMA PieceTest ==
  ASSUME NEW p, NEW m, Playable(p, m), ~Exposed(p, p.turn), TypeAt(p, From(m)) # "k"
  PROVE  PieceSafe(p, m) <=> ~Exposed(After(p, m), p.turn)
<1> DEFINE t == To(m)
           opp == Opp(p.turn)
           us == Us(p, opp)
           k == KingSq(p, p.turn)
           after == OccAfter(p, m)
           quiet == /\ t \notin Occ(p)
                    /\ \/ SameRank(From(m), k) /\ SameRank(From(m), t)
                       \/ SameFile(From(m), k) /\ SameFile(From(m), t)
<1>1. Exposed(After(p, m), p.turn) <=> Struck(p, opp, k, after, {t})
  BY ExposedAfter DEF Playable, Guarded
<1>2. PieceSafe(p, m) <=> /\ \A a \in us : ~Pinning(p, m, k, a) /\ ~Freeing(p, m, k, a)
                          /\ quiet \/ \A a \in us : ~Screening(p, m, k, a)
  BY PieceSafeIs
<1>3. quiet => \A a \in us : ~Screening(p, m, k, a)
  BY QuietAlong
<1>4. \A a \in us : a # t => (Aims(TypeAt(p, a), opp, a, k, after) <=>
                                Pinning(p, m, k, a) \/ Freeing(p, m, k, a) \/ Screening(p, m, k, a))
  BY FoundIs
<1>5. t \in us => ~Pinning(p, m, k, t) /\ ~Freeing(p, m, k, t) /\ ~Screening(p, m, k, t)
  BY TakenSafe
<1>6. Struck(p, opp, k, after, {t}) <=> \E a \in us : a # t /\ Aims(TypeAt(p, a), opp, a, k, after)
  BY DEF Struck
<1> HIDE DEF t, opp, us, k, after, quiet
<1> QED BY <1>1, <1>2, <1>3, <1>4, <1>5, <1>6

-----------------------------------------------------------------------------
(* The moves that are generated, and the positions they lead to *)

\* gen_moves gives what move_is_pseudo accepts, on the board.
LEMMA ReachIs ==
  ASSUME NEW p, Fit(p), NEW s \in Us(p, p.turn), NEW t, t \notin Us(p, p.turn)
  PROVE  t \in Reach(p, s) <=> t \in Square /\ MoveIsPseudo(p, <<s, t>>)
<1> DEFINE c == p.turn
           type == TypeAt(p, s)
           occ == Occ(p)
<1>1. /\ c \in Color /\ s \in occ /\ s \in Square /\ ColorOf(p.board[s]) = c /\ type \in Type
      /\ TypeOf(p.board[s]) = type /\ s # t
  BY FitTypes DEF Us, TypeAt
<1>2. t \in occ <=> t \in Us(p, Opp(c))
  BY <1>1, FitTypes
<1>3. /\ type = "k" => s \in KingPos(c)
      /\ type = "a" => s \in AdvisorPos(c)
      /\ type = "b" => s \in BishopPos(c)
  BY <1>1, PlaceOf
<1>4. From(<<s, t>>) = s /\ To(<<s, t>>) = t
  BY DEF From, To
<1>5. t \in Reach(p, s) <=>
        \/ type = "k" /\ t \in KingAtt[s]
        \/ type = "a" /\ t \in AdvisorAtt[s]
        \/ type = "b" /\ t \in BishopAtt(s, occ)
        \/ type = "n" /\ t \in KnightAtt(s, occ)
        \/ type = "r" /\ t \in RookAtt(s, occ)
        \/ type = "c" /\ ((t \in RookAtt(s, occ) /\ t \notin occ) \/ (t \in CannonAtt(s, occ) /\ t \in occ))
        \/ type = "p" /\ t \in PawnAtt[c][s]
  <2> DEFINE R == Reach(p, s)
  <2>1. R = CASE type = "k" -> KingAtt[s]
              [] type = "a" -> AdvisorAtt[s]
              [] type = "b" -> BishopAtt(s, occ)
              [] type = "n" -> KnightAtt(s, occ)
              [] type = "r" -> RookAtt(s, occ)
              [] type = "c" -> (RookAtt(s, occ) \ occ) \cup (CannonAtt(s, occ) \cap Us(p, Opp(c)))
              [] type = "p" -> PawnAtt[c][s]
    BY <1>1 DEF Reach
  <2> HIDE DEF R, c, type, occ
  <2>2. t \in R <=>
        \/ type = "k" /\ t \in KingAtt[s]
        \/ type = "a" /\ t \in AdvisorAtt[s]
        \/ type = "b" /\ t \in BishopAtt(s, occ)
        \/ type = "n" /\ t \in KnightAtt(s, occ)
        \/ type = "r" /\ t \in RookAtt(s, occ)
        \/ type = "c" /\ ((t \in RookAtt(s, occ) /\ t \notin occ) \/ (t \in CannonAtt(s, occ) /\ t \in occ))
        \/ type = "p" /\ t \in PawnAtt[c][s]
    <3>1. type = "k" => R = KingAtt[s]
      BY <2>1
    <3>2. type = "a" => R = AdvisorAtt[s]
      BY <2>1
    <3>3. type = "b" => R = BishopAtt(s, occ)
      BY <2>1
    <3>4. type = "n" => R = KnightAtt(s, occ)
      BY <2>1
    <3>5. type = "r" => R = RookAtt(s, occ)
      BY <2>1
    <3>6. type = "c" => R = (RookAtt(s, occ) \ occ) \cup (CannonAtt(s, occ) \cap Us(p, Opp(c)))
      BY <2>1
    <3>7. type = "p" => R = PawnAtt[c][s]
      BY <2>1
    <3>8. type \in {"k", "r", "n", "c", "a", "b", "p"}
      BY <1>1 DEF Type
    <3> QED BY <1>2, <3>1, <3>2, <3>3, <3>4, <3>5, <3>6, <3>7, <3>8
  <2> QED BY <2>2 DEF R
<1>6. MoveIsPseudo(p, <<s, t>>) <=>
         CASE type = "r" -> OnLine(s, t) /\ Screens(p, s, t) = 0
           [] type = "c" -> OnLine(s, t) /\ Screens(p, s, t) = IF t \in occ THEN 1 ELSE 0
           [] type = "n" -> t \in KnightAttNoMask[s] /\ LegalLeg(s, t) \notin occ
           [] type = "b" -> t \in BishopAttNoMask[s] /\ (s + t) \div 2 \notin occ
           [] type = "a" -> t \in AdvisorAtt[s]
           [] type = "p" -> t \in PawnAtt[c][s]
           [] type = "k" -> t \in KingAtt[s]
  BY <1>1, <1>4 DEF MoveIsPseudo
<1>7. t \in Square /\ OnLine(s, t) =>
        /\ Screens(p, s, t) = 0 <=> Clear(s, t, occ)
        /\ Screens(p, s, t) = 1 <=> Single(s, t, occ)
  BY <1>1, CountIs DEF Screens
<1>8. /\ t \in RookAtt(s, occ) <=> t \in Square /\ Sight(s, t) /\ Clear(s, t, occ)
      /\ t \in CannonAtt(s, occ) <=> t \in Square /\ Sight(s, t) /\ Single(s, t, occ)
  BY <1>1, AllSees
<1>9. Sight(s, t) <=> OnLine(s, t)
  BY <1>1 DEF Sight
<1>10. t \in BishopAtt(s, occ) <=> t \in BishopAttNoMask[s] /\ (s + t) \div 2 \notin occ
  BY DEF BishopAtt
<1>11. t \in KnightAtt(s, occ) <=> t \in KnightAttNoMask[s] /\ LegalLeg(s, t) \notin occ
  BY DEF KnightAtt
<1>12. /\ t \in KnightAttNoMask[s] => t \in Square
       /\ t \in PawnAtt[c][s] => t \in Square
       /\ type = "b" /\ t \in BishopAttNoMask[s] => t \in Square
       /\ type = "a" /\ t \in AdvisorAtt[s] => t \in Square
       /\ type = "k" /\ t \in KingAtt[s] => t \in Square
  BY <1>1, <1>3, KnightIs, PawnIs, BishopStays, AdvisorStays, KingStays
<1> HIDE DEF c, type, occ
<1>13. type \in {"k", "r", "n", "c", "a", "b", "p"}
  BY <1>1 DEF Type
<1>14. CASE type = "r"
  BY <1>5, <1>6, <1>7, <1>8, <1>9, <1>14
<1>15. CASE type = "c"
  BY <1>5, <1>6, <1>7, <1>8, <1>9, <1>15
<1>16. CASE type = "n"
  BY <1>5, <1>6, <1>11, <1>12, <1>16
<1>17. CASE type = "b"
  BY <1>5, <1>6, <1>10, <1>12, <1>17
<1>18. CASE type = "a"
  BY <1>5, <1>6, <1>12, <1>18
<1>19. CASE type = "p"
  BY <1>5, <1>6, <1>12, <1>19
<1>20. CASE type = "k"
  BY <1>5, <1>6, <1>12, <1>20
<1> QED BY <1>13, <1>14, <1>15, <1>16, <1>17, <1>18, <1>19, <1>20

\* gen_moves gives what move_is_pseudo accepts.
LEMMA GenMovesIs ==
  ASSUME NEW p, Fit(p)
  PROVE  GenMoves(p) = {m \in Us(p, p.turn) \X Square : MoveIsPseudo(p, m)}
<1>1. \A m : m \in GenMoves(p) <=> \E s \in Us(p, p.turn) : m \in {s} \X (Reach(p, s) \ Us(p, p.turn))
  BY DEF GenMoves
<1>2. ASSUME NEW m \in GenMoves(p) PROVE m \in Us(p, p.turn) \X Square /\ MoveIsPseudo(p, m)
  <2> PICK s \in Us(p, p.turn) : m \in {s} \X (Reach(p, s) \ Us(p, p.turn))
    BY <1>1, <1>2
  <2> PICK t \in Reach(p, s) : t \notin Us(p, p.turn) /\ m = <<s, t>>
    OBVIOUS
  <2>1. t \in Square /\ MoveIsPseudo(p, <<s, t>>)
    BY ReachIs
  <2> QED BY <2>1
<1>3. ASSUME NEW m \in Us(p, p.turn) \X Square, MoveIsPseudo(p, m) PROVE m \in GenMoves(p)
  <2> PICK s \in Us(p, p.turn), t \in Square : m = <<s, t>>
    OBVIOUS
  <2>1. t \notin Us(p, p.turn)
    BY <1>3 DEF MoveIsPseudo, To
  <2>2. t \in Reach(p, s)
    BY <1>3, <2>1, ReachIs
  <2> QED BY <1>1, <2>1, <2>2
<1> QED BY <1>2, <1>3

-----------------------------------------------------------------------------

\* A position that can arise: what reading a FEN asks, and what is_legal asks of the
\* kings and the pawns.
Proper(p) == Fit(p) /\ IsLegal(p)

\* In a position that can arise the side that moved is safe.
LEMMA ProperIs ==
  ASSUME NEW p, Proper(p)
  PROVE  /\ ~Exposed(p, Opp(p.turn)) /\ ~KingsFace(p) /\ ~InCheck(p, Opp(p.turn))
         /\ InCheck(p, p.turn) <=> Exposed(p, p.turn)
<1>1. p.turn \in Color /\ Opp(p.turn) \in Color
  BY TurnColors DEF Proper
<1> QED BY <1>1, ExposedIs DEF Proper, IsLegal

\* No king can be taken in a position that can arise.
LEMMA ProperPlayable ==
  ASSUME NEW p, Proper(p), NEW m, To(m) \in Square, MoveIsPseudo(p, m)
  PROVE  Playable(p, m)
BY ProperIs, KingSpared DEF Proper, Playable

\* Whether a position after a move is one the rules allow.
LEMMA AllowedIs ==
  ASSUME NEW p, NEW m, Playable(p, m)
  PROVE  /\ Fit(After(p, m))
         /\ ~Exposed(After(p, m), p.turn) <=> ~InCheck(After(p, m), p.turn) /\ ~KingsFace(After(p, m))
<1>1. Fit(After(p, m))
  BY NextFits DEF Playable
<1>2. p.turn \in Color
  BY PlayableIs
<1> QED BY <1>1, <1>2, ExposedIs

\* The two tests, each where it is used, are the look at the position after the move.
LEMMA TestsExact ==
  ASSUME NEW p, Proper(p), NEW m, To(m) \in Square, MoveIsPseudo(p, m)
  PROVE  (IF InCheck(p, p.turn) THEN PseudoIsLegalIncheck(p, m) ELSE PseudoIsLegal(p, m))
         <=> ~InCheck(After(p, m), p.turn) /\ ~KingsFace(After(p, m))
<1>1. Playable(p, m)
  BY ProperPlayable
<1>2. ~Exposed(After(p, m), p.turn) <=> ~InCheck(After(p, m), p.turn) /\ ~KingsFace(After(p, m))
  BY <1>1, AllowedIs
<1>3. PseudoIsLegalIncheck(p, m) <=> ~Exposed(After(p, m), p.turn)
  BY <1>1, CheckedTest
<1>4. ~InCheck(p, p.turn) => (PseudoIsLegal(p, m) <=> ~Exposed(After(p, m), p.turn))
  <2> HAVE ~InCheck(p, p.turn)
  <2>1. ~Exposed(p, p.turn)
    BY ProperIs
  <2>2. TypeOf(p.board[From(m)]) = TypeAt(p, From(m))
    BY DEF TypeAt
  <2> QED BY <1>1, <2>1, <2>2, KingTest, PieceTest DEF PseudoIsLegal
<1> QED BY <1>2, <1>3, <1>4

\* gen_legals gives the moves of the rules.
LEMMA GenLegalsIs ==
  ASSUME NEW p, Proper(p)
  PROVE  GenLegals(p) = Rules(p)
<1>1. GenMoves(p) = {m \in Us(p, p.turn) \X Square : MoveIsPseudo(p, m)}
  BY GenMovesIs DEF Proper
<1>2. \A m \in Us(p, p.turn) \X Square : To(m) \in Square
  BY DEF To
<1>3. \A m \in GenMoves(p) : m \in Us(p, p.turn) \X Square /\ To(m) \in Square /\ MoveIsPseudo(p, m)
  BY <1>1, <1>2
<1>4. \A m \in GenMoves(p) :
         (IF InCheck(p, p.turn) THEN PseudoIsLegalIncheck(p, m) ELSE PseudoIsLegal(p, m))
         <=> ~InCheck(After(p, m), p.turn) /\ ~KingsFace(After(p, m))
  BY <1>3, TestsExact
<1>5. \A m : m \in GenLegals(p) <=> m \in GenMoves(p) /\ (IF InCheck(p, p.turn) THEN PseudoIsLegalIncheck(p, m) ELSE PseudoIsLegal(p, m))
  BY DEF GenLegals
<1>6. \A m : m \in Rules(p) <=> m \in Us(p, p.turn) \X Square /\ MoveIsPseudo(p, m)
                                /\ ~InCheck(After(p, m), p.turn) /\ ~KingsFace(After(p, m))
  BY DEF Rules
<1>7. \A m : m \in GenLegals(p) <=> m \in Rules(p)
  BY <1>1, <1>4, <1>5, <1>6
<1> QED BY <1>7 DEF GenLegals, Rules

\* The pawns of is_legal.
PawnsApart(p) ==
  \A c \in Color : \A s \in Pieces(p, c, {"p"}) :
    HalfOf(s) = c => {t \in PawnAtt[c][s] : HalfOf(t) = c} \cap Pieces(p, c, {"p"}) = {}

\* Two pawns of one color stand one before the other on their own side of the river.
LEMMA PawnsApartIs ==
  ASSUME NEW p, Fit(p)
  PROVE  PawnsApart(p) <=>
           \A c \in Color : \A s \in Us(p, c) : \A t \in Us(p, c) :
             ~(TypeAt(p, s) = "p" /\ TypeAt(p, t) = "p" /\ HalfOf(s) = c /\ HalfOf(t) = c /\ Off(s, t, 0, Forward(c)))
<1>1. \A c, s : s \in Pieces(p, c, {"p"}) <=> s \in Us(p, c) /\ TypeAt(p, s) = "p"
  BY FitTypes
<1>2. \A c : Us(p, c) \subseteq Square
  BY FitTypes
<1>3. ASSUME NEW c \in Color, NEW s \in Us(p, c), HalfOf(s) = c, NEW t
      PROVE  t \in PawnAtt[c][s] <=> t \in Square /\ Off(s, t, 0, Forward(c))
  <2>1. s \in Square
    BY <1>2
  <2> QED BY <1>3, <2>1, PawnIs
<1>4. PawnsApart(p) <=> \A c \in Color : \A s \in Us(p, c) : \A t \in Us(p, c) :
        ~(TypeAt(p, s) = "p" /\ HalfOf(s) = c /\ t \in PawnAtt[c][s] /\ HalfOf(t) = c /\ TypeAt(p, t) = "p")
  <2>1. PawnsApart(p) <=> \A c \in Color : \A s : \A t :
          ~(s \in Pieces(p, c, {"p"}) /\ HalfOf(s) = c /\ t \in PawnAtt[c][s] /\ HalfOf(t) = c /\ t \in Pieces(p, c, {"p"}))
    BY DEF PawnsApart
  <2> QED BY <1>1, <2>1
<1> QED BY <1>2, <1>3, <1>4

\* No move puts a pawn before another on their own side of the river.
LEMMA PawnsStayApart ==
  ASSUME NEW p, NEW m, Playable(p, m), PawnsApart(p)
  PROVE  PawnsApart(After(p, m))
<1> DEFINE q == After(p, m)
           me == p.turn
           f == From(m)
           x == To(m)
           bad(r, c, s, t) == TypeAt(r, s) = "p" /\ TypeAt(r, t) = "p" /\ HalfOf(s) = c /\ HalfOf(t) = c
                              /\ Off(s, t, 0, Forward(c))
<1>1. /\ me \in Color /\ Opp(me) \in Color /\ f \in Us(p, me) /\ f \in Square /\ x \in Square /\ f # x /\ x \notin Us(p, me)
      /\ Fit(p)
  BY PlayableIs DEF Playable
<1>2. Fit(q)
  BY AllowedIs
<1>3. \A c \in Color : \A s \in Us(p, c) : \A t \in Us(p, c) : ~bad(p, c, s, t)
  BY <1>1, PawnsApartIs
<1>4. /\ Us(q, me) = (Us(p, me) \ {f}) \cup {x} /\ Us(q, Opp(me)) = Us(p, Opp(me)) \ {x}
      /\ TypeAt(q, x) = TypeAt(p, f)
      /\ \A s \in Occ(p) \ {f, x} : TypeAt(q, s) = TypeAt(p, s)
  BY <1>1, UsAfter
<1>5. \A c : Us(p, c) \subseteq Occ(p) /\ Us(p, c) \subseteq Square
  BY <1>1, FitTypes
<1>6. Us(p, me) \cap Us(p, Opp(me)) = {} /\ \A c \in Color : c = me \/ c = Opp(me)
  BY <1>1, FitTypes, ColorsAre DEF Color
<1>7. ASSUME NEW c \in Color, NEW s \in Us(q, c), NEW t \in Us(q, c), bad(q, c, s, t) PROVE FALSE
  <2>1. CASE s # x /\ t # x
    <3>1. s \in Us(p, c) /\ t \in Us(p, c) /\ s \notin {f, x} /\ t \notin {f, x}
      <4>1. CASE c = me
        BY <1>4, <1>7, <2>1, <4>1
      <4>2. CASE c = Opp(me)
        BY <1>1, <1>4, <1>6, <1>7, <2>1, <4>2
      <4> QED BY <1>6, <4>1, <4>2
    <3>2. TypeAt(q, s) = TypeAt(p, s) /\ TypeAt(q, t) = TypeAt(p, t)
      BY <1>4, <1>5, <3>1
    <3> QED BY <1>3, <1>7, <3>1, <3>2
  <2>2. CASE s = x \/ t = x
    <3>1. c = me /\ TypeAt(p, f) = "p"
      BY <1>4, <1>6, <1>7, <2>2
    <3>2. x \in PawnAtt[me][f] /\ f \in PawnPos(me)
      BY <1>1, <3>1, PseudoIs, PlaceOf DEF Playable
    <3>3. Off(f, x, 0, Forward(me)) \/ (HalfOf(f) # me /\ (Off(f, x, 1, 0) \/ Off(f, x, -1, 0)))
      BY <1>1, <3>2, PawnIs
    <3>4. HalfOf(f) # me \/ (IF me = White THEN RankOf(f) \in {3, 4} ELSE RankOf(f) \in {5, 6})
      BY <1>1, <3>2, PawnPlace
    <3>5. s \in Square /\ t \in Square /\ HalfOf(s) = me /\ HalfOf(t) = me /\ Off(s, t, 0, Forward(me)) /\ HalfOf(x) = me
          /\ TypeAt(q, s) = "p"
      <4>1. Us(q, me) \subseteq Square
        BY <1>2, FitTypes
      <4> QED BY <1>7, <2>2, <3>1, <4>1
    <3>6. /\ FileOf(f) \in Int /\ RankOf(f) \in Int /\ FileOf(x) \in Int /\ RankOf(x) \in Int
          /\ FileOf(s) \in Int /\ RankOf(s) \in Int /\ FileOf(t) \in Int /\ RankOf(t) \in Int
      BY <1>1, <3>5, Coordinates
    <3>7. /\ HalfOf(f) = IF RankOf(f) <= 4 THEN White ELSE Black
          /\ HalfOf(x) = IF RankOf(x) <= 4 THEN White ELSE Black
          /\ HalfOf(s) = IF RankOf(s) <= 4 THEN White ELSE Black
          /\ HalfOf(t) = IF RankOf(t) <= 4 THEN White ELSE Black
      BY <1>1, <3>5, HalfIs
    <3>8. me = White \/ me = Black
      BY <1>1 DEF Color
    <3>9. Forward(White) = 1 /\ Forward(Black) = -1 /\ White # Black
      BY ColorsAre DEF Forward
    <3> HIDE DEF q, me, f, x
    <3>10. CASE s = x
      <4>1. CASE me = White
        <5>1. RankOf(x) <= 4 /\ RankOf(t) = RankOf(x) + 1 /\ RankOf(t) <= 4
          BY <3>5, <3>7, <3>9, <3>10, <4>1 DEF Off
        <5>2. RankOf(f) = 3 \/ RankOf(f) = 4 \/ RankOf(f) > 4
          BY <3>4, <3>6, <3>7, <3>9, <4>1
        <5>3. RankOf(x) = RankOf(f) + 1 \/ (RankOf(x) = RankOf(f) /\ HalfOf(f) # me)
          BY <3>3, <3>6, <3>9, <4>1 DEF Off
        <5> QED BY <3>6, <3>7, <4>1, <5>1, <5>2, <5>3
      <4>2. CASE me = Black
        <5>1. RankOf(x) > 4 /\ RankOf(t) = RankOf(x) - 1 /\ RankOf(t) > 4
          <6>1. RankOf(t) = RankOf(s) + Forward(Black)
            BY <3>5, <4>2 DEF Off
          <6>2. ~(RankOf(x) <= 4) /\ ~(RankOf(t) <= 4)
            BY <3>5, <3>7, <3>9, <4>2
          <6> QED BY <3>6, <3>9, <3>10, <6>1, <6>2
        <5>2. RankOf(f) = 5 \/ RankOf(f) = 6 \/ RankOf(f) <= 4
          BY <3>4, <3>6, <3>7, <3>9, <4>2
        <5>3. RankOf(x) = RankOf(f) - 1 \/ (RankOf(x) = RankOf(f) /\ HalfOf(f) # me)
          BY <3>3, <3>6, <3>9, <4>2 DEF Off
        <5> QED BY <3>6, <3>7, <3>9, <4>2, <5>1, <5>2, <5>3
      <4> QED BY <3>8, <4>1, <4>2
    <3>11. CASE t = x
      <4>0. s \in Us(p, me) /\ s # f
        <5>1. s # t
          BY <3>5, <3>6, <3>8, <3>9 DEF Off
        <5> QED BY <1>4, <1>7, <3>1, <3>11, <5>1
      <4>1. s \in PawnPos(me)
        <5>1. s \notin {f, x} /\ s \in Occ(p)
          BY <1>1, <1>5, <4>0
        <5>2. TypeAt(p, s) = "p"
          BY <1>4, <3>5, <5>1
        <5> QED BY <1>1, <4>0, <5>2, PlaceOf
      <4>2. HalfOf(s) # me \/ (IF me = White THEN RankOf(s) \in {3, 4} ELSE RankOf(s) \in {5, 6})
        BY <1>1, <4>1, PawnPlace
      <4>3. HalfOf(f) = me
        <5>1. CASE me = White
          BY <3>3, <3>5, <3>6, <3>7, <3>9, <5>1 DEF Off
        <5>2. CASE me = Black
          BY <3>3, <3>5, <3>6, <3>7, <3>9, <5>2 DEF Off
        <5> QED BY <3>8, <5>1, <5>2
      <4>4. Off(f, x, 0, Forward(me))
        BY <3>3, <4>3
      <4>5. FileOf(f) = FileOf(s) /\ RankOf(f) = RankOf(s)
        <5>1. CASE me = White
          BY <3>5, <3>6, <3>9, <3>11, <4>4, <5>1 DEF Off
        <5>2. CASE me = Black
          BY <3>5, <3>6, <3>9, <3>11, <4>4, <5>2 DEF Off
        <5> QED BY <3>8, <5>1, <5>2
      <4>6. f = s
        BY <1>1, <3>5, <4>5, SameSquare
      <4> QED BY <4>0, <4>6
    <3> QED BY <2>2, <3>10, <3>11
  <2> QED BY <2>1, <2>2
<1> QED BY <1>2, <1>7, PawnsApartIs

\* A position that can arise is followed by one.
LEMMA NextProper ==
  ASSUME NEW p, Proper(p), NEW m, To(m) \in Square, MoveIsPseudo(p, m),
         IF InCheck(p, p.turn) THEN PseudoIsLegalIncheck(p, m) ELSE PseudoIsLegal(p, m)
  PROVE  Proper(After(p, m)) /\ Playable(p, m)
<1>1. Playable(p, m)
  BY ProperPlayable
<1>2. ~InCheck(After(p, m), p.turn) /\ ~KingsFace(After(p, m))
  BY TestsExact
<1>3. Fit(After(p, m))
  BY <1>1, AllowedIs
<1>4. PawnsApart(After(p, m))
  BY <1>1, PawnsStayApart DEF Proper, IsLegal, PawnsApart
<1>5. Opp(After(p, m).turn) = p.turn
  BY <1>1, PlayableIs DEF After
<1> QED BY <1>1, <1>2, <1>3, <1>4, <1>5 DEF Proper, IsLegal, PawnsApart

-----------------------------------------------------------------------------
(* What gives check *)

\* The kings face each other, from either.
LEMMA FacingIs ==
  ASSUME NEW p, Fit(p), NEW c \in Color
  PROVE  KingsFace(p) <=> SameFile(KingSq(p, Opp(c)), KingSq(p, c)) /\ Clear(KingSq(p, Opp(c)), KingSq(p, c), Occ(p))
<1> DEFINE k == KingSq(p, c)
           K == KingSq(p, Opp(c))
<1>0. Opp(c) \in Color
  BY ColorsAre
<1>1. k \in Square /\ K \in Square
  BY <1>0, KingStands
<1>2. KingsFace(p) <=> \/ SameFile(K, k) /\ Between(K, k) \cap Occ(p) = {} /\ c = Black
                       \/ SameFile(k, K) /\ Between(k, K) \cap Occ(p) = {} /\ c = White
  <2>1. c \in {White, Black} /\ White # Black /\ Opp(c) = IF c = White THEN Black ELSE White
    BY ColorsAre
  <2>2. CASE c = White
    BY <2>1, <2>2 DEF KingsFace
  <2>3. CASE c = Black
    BY <2>1, <2>3 DEF KingsFace
  <2> QED BY <2>1, <2>2, <2>3
<1>3. c = White \/ c = Black
  BY DEF Color
<1> HIDE DEF k, K
<1>4. SameFile(K, k) <=> SameFile(k, K)
  BY DEF SameFile
<1>5. SameFile(k, K) => /\ Between(K, k) \cap Occ(p) = {} <=> Clear(K, k, Occ(p))
                        /\ Between(k, K) \cap Occ(p) = {} <=> Clear(K, k, Occ(p))
  BY <1>1, <1>4, CountIs, ClearSym DEF OnLine
<1> QED BY <1>2, <1>3, <1>4, <1>5 DEF k, K

\* A king is in check by what aims at it, another king apart.
LEMMA CheckIs ==
  ASSUME NEW p, Fit(p), NEW c \in Color
  PROVE  InCheck(p, c) <=> \E a \in Us(p, Opp(c)) :
           TypeAt(p, a) # "k" /\ Aims(TypeAt(p, a), Opp(c), a, KingSq(p, c), Occ(p))
<1> DEFINE k == KingSq(p, c)
           opp == Opp(c)
           us == Us(p, opp)
           of(type) == Pieces(p, opp, {type})
           occ == Occ(p)
           hits(type, a) == Aims(type, opp, a, k, occ)
<1>1. k \in Square /\ opp \in Color /\ us \subseteq Square
  BY ColorsAre, KingStands, FitTypes
<1>2. \A type, a : a \in of(type) <=> a \in us /\ TypeAt(p, a) = type
  BY FitTypes
<1>3. InCheck(p, c) <=> \/ RookAtt(k, occ) \cap of("r") # {} \/ CannonAtt(k, occ) \cap of("c") # {}
                        \/ KnightAttd(k, occ) \cap of("n") # {} \/ PawnAttd[opp][k] \cap of("p") # {}
  BY DEF InCheck
<1>4. ASSUME NEW a \in us
      PROVE  /\ hits("r", a) <=> a \in RookAtt(k, occ)
             /\ hits("c", a) <=> a \in CannonAtt(k, occ)
             /\ hits("n", a) <=> a \in KnightAttd(k, occ)
             /\ hits("p", a) <=> a \in PawnAttd[opp][k]
  <2>1. a \in Square
    BY <1>1, <1>4
  <2> HIDE DEF k, opp, us, occ
  <2> QED BY <1>1, <2>1, AimsOther
<1>5. ASSUME NEW a \in us, TypeAt(p, a) # "k", hits(TypeAt(p, a), a) PROVE TypeAt(p, a) \in {"r", "c", "n", "p"}
  BY <1>5 DEF Aims
<1> HIDE DEF k, opp, us, of, occ, hits
<1>6. InCheck(p, c) <=> \E a \in us : TypeAt(p, a) \in {"r", "c", "n", "p"} /\ hits(TypeAt(p, a), a)
  <2>1. RookAtt(k, occ) \cap of("r") # {} <=> \E a \in us : TypeAt(p, a) = "r" /\ hits("r", a)
    BY <1>2, <1>4
  <2>2. CannonAtt(k, occ) \cap of("c") # {} <=> \E a \in us : TypeAt(p, a) = "c" /\ hits("c", a)
    BY <1>2, <1>4
  <2>3. KnightAttd(k, occ) \cap of("n") # {} <=> \E a \in us : TypeAt(p, a) = "n" /\ hits("n", a)
    BY <1>2, <1>4
  <2>4. PawnAttd[opp][k] \cap of("p") # {} <=> \E a \in us : TypeAt(p, a) = "p" /\ hits("p", a)
    BY <1>2, <1>4
  <2> QED BY <1>3, <2>1, <2>2, <2>3, <2>4
<1>7. InCheck(p, c) <=> \E a \in us : TypeAt(p, a) # "k" /\ hits(TypeAt(p, a), a)
  BY <1>5, <1>6
<1> QED BY <1>7 DEF us, hits, opp, k, occ

\* The first of two on the way to a screened piece sees what is before the screen.
LEMMA Nearer ==
  ASSUME NEW k \in Square, NEW a \in Square, NEW t \in Square, NEW occ, t \in occ,
         Single(k, a, occ), Amid(k, t, a)
  PROVE  Clear(k, t, occ)
<1>1. PICK v \in occ \cap Square : \A u \in occ \cap Square : Amid(k, u, a) => u = v
  BY DEF Single
<1> SUFFICES ASSUME NEW u \in occ \cap Square, Amid(k, u, t) PROVE FALSE
  BY DEF Clear
<1>2. FileOf(k) \in Int /\ RankOf(k) \in Int /\ FileOf(u) \in Int /\ RankOf(u) \in Int
      /\ FileOf(a) \in Int /\ RankOf(a) \in Int /\ FileOf(t) \in Int /\ RankOf(t) \in Int
  BY Coordinates
<1>3. Amid(k, u, a) /\ u # t
  BY <1>2 DEF Amid, Mid, SameFile, SameRank
<1> QED BY <1>1, <1>3

\* A piece that slides to a free square sees its line as before.
LEMMA Sliding ==
  ASSUME NEW f \in Square, NEW t \in Square, NEW k \in Square, f # t, f # k, t # k, NEW line \in Sides,
         OnSame(line, k, f), OnSame(line, k, t), NEW occ, f \in occ, t \notin occ, k \in occ, Clear(f, t, occ)
  PROVE  LET after == (occ \ {f}) \cup {t}
         IN (Clear(k, t, after) <=> Clear(k, f, occ)) /\ (Single(k, t, after) <=> Single(k, f, occ))
<1> DEFINE after == (occ \ {f}) \cup {t}
<1>1. (SameRank(k, f) /\ SameRank(k, t)) \/ (SameFile(k, f) /\ SameFile(k, t))
  BY SidesAre
<1>2. ~Amid(f, k, t)
  BY DEF Clear
<1>3. ASSUME NEW u \in occ \cap Square, u # f PROVE Amid(k, u, t) <=> Amid(k, u, f)
  <2>1. FileOf(k) \in Int /\ RankOf(k) \in Int /\ FileOf(u) \in Int /\ RankOf(u) \in Int
        /\ FileOf(f) \in Int /\ RankOf(f) \in Int /\ FileOf(t) \in Int /\ RankOf(t) \in Int
    BY <1>3, Coordinates
  <2>2. ~Amid(f, u, t)
    BY <1>3 DEF Clear
  <2>3. ~(SameFile(k, f) /\ SameRank(k, f)) /\ ~(SameFile(k, t) /\ SameRank(k, t)) /\ ~(SameFile(f, t) /\ SameRank(f, t))
        /\ ~(SameFile(u, f) /\ SameRank(u, f))
    BY <1>3, OneLine
  <2>4. ~(SameFile(u, t) /\ SameRank(u, t))
    BY <1>3, OneLine
  <2> QED BY <1>1, <1>2, <2>1, <2>2, <2>3, <2>4 DEF Amid, Mid, SameFile, SameRank
<1>4. ~Amid(k, f, f) /\ ~Amid(k, t, t)
  <2>1. FileOf(f) \in Int /\ RankOf(f) \in Int /\ FileOf(t) \in Int /\ RankOf(t) \in Int
        /\ FileOf(k) \in Int /\ RankOf(k) \in Int
    BY Coordinates
  <2> QED BY <2>1 DEF Amid, Mid, SameFile, SameRank
<1>5. \A u : u \in after \cap Square /\ Amid(k, u, t) <=> u \in occ \cap Square /\ Amid(k, u, f)
  BY <1>3, <1>4
<1> HIDE DEF after
<1>6. Clear(k, t, after) <=> Clear(k, f, occ)
  BY <1>5 DEF Clear
<1>7. Single(k, t, after) <=> Single(k, f, occ)
  BY <1>5 DEF Single
<1> QED BY <1>6, <1>7 DEF after

\* The position after a move, from the side that made it.
LEMMA AfterIs ==
  ASSUME NEW p, NEW m, Playable(p, m)
  PROVE  LET q == After(p, m)
             me == p.turn
         IN /\ Fit(q) /\ Occ(q) = OccAfter(p, m) /\ Occ(q) \subseteq Square
            /\ Us(q, me) = (Us(p, me) \ {From(m)}) \cup {To(m)} /\ Us(q, me) \subseteq Occ(q)
            /\ TypeAt(q, To(m)) = TypeAt(p, From(m))
            /\ \A a \in Us(p, me) \ {From(m)} : TypeAt(q, a) = TypeAt(p, a) /\ a # To(m) /\ a \in Square /\ a \in Occ(p)
            /\ KingSq(q, Opp(me)) = KingSq(p, Opp(me))
            /\ KingSq(q, me) = Guarded(p, m)
            /\ \A types, a : a \in Pieces(q, me, types) <=> a \in Us(q, me) /\ TypeAt(q, a) \in types
<1> DEFINE q == After(p, m)
           me == p.turn
<1>1. /\ me \in Color /\ Fit(p) /\ From(m) \in Us(p, me) /\ To(m) \in Square /\ To(m) \notin Us(p, me)
      /\ To(m) # KingSq(p, Opp(me)) /\ MoveIsPseudo(p, m)
  BY PlayableIs DEF Playable
<1>2. Fit(q)
  BY AllowedIs
<1>3. /\ Occ(q) = OccAfter(p, m) /\ Us(q, me) = (Us(p, me) \ {From(m)}) \cup {To(m)}
      /\ TypeAt(q, To(m)) = TypeAt(p, From(m))
      /\ \A s \in Occ(p) \ {From(m), To(m)} : TypeAt(q, s) = TypeAt(p, s)
  BY <1>1, UsAfter DEF OccAfter
<1>4. Us(p, me) \subseteq Occ(p) /\ Occ(p) \subseteq Square
  BY <1>1, FitTypes
<1>5. Us(q, me) \subseteq Occ(q) /\ Occ(q) \subseteq Square
      /\ \A types, a : a \in Pieces(q, me, types) <=> a \in Us(q, me) /\ TypeAt(q, a) \in types
  BY <1>2, FitTypes
<1>6. KingSq(q, Opp(me)) = KingSq(p, Opp(me)) /\ KingSq(q, me) = Guarded(p, m)
  BY <1>1, ExposedAfter
<1> HIDE DEF q
<1>7. \A a \in Us(p, me) \ {From(m)} : TypeAt(q, a) = TypeAt(p, a) /\ a # To(m) /\ a \in Square /\ a \in Occ(p)
  BY <1>1, <1>3, <1>4
<1> QED BY <1>2, <1>3, <1>5, <1>6, <1>7 DEF q

\* What attacks the other king after a move that is not the piece moved has been let
\* by the square it left or the one it went to.
Opened(p, m, a) ==
  LET f == From(m)
      t == To(m)
      K == KingSq(p, Opp(p.turn))
      F == Amid(K, f, a)
      T == Amid(K, t, a)
      along(line) == OnSame(line, f, t)
  IN \/ /\ TypeAt(p, a) = "r"
        /\ \E line \in Sides : /\ Along(line, K, a) /\ Clear(K, a, OccAfter(p, m)) /\ Clear(K, a, Occ(p) \ {f})
                               /\ F /\ (~along(line) \/ (t \in Occ(p) /\ TypeAt(p, f) = "c"))
     \/ /\ TypeAt(p, a) = "c"
        /\ \E line \in Sides : /\ Along(line, K, a) /\ Single(K, a, OccAfter(p, m))
                               /\ \/ F /\ Single(K, a, Occ(p) \ {f}) /\ (~along(line) \/ t \in Occ(p))
                                  \/ t \notin Occ(p) /\ OnSame(line, t, K) /\ ~along(line) /\ (F \/ T)
     \/ TypeAt(p, a) = "n" /\ a \in KnightAttNoMask[K] /\ LegalLeg(a, K) = f /\ LegalLeg(a, K) \notin OccAfter(p, m)

\* A piece that attacks the king now, and did not, has been let.
LEMMA OpenedIs ==
  ASSUME NEW p, NEW m, Playable(p, m), ~Exposed(p, Opp(p.turn)), NEW a \in Us(p, p.turn) \ {From(m)},
         TypeAt(p, a) # "k", Aims(TypeAt(p, a), p.turn, a, KingSq(p, Opp(p.turn)), OccAfter(p, m))
  PROVE  Opened(p, m, a)
<1> DEFINE f == From(m)
           t == To(m)
           me == p.turn
           K == KingSq(p, Opp(me))
           type == TypeAt(p, a)
           occ == Occ(p)
           after == OccAfter(p, m)
           block == occ \ {f}
           wide == occ \cup {t}
           F == Amid(K, f, a)
           T == Amid(K, t, a)
<1>1. /\ f \in Square /\ t \in Square /\ K \in Square /\ a \in Square /\ f # t /\ f # K /\ t # K /\ f # a /\ t # a
      /\ K \in occ /\ a \in occ /\ me \in Color /\ Opp(Opp(me)) = me /\ f \in occ /\ K # a
  <2>1. /\ f \in Square /\ t \in Square /\ f # t /\ f \in occ /\ t # K /\ me \in Color /\ Opp(Opp(me)) = me
        /\ K \in Square /\ K \in Us(p, Opp(me)) /\ Us(p, Opp(me)) \subseteq occ /\ f \notin Us(p, Opp(me))
    BY PlayableIs
  <2>2. a \in Square /\ t # a /\ a \in occ
    BY AfterIs
  <2>3. Us(p, me) \cap Us(p, Opp(me)) = {}
    BY <2>1, FitTypes DEF Playable
  <2>4. a \in Us(p, me) /\ a # f
    OBVIOUS
  <2> HIDE DEF f, t, me, K, occ
  <2> QED BY <2>1, <2>2, <2>3, <2>4
<1>2. ~Aims(type, me, a, K, occ)
  <2>1. Exposed(p, Opp(me)) <=> \E b \in Us(p, Opp(Opp(me))) : Aims(TypeAt(p, b), Opp(Opp(me)), b, K, occ)
    BY DEF Exposed
  <2>2. a \in Us(p, me) /\ ~Exposed(p, Opp(me))
    OBVIOUS
  <2> HIDE DEF me, K, occ
  <2> QED BY <1>1, <2>1, <2>2
<1>3. after = (occ \ {f}) \cup {t}
  BY DEF OccAfter
<1>4. ASSUME NEW line \in Sides, Along(line, K, a)
      PROVE  /\ ~Clear(K, a, occ) =>
                 (Clear(K, a, after) <=>
                    F /\ Clear(K, a, block) /\ (~OnSame(line, f, t) \/ (t \in occ /\ TypeAt(p, f) = "c")))
             /\ ~Single(K, a, occ) =>
                 (Single(K, a, after) <=>
                    \/ F /\ Single(K, a, block) /\ (~OnSame(line, f, t) \/ t \in occ)
                    \/ /\ t \notin occ /\ OnSame(line, t, K) /\ Single(K, a, wide)
                       /\ IF OnSame(line, f, t) THEN F /\ ~T ELSE F \/ T)
             /\ OnSame(line, f, t) /\ OnSame(line, t, K) /\ ~(F <=> T) => t \in occ /\ TypeAt(p, f) = "c"
  <2> HIDE DEF K
  <2> QED BY <1>1, <1>4, LineFound
<1>5. Sight(K, a) => \E line \in Sides : Along(line, K, a)
  <2>1. Sight(K, a) => Along(RankSteps, K, a) \/ Along(FileSteps, K, a)
    BY SidesAre DEF Sight, OnLine, Along
  <2> QED BY <2>1, SidesAre
<1>6. /\ type = "r" /\ Sight(K, a) => ~Clear(K, a, occ)
      /\ type = "c" /\ Sight(K, a) => ~Single(K, a, occ)
      /\ type = "n" /\ a \in KnightAttNoMask[K] => LegalLeg(a, K) \in occ
      /\ type = "p" => a \notin PawnAttd[me][K]
  BY <1>2 DEF Aims
<1>7. \/ type = "r" /\ Sight(K, a) /\ Clear(K, a, after)
      \/ type = "c" /\ Sight(K, a) /\ Single(K, a, after)
      \/ type = "n" /\ a \in KnightAttNoMask[K] /\ LegalLeg(a, K) \notin after
      \/ type = "p" /\ a \in PawnAttd[me][K]
  BY DEF Aims
<1>8. Opened(p, m, a) <=>
        \/ /\ type = "r"
           /\ \E line \in Sides : /\ Along(line, K, a) /\ Clear(K, a, after) /\ Clear(K, a, block)
                                  /\ F /\ (~OnSame(line, f, t) \/ (t \in occ /\ TypeAt(p, f) = "c"))
        \/ /\ type = "c"
           /\ \E line \in Sides : /\ Along(line, K, a) /\ Single(K, a, after)
                                  /\ \/ F /\ Single(K, a, block) /\ (~OnSame(line, f, t) \/ t \in occ)
                                     \/ t \notin occ /\ OnSame(line, t, K) /\ ~OnSame(line, f, t) /\ (F \/ T)
        \/ type = "n" /\ a \in KnightAttNoMask[K] /\ LegalLeg(a, K) = f /\ LegalLeg(a, K) \notin after
  BY DEF Opened
<1> HIDE DEF f, t, me, K, type, occ, after, block, wide, F, T
<1>9. CASE type = "r"
  <2> PICK line \in Sides : Along(line, K, a)
    BY <1>5, <1>7, <1>9
  <2> QED BY <1>4, <1>6, <1>7, <1>8, <1>9
<1>10. CASE type = "c"
  <2> PICK line \in Sides : Along(line, K, a)
    BY <1>5, <1>7, <1>10
  <2>1. Single(K, a, after) /\ ~Single(K, a, occ)
    BY <1>6, <1>7, <1>10
  <2>2. \/ F /\ Single(K, a, block) /\ (~OnSame(line, f, t) \/ t \in occ)
        \/ /\ t \notin occ /\ OnSame(line, t, K) /\ IF OnSame(line, f, t) THEN F /\ ~T ELSE F \/ T
    BY <1>4, <2>1
  <2>3. t \notin occ /\ OnSame(line, t, K) /\ OnSame(line, f, t) => ~(F /\ ~T)
    BY <1>4
  <2> QED BY <1>8, <1>10, <2>1, <2>2, <2>3
<1>11. CASE type = "n"
  <2>1. a \in KnightAttNoMask[K] /\ LegalLeg(a, K) \notin after /\ LegalLeg(a, K) \in occ
    BY <1>6, <1>7, <1>11
  <2>2. LegalLeg(a, K) = f
    BY <1>3, <2>1
  <2> QED BY <1>8, <1>11, <2>1, <2>2
<1> QED BY <1>6, <1>7, <1>9, <1>10, <1>11

-----------------------------------------------------------------------------

\* The parts of the test.
RookChecks(p, m, line) ==
  \E a \in Us(After(p, m), p.turn) :
    TypeAt(After(p, m), a) = "r" /\ Along(line, KingSq(p, Opp(p.turn)), a)
    /\ Clear(KingSq(p, Opp(p.turn)), a, OccAfter(p, m))
CannonChecks(p, m, line) ==
  \E a \in Us(After(p, m), p.turn) :
    TypeAt(After(p, m), a) = "c" /\ Along(line, KingSq(p, Opp(p.turn)), a)
    /\ Single(KingSq(p, Opp(p.turn)), a, OccAfter(p, m))
PawnChecks(p, m) ==
  \E a \in Us(After(p, m), p.turn) :
    TypeAt(After(p, m), a) = "p" /\ a \in PawnAttd[p.turn][KingSq(p, Opp(p.turn))]
KnightChecks(p, m) ==
  \E a \in Us(After(p, m), p.turn) :
    TypeAt(After(p, m), a) = "n" /\ a \in KnightAttd(KingSq(p, Opp(p.turn)), OccAfter(p, m))

\* The sets gives_check intersects are empty unless a part of the test holds.
LEMMA PartsAre ==
  ASSUME NEW p, NEW m, Playable(p, m)
  PROVE  LET q == After(p, m)
             K == KingSq(p, Opp(p.turn))
         IN /\ \A line \in Sides :
                 /\ RookLine(K, line, Occ(q)) \cap Pieces(q, p.turn, {"r"}) # {} <=> RookChecks(p, m, line)
                 /\ CannonLine(K, line, Occ(q)) \cap Pieces(q, p.turn, {"c"}) # {} <=> CannonChecks(p, m, line)
            /\ PawnAttd[p.turn][K] \cap Pieces(q, p.turn, {"p"}) # {} <=> PawnChecks(p, m)
            /\ KnightAttd(K, Occ(q)) \cap Pieces(q, p.turn, {"n"}) # {} <=> KnightChecks(p, m)
            /\ OnLine(To(m), K) => /\ Screens(q, To(m), K) = 0 <=> Clear(K, To(m), OccAfter(p, m))
                                   /\ Screens(q, To(m), K) = 1 <=> Single(K, To(m), OccAfter(p, m))
<1> DEFINE q == After(p, m)
           K == KingSq(p, Opp(p.turn))
           us == Us(q, p.turn)
<1>1. Occ(q) = OccAfter(p, m) /\ us \subseteq Square /\ K \in Square /\ To(m) \in Square
  BY AfterIs, PlayableIs
<1>2. \A types, a : a \in Pieces(q, p.turn, types) <=> a \in us /\ TypeAt(q, a) \in types
  BY AfterIs
<1>3. ASSUME NEW line \in Sides, NEW a \in us
      PROVE  /\ a \in RookLine(K, line, Occ(q)) <=> Along(line, K, a) /\ Clear(K, a, OccAfter(p, m))
             /\ a \in CannonLine(K, line, Occ(q)) <=> Along(line, K, a) /\ Single(K, a, OccAfter(p, m))
  <2>1. a \in Square
    BY <1>1, <1>3
  <2> HIDE DEF q, K, us
  <2> QED BY <1>1, <2>1, LineSees
<1>4. OnLine(To(m), K) => /\ Screens(q, To(m), K) = 0 <=> Clear(K, To(m), OccAfter(p, m))
                          /\ Screens(q, To(m), K) = 1 <=> Single(K, To(m), OccAfter(p, m))
  <2> HIDE DEF q, K
  <2> QED BY <1>1, CountIs, ClearSym DEF Screens
<1>5. ASSUME NEW line \in Sides
      PROVE  /\ RookLine(K, line, Occ(q)) \cap Pieces(q, p.turn, {"r"}) # {} <=> RookChecks(p, m, line)
             /\ CannonLine(K, line, Occ(q)) \cap Pieces(q, p.turn, {"c"}) # {} <=> CannonChecks(p, m, line)
  <2> DEFINE R == RookLine(K, line, Occ(q))
             C == CannonLine(K, line, Occ(q))
  <2>1. RookChecks(p, m, line) <=> \E a \in us : TypeAt(q, a) = "r" /\ Along(line, K, a) /\ Clear(K, a, OccAfter(p, m))
    BY DEF RookChecks
  <2>2. CannonChecks(p, m, line) <=> \E a \in us : TypeAt(q, a) = "c" /\ Along(line, K, a) /\ Single(K, a, OccAfter(p, m))
    BY DEF CannonChecks
  <2>3. \A a \in us : /\ a \in R <=> Along(line, K, a) /\ Clear(K, a, OccAfter(p, m))
                      /\ a \in C <=> Along(line, K, a) /\ Single(K, a, OccAfter(p, m))
    BY <1>3
  <2> HIDE DEF q, K, us, R, C
  <2>4. R \cap Pieces(q, p.turn, {"r"}) # {} <=> RookChecks(p, m, line)
    BY <1>2, <2>1, <2>3
  <2>5. C \cap Pieces(q, p.turn, {"c"}) # {} <=> CannonChecks(p, m, line)
    BY <1>2, <2>2, <2>3
  <2> QED BY <2>4, <2>5 DEF R, C
<1>6. PawnAttd[p.turn][K] \cap Pieces(q, p.turn, {"p"}) # {} <=> PawnChecks(p, m)
  <2>1. PawnChecks(p, m) <=> \E a \in us : TypeAt(q, a) = "p" /\ a \in PawnAttd[p.turn][K]
    BY DEF PawnChecks
  <2> HIDE DEF q, K, us
  <2> QED BY <1>2, <2>1
<1>7. KnightAttd(K, Occ(q)) \cap Pieces(q, p.turn, {"n"}) # {} <=> KnightChecks(p, m)
  <2>1. KnightChecks(p, m) <=> \E a \in us : TypeAt(q, a) = "n" /\ a \in KnightAttd(K, Occ(q))
    BY <1>1 DEF KnightChecks
  <2> HIDE DEF q, K, us
  <2> QED BY <1>2, <2>1
<1> QED BY <1>4, <1>5, <1>6, <1>7

\* The other king is in check after the move by one of the parts.
LEMMA CheckParts ==
  ASSUME NEW p, NEW m, Playable(p, m)
  PROVE  InCheck(After(p, m), Opp(p.turn)) <=>
           (\E line \in Sides : RookChecks(p, m, line) \/ CannonChecks(p, m, line)) \/ PawnChecks(p, m) \/ KnightChecks(p, m)
<1> DEFINE q == After(p, m)
           K == KingSq(p, Opp(p.turn))
           me == p.turn
           after == OccAfter(p, m)
<1>1. /\ Fit(q) /\ me \in Color /\ Opp(me) \in Color /\ Opp(Opp(me)) = me /\ Occ(q) = after
      /\ KingSq(q, Opp(me)) = K /\ Us(q, me) \subseteq Square /\ K \in Square
  BY AfterIs, PlayableIs
<1>2. InCheck(q, Opp(me)) <=> \E a \in Us(q, me) : TypeAt(q, a) # "k" /\ Aims(TypeAt(q, a), me, a, K, after)
  BY <1>1, CheckIs
<1>3. /\ \A line : RookChecks(p, m, line) <=> \E a \in Us(q, me) : TypeAt(q, a) = "r" /\ Along(line, K, a) /\ Clear(K, a, after)
      /\ \A line : CannonChecks(p, m, line) <=> \E a \in Us(q, me) : TypeAt(q, a) = "c" /\ Along(line, K, a) /\ Single(K, a, after)
      /\ PawnChecks(p, m) <=> \E a \in Us(q, me) : TypeAt(q, a) = "p" /\ a \in PawnAttd[me][K]
      /\ KnightChecks(p, m) <=> \E a \in Us(q, me) : TypeAt(q, a) = "n" /\ a \in KnightAttd(K, after)
  BY DEF RookChecks, CannonChecks, PawnChecks, KnightChecks
<1>4. ASSUME NEW a \in Us(q, me)
      PROVE  Sight(K, a) <=> \E line \in Sides : Along(line, K, a)
  <2>1. Sight(K, a) <=> Along(RankSteps, K, a) \/ Along(FileSteps, K, a)
    BY SidesAre DEF Sight, OnLine, Along
  <2> QED BY <2>1, SidesAre
<1>5. ASSUME NEW a \in Us(q, me)
      PROVE  TypeAt(q, a) # "k" /\ Aims(TypeAt(q, a), me, a, K, after) <=>
               \/ TypeAt(q, a) = "r" /\ Sight(K, a) /\ Clear(K, a, after)
               \/ TypeAt(q, a) = "c" /\ Sight(K, a) /\ Single(K, a, after)
               \/ TypeAt(q, a) = "n" /\ a \in KnightAttd(K, after)
               \/ TypeAt(q, a) = "p" /\ a \in PawnAttd[me][K]
  BY DEF Aims, KnightAttd
<1> HIDE DEF q, K, me, after
<1>6. InCheck(q, Opp(me)) <=> \E a \in Us(q, me) :
               \/ TypeAt(q, a) = "r" /\ Sight(K, a) /\ Clear(K, a, after)
               \/ TypeAt(q, a) = "c" /\ Sight(K, a) /\ Single(K, a, after)
               \/ TypeAt(q, a) = "n" /\ a \in KnightAttd(K, after)
               \/ TypeAt(q, a) = "p" /\ a \in PawnAttd[me][K]
  BY <1>2, <1>5
<1>7. (\E line \in Sides : RookChecks(p, m, line)) <=>
         \E a \in Us(q, me) : TypeAt(q, a) = "r" /\ Sight(K, a) /\ Clear(K, a, after)
  BY <1>3, <1>4
<1>8. (\E line \in Sides : CannonChecks(p, m, line)) <=>
         \E a \in Us(q, me) : TypeAt(q, a) = "c" /\ Sight(K, a) /\ Single(K, a, after)
  BY <1>3, <1>4
<1>9. InCheck(q, Opp(me)) <=> \/ \E line \in Sides : RookChecks(p, m, line)
                              \/ \E line \in Sides : CannonChecks(p, m, line)
                              \/ PawnChecks(p, m) \/ KnightChecks(p, m)
  BY <1>3, <1>6, <1>7, <1>8
<1> QED BY <1>9 DEF q, me

\* What gives_check looks at for a piece that stays on a line of the king, ...
TellsAlong(p, m, line) ==
  LET type == TypeAt(p, From(m))
      cap == To(m) \in Occ(p)
      K == KingSq(p, Opp(p.turn))
  IN \/ type = "p" /\ PawnChecks(p, m)
     \/ cap /\ type = "r" /\ Clear(K, To(m), OccAfter(p, m))
     \/ cap /\ type \in {"p", "c"} /\ CannonChecks(p, m, line)
     \/ cap /\ type = "c" /\ RookChecks(p, m, line)

\* ... and for one that leaves a line or enters one.
TellsAside(p, m) ==
  LET f == From(m)
      t == To(m)
      type == TypeAt(p, f)
      K == KingSq(p, Opp(p.turn))
      after == OccAfter(p, m)
  IN \/ IsLegPos(f, K) /\ KnightChecks(p, m)
     \/ type = "n" /\ t \in KnightAttNoMask[K] /\ LegalLeg(t, K) \notin after
     \/ \E line \in Sides :
          \/ On(line, f, K) /\ (CannonChecks(p, m, line) \/ RookChecks(p, m, line))
          \/ /\ On(line, t, K)
             /\ \/ type = "r" /\ Clear(K, t, after)
                \/ type = "p" /\ PawnChecks(p, m)
                \/ type = "c" /\ Single(K, t, after)
                \/ type # "r" /\ t \notin Occ(p) /\ CannonChecks(p, m, line)

\* gives_check, by the piece that moves and the lines it is on.
LEMMA GivesForm ==
  ASSUME NEW p, NEW m, Playable(p, m)
  PROVE  LET f == From(m)
             t == To(m)
             type == TypeAt(p, f)
             K == KingSq(p, Opp(p.turn))
         IN /\ type = "k" => (GivesCheck(p, m) <=> SameFile(f, K) /\ SameRank(f, t) /\ CannonChecks(p, m, FileSteps))
            /\ type # "k" => \A line \in Sides : On(line, f, K) /\ On(line, t, K) =>
                               (GivesCheck(p, m) <=> TellsAlong(p, m, line))
            /\ type # "k" /\ (\A line \in Sides : ~(On(line, f, K) /\ On(line, t, K))) =>
                 (GivesCheck(p, m) <=> TellsAside(p, m))
<1> DEFINE me == p.turn
           f == From(m)
           t == To(m)
           type == TypeAt(p, f)
           cap == t \in Occ(p)
           q == After(p, m)
           K == KingSq(p, Opp(me))
           after == OccAfter(p, m)
           rook(line) == RookLine(K, line, Occ(q)) \cap Pieces(q, me, {"r"}) # {}
           cannon(line) == CannonLine(K, line, Occ(q)) \cap Pieces(q, me, {"c"}) # {}
           pawn == PawnAttd[me][K] \cap Pieces(q, me, {"p"}) # {}
           knight == KnightAttd(K, Occ(q)) \cap Pieces(q, me, {"n"}) # {}
           along(line) == \/ type = "p" /\ pawn
                          \/ cap /\ type = "r" /\ Screens(q, t, K) = 0
                          \/ cap /\ type \in {"p", "c"} /\ cannon(line)
                          \/ cap /\ type = "c" /\ rook(line)
           aside == \/ IsLegPos(f, K) /\ knight
                    \/ type = "n" /\ t \in KnightAttNoMask[K] /\ LegalLeg(t, K) \notin Occ(q)
                    \/ \E line \in Sides :
                         \/ On(line, f, K) /\ (cannon(line) \/ rook(line))
                         \/ /\ On(line, t, K)
                            /\ \/ type = "r" /\ Screens(q, t, K) = 0
                               \/ type = "p" /\ pawn
                               \/ type = "c" /\ Screens(q, t, K) = 1
                               \/ type # "r" /\ ~cap /\ cannon(line)
           both == {line \in Sides : On(line, f, K) /\ On(line, t, K)}
<1>1. /\ type = "k" => (GivesCheck(p, m) <=> SameFile(f, K) /\ SameRank(f, t) /\ cannon(FileSteps))
      /\ type # "k" /\ both # {} => (GivesCheck(p, m) <=> \E line \in both : along(line))
      /\ type # "k" /\ both = {} => (GivesCheck(p, m) <=> aside)
  <2>1. TypeOf(p.board[f]) = type
    BY DEF TypeAt
  <2>2. GivesCheck(p, m) =
          CASE type = "k" -> SameFile(f, K) /\ SameRank(f, t) /\ cannon(FileSteps)
            [] type # "k" /\ \E line \in Sides : On(line, f, K) /\ On(line, t, K) ->
                 \E line \in Sides : On(line, f, K) /\ On(line, t, K) /\ along(line)
            [] OTHER ->
                    \/ IsLegPos(f, K) /\ knight
                    \/ type = "n" /\ t \in KnightAttNoMask[K] /\ LegalLeg(t, K) \notin Occ(q)
                    \/ \E line \in Sides :
                         \/ On(line, f, K) /\ (cannon(line) \/ rook(line))
                         \/ /\ On(line, t, K)
                            /\ \/ type = "r" /\ Screens(q, t, K) = 0
                               \/ type = "p" /\ pawn
                               \/ type = "c" /\ Screens(q, t, K) = 1
                               \/ type # "r" /\ ~cap /\ cannon(line)
    BY <2>1 DEF GivesCheck
  <2>3. both # {} <=> \E line \in Sides : On(line, f, K) /\ On(line, t, K)
    OBVIOUS
  <2>4. (\E line \in both : along(line)) <=> \E line \in Sides : On(line, f, K) /\ On(line, t, K) /\ along(line)
    OBVIOUS
  <2> HIDE DEF me, f, t, type, cap, q, K, after, rook, cannon, pawn, knight, along, both
  <2> QED BY <2>2, <2>3, <2>4
<1>2. /\ \A line \in Sides : (rook(line) <=> RookChecks(p, m, line)) /\ (cannon(line) <=> CannonChecks(p, m, line))
      /\ pawn <=> PawnChecks(p, m)
      /\ knight <=> KnightChecks(p, m)
      /\ OnLine(t, K) => /\ Screens(q, t, K) = 0 <=> Clear(K, t, after)
                         /\ Screens(q, t, K) = 1 <=> Single(K, t, after)
  BY PartsAre
<1>3. Occ(q) = after
  BY AfterIs
<1>4. \A line \in Sides : On(line, t, K) => OnLine(t, K)
  BY SidesAre DEF OnLine
<1>5. f \in Square /\ K \in Square /\ f # K
  BY PlayableIs
<1>6. \A l \in Sides, n \in Sides : On(l, f, K) /\ On(n, f, K) => l = n
  <2>1. ~(SameFile(f, K) /\ SameRank(f, K))
    BY <1>5, OneLine
  <2> QED BY <2>1, SidesAre
<1>7. \A line \in Sides : TellsAlong(p, m, line) <=>
            \/ type = "p" /\ PawnChecks(p, m)
            \/ cap /\ type = "r" /\ Clear(K, t, after)
            \/ cap /\ type \in {"p", "c"} /\ CannonChecks(p, m, line)
            \/ cap /\ type = "c" /\ RookChecks(p, m, line)
  BY DEF TellsAlong
<1>8. TellsAside(p, m) <=>
     \/ IsLegPos(f, K) /\ KnightChecks(p, m)
     \/ type = "n" /\ t \in KnightAttNoMask[K] /\ LegalLeg(t, K) \notin after
     \/ \E line \in Sides :
          \/ On(line, f, K) /\ (CannonChecks(p, m, line) \/ RookChecks(p, m, line))
          \/ /\ On(line, t, K)
             /\ \/ type = "r" /\ Clear(K, t, after)
                \/ type = "p" /\ PawnChecks(p, m)
                \/ type = "c" /\ Single(K, t, after)
                \/ type # "r" /\ t \notin Occ(p) /\ CannonChecks(p, m, line)
  BY DEF TellsAside
<1>9. FileSteps \in Sides
  BY SidesAre
<1> HIDE DEF me, f, t, type, q, K, after, rook, cannon, pawn, knight
<1>10. type = "k" => (GivesCheck(p, m) <=> SameFile(f, K) /\ SameRank(f, t) /\ CannonChecks(p, m, FileSteps))
  BY <1>1, <1>2, <1>9
<1>11. ASSUME type # "k", NEW line \in Sides, On(line, f, K), On(line, t, K)
       PROVE  GivesCheck(p, m) <=> TellsAlong(p, m, line)
  <2>1. line \in both
    BY <1>11
  <2>2. \A l \in both : l = line
    BY <1>6, <1>11
  <2>3. GivesCheck(p, m) <=> along(line)
    <3> HIDE DEF along, both
    <3> QED BY <1>1, <1>11, <2>1, <2>2
  <2>4. along(line) <=> TellsAlong(p, m, line)
    BY <1>2, <1>4, <1>7, <1>11
  <2> QED BY <2>3, <2>4
<1>12. ASSUME type # "k", \A line \in Sides : ~(On(line, f, K) /\ On(line, t, K))
       PROVE  GivesCheck(p, m) <=> TellsAside(p, m)
  <2>1. both = {}
    BY <1>12
  <2>2. GivesCheck(p, m) <=> aside
    BY <1>1, <1>12, <2>1
  <2>3. ASSUME NEW line \in Sides
        PROVE  (\/ On(line, f, K) /\ (cannon(line) \/ rook(line))
                \/ /\ On(line, t, K)
                   /\ \/ type = "r" /\ Screens(q, t, K) = 0
                      \/ type = "p" /\ pawn
                      \/ type = "c" /\ Screens(q, t, K) = 1
                      \/ type # "r" /\ ~cap /\ cannon(line))
               <=>
               (\/ On(line, f, K) /\ (CannonChecks(p, m, line) \/ RookChecks(p, m, line))
                \/ /\ On(line, t, K)
                   /\ \/ type = "r" /\ Clear(K, t, after)
                      \/ type = "p" /\ PawnChecks(p, m)
                      \/ type = "c" /\ Single(K, t, after)
                      \/ type # "r" /\ t \notin Occ(p) /\ CannonChecks(p, m, line))
    BY <1>2, <1>4, <2>3
  <2>4. aside <=> TellsAside(p, m)
    BY <1>2, <1>3, <1>8, <2>3
  <2> QED BY <2>2, <2>4
<1> QED BY <1>10, <1>11, <1>12 DEF f, t, type, K, me

-----------------------------------------------------------------------------

\* What the piece that moved sees itself, as a check of its kind.
LEMMA OwnChecks ==
  ASSUME NEW p, NEW m, Playable(p, m), NEW line \in Sides, On(line, To(m), KingSq(p, Opp(p.turn)))
  PROVE  LET type == TypeAt(p, From(m))
             K == KingSq(p, Opp(p.turn))
         IN /\ type = "r" /\ Clear(K, To(m), OccAfter(p, m)) => RookChecks(p, m, line)
            /\ type = "c" /\ Single(K, To(m), OccAfter(p, m)) => CannonChecks(p, m, line)
<1>1. To(m) \in Us(After(p, m), p.turn) /\ TypeAt(After(p, m), To(m)) = TypeAt(p, From(m))
  BY AfterIs
<1>2. Along(line, KingSq(p, Opp(p.turn)), To(m))
  <2>1. To(m) # KingSq(p, Opp(p.turn))
    BY PlayableIs
  <2> QED BY <2>1, SidesAre DEF Along, SameFile, SameRank
<1> QED BY <1>1, <1>2 DEF RookChecks, CannonChecks

\* A rook or a cannon that slides along a line of the king to a free square, or the
\* one checking from where the other king was covered, gives no new check.
LEMMA AlongChecks ==
  ASSUME NEW p, NEW m, Playable(p, m), ~Exposed(p, Opp(p.turn)), TypeAt(p, From(m)) # "k",
         NEW line \in Sides, On(line, From(m), KingSq(p, Opp(p.turn))), On(line, To(m), KingSq(p, Opp(p.turn))),
         InCheck(After(p, m), Opp(p.turn))
  PROVE  TellsAlong(p, m, line)
<1> DEFINE me == p.turn
           f == From(m)
           t == To(m)
           type == TypeAt(p, f)
           q == After(p, m)
           K == KingSq(p, Opp(me))
           occ == Occ(p)
           after == OccAfter(p, m)
           block == occ \ {f}
<1>1. /\ f \in Square /\ t \in Square /\ K \in Square /\ f # t /\ f # K /\ t # K /\ f \in occ /\ K \in occ
      /\ me \in Color /\ Opp(Opp(me)) = me /\ f \in Us(p, me)
  BY PlayableIs
<1>2. /\ OnSame(line, f, t) /\ OnSame(line, f, K) /\ OnSame(line, t, K) /\ OnSame(line, K, f) /\ OnSame(line, K, t)
      /\ OnLine(f, t) /\ OnLine(f, K) /\ OnLine(t, K)
  <2> HIDE DEF f, t, K, me
  <2>1. On(line, f, K) /\ On(line, t, K)
    BY DEF f, t, K, me
  <2> QED BY <2>1, SidesAre DEF SameFile, SameRank, OnLine
<1>3. type \in {"r", "c", "p"}
  BY <1>2, LineMover
<1>4. /\ Fit(q) /\ Us(q, me) = (Us(p, me) \ {f}) \cup {t} /\ TypeAt(q, t) = type
      /\ \A a \in Us(p, me) \ {f} : TypeAt(q, a) = TypeAt(p, a) /\ a # t /\ a \in Square /\ a \in occ
      /\ KingSq(q, Opp(me)) = K /\ Occ(q) = after
  BY AfterIs
<1>5. PICK a \in Us(q, me) : TypeAt(q, a) # "k" /\ Aims(TypeAt(q, a), me, a, K, after)
  <2>1. Opp(me) \in Color
    BY PlayableIs
  <2>2. \E a \in Us(q, Opp(Opp(me))) : TypeAt(q, a) # "k" /\ Aims(TypeAt(q, a), Opp(Opp(me)), a, KingSq(q, Opp(me)), Occ(q))
    BY <1>4, <2>1, CheckIs
  <2> HIDE DEF q, me, K, after
  <2> QED BY <1>1, <1>4, <2>2
<1>6. ~Aims(type, me, f, K, occ)
  <2>1. Exposed(p, Opp(me)) <=> \E b \in Us(p, Opp(Opp(me))) : Aims(TypeAt(p, b), Opp(Opp(me)), b, K, occ)
    BY DEF Exposed
  <2>2. ~Exposed(p, Opp(me))
    OBVIOUS
  <2> HIDE DEF me, K, occ, type
  <2> QED BY <1>1, <2>1, <2>2 DEF type
<1>7. after = (occ \ {f}) \cup {t} /\ t \in after
  BY DEF OccAfter
<1>8. TellsAlong(p, m, line) <=>
            \/ type = "p" /\ PawnChecks(p, m)
            \/ t \in occ /\ type = "r" /\ Clear(K, t, after)
            \/ t \in occ /\ type \in {"p", "c"} /\ CannonChecks(p, m, line)
            \/ t \in occ /\ type = "c" /\ RookChecks(p, m, line)
  BY DEF TellsAlong
<1>9. /\ type = "c" /\ Single(K, t, after) => CannonChecks(p, m, line)
  BY OwnChecks
<1>10. t \notin occ => (Clear(K, t, after) <=> Clear(K, f, occ)) /\ (Single(K, t, after) <=> Single(K, f, occ))
  <2> HAVE t \notin occ
  <2>1. Clear(f, t, occ)
    BY <1>2, SlidePath
  <2> HIDE DEF f, t, K, occ, after
  <2> QED BY <1>1, <1>2, <1>7, <2>1, Sliding
<1>11. CASE a = t
  <2>1. Aims(type, me, t, K, after)
    BY <1>4, <1>5, <1>11
  <2>2. Sight(K, f) /\ Sight(K, t)
    <3> HIDE DEF f, t, K
    <3> QED BY <1>1, <1>2 DEF Sight, OnLine, SameFile, SameRank
  <2>3. \/ type = "r" /\ Clear(K, t, after)
        \/ type = "c" /\ Single(K, t, after)
        \/ type = "p" /\ t \in PawnAttd[me][K]
    <3> HIDE DEF f, t, K, type, me, after
    <3> QED BY <1>3, <2>1 DEF Aims
  <2>4. /\ type = "r" => ~Clear(K, f, occ)
        /\ type = "c" => ~Single(K, f, occ)
    <3> HIDE DEF f, t, K, type, me, occ
    <3> QED BY <1>6, <2>2 DEF Aims
  <2>5. type = "p" /\ t \in PawnAttd[me][K] => PawnChecks(p, m)
    BY <1>4 DEF PawnChecks
  <2> HIDE DEF f, t, K, type, me, occ, after
  <2> QED BY <1>8, <1>9, <1>10, <2>3, <2>4, <2>5
<1>12. CASE a # t
  <2>1. a \in Us(p, me) \ {f} /\ TypeAt(q, a) = TypeAt(p, a)
    BY <1>4, <1>12
  <2>2. Opened(p, m, a)
    BY <1>5, <2>1, OpenedIs
  <2> DEFINE F == Amid(K, f, a)
             T == Amid(K, t, a)
  <2>3. \A l \in Sides : Along(l, K, a) /\ (F \/ OnSame(l, t, K)) => l = line
    <3> SUFFICES ASSUME NEW l \in Sides, Along(l, K, a), F \/ OnSame(l, t, K) PROVE l = line
      OBVIOUS
    <3>0. a \in Square
      BY <1>4, <2>1
    <3>1. OnSame(l, f, K) \/ OnSame(l, t, K)
      <4> HIDE DEF K, f, t
      <4>1. F => OnSame(l, f, K)
        BY <1>1, <3>0, AmidOn
      <4> QED BY <4>1
    <3>2. ~(SameFile(f, K) /\ SameRank(f, K)) /\ ~(SameFile(t, K) /\ SameRank(t, K))
      BY <1>1, OneLine
    <3> HIDE DEF K, f, t
    <3> QED BY <1>2, <3>1, <3>2, SidesAre
  <2>4. \/ /\ TypeAt(p, a) = "r"
           /\ \E l \in Sides : /\ Along(l, K, a) /\ Clear(K, a, after) /\ Clear(K, a, block)
                               /\ F /\ (~OnSame(l, f, t) \/ (t \in occ /\ type = "c"))
        \/ /\ TypeAt(p, a) = "c"
           /\ \E l \in Sides : /\ Along(l, K, a) /\ Single(K, a, after)
                               /\ \/ F /\ Single(K, a, block) /\ (~OnSame(l, f, t) \/ t \in occ)
                                  \/ t \notin occ /\ OnSame(l, t, K) /\ ~OnSame(l, f, t) /\ (F \/ T)
        \/ TypeAt(p, a) = "n" /\ a \in KnightAttNoMask[K] /\ LegalLeg(a, K) = f
    BY <2>2 DEF Opened
  <2>5. a \in KnightAttNoMask[K] => LegalLeg(a, K) # f
    <3> SUFFICES ASSUME a \in KnightAttNoMask[K], LegalLeg(a, K) = f PROVE FALSE
      OBVIOUS
    <3>0. a \in Square
      BY <1>4, <2>1
    <3> HIDE DEF K, f
    <3>1. K \in KnightAttNoMask[a]
      BY <1>1, <3>0, KnightSym
    <3>2. Off(K, f, 1, 1) \/ Off(K, f, 1, -1) \/ Off(K, f, -1, 1) \/ Off(K, f, -1, -1)
      BY <3>0, <3>1, LegIs
    <3>3. FileOf(f) \in Int /\ RankOf(f) \in Int /\ FileOf(K) \in Int /\ RankOf(K) \in Int
      BY <1>1, Coordinates
    <3> QED BY <1>2, <3>2, <3>3 DEF Off, OnLine, SameFile, SameRank
  <2>6. CASE TypeAt(p, a) = "r" /\ Along(line, K, a) /\ Clear(K, a, after) /\ t \in occ /\ type = "c"
    <3>1. RookChecks(p, m, line)
      BY <1>5, <2>1, <2>6 DEF RookChecks
    <3> QED BY <1>8, <2>6, <3>1
  <2>7. CASE TypeAt(p, a) = "c" /\ Along(line, K, a) /\ Single(K, a, after) /\ F /\ t \in occ
    <3>1. CannonChecks(p, m, line)
      BY <1>5, <2>1, <2>7 DEF CannonChecks
    <3>2. CASE type \in {"p", "c"}
      BY <1>8, <2>7, <3>1, <3>2
    <3>3. CASE type = "r"
      <4>1. a \in occ /\ a \in Square /\ a # f /\ a # t
        BY <1>4, <2>1
      <4>2. T
        <5> HIDE DEF K
        <5>1. OnSame(line, f, t) /\ OnSame(line, t, K) /\ ~(F <=> T) => t \in occ /\ type = "c"
          BY <1>1, <2>7, <4>1, LineFound
        <5> QED BY <1>2, <2>7, <3>3, <5>1
      <4>3. Clear(K, t, after)
        <5> HIDE DEF K, t, after
        <5> QED BY <1>1, <1>7, <2>7, <4>1, <4>2, Nearer
      <4> QED BY <1>8, <2>7, <3>3, <4>3
    <3> QED BY <1>3, <3>2, <3>3
  <2> HIDE DEF f, t, K, type, me, occ, after, F, T, block
  <2>8. CASE TypeAt(p, a) = "r"
    <3> PICK l \in Sides : /\ Along(l, K, a) /\ Clear(K, a, after)
                           /\ F /\ (~OnSame(l, f, t) \/ (t \in occ /\ type = "c"))
      BY <2>4, <2>8
    <3>1. l = line
      BY <2>3
    <3> QED BY <1>2, <2>6, <2>8, <3>1
  <2>9. CASE TypeAt(p, a) = "c"
    <3> PICK l \in Sides : /\ Along(l, K, a) /\ Single(K, a, after)
                           /\ \/ F /\ Single(K, a, block) /\ (~OnSame(l, f, t) \/ t \in occ)
                              \/ t \notin occ /\ OnSame(l, t, K) /\ ~OnSame(l, f, t) /\ (F \/ T)
      BY <2>4, <2>9
    <3>1. l = line
      BY <2>3
    <3> QED BY <1>2, <2>7, <2>9, <3>1
  <2> QED BY <2>4, <2>5, <2>8, <2>9
<1> QED BY <1>11, <1>12

\* What gives check after a move is the piece moved, or one the move has opened a way for.
LEMMA Checker ==
  ASSUME NEW p, NEW m, Playable(p, m), ~Exposed(p, Opp(p.turn)), InCheck(After(p, m), Opp(p.turn))
  PROVE  \/ /\ TypeAt(p, From(m)) # "k"
            /\ Aims(TypeAt(p, From(m)), p.turn, To(m), KingSq(p, Opp(p.turn)), OccAfter(p, m))
         \/ \E a \in Us(p, p.turn) \ {From(m)} :
              /\ a \in Us(After(p, m), p.turn) /\ TypeAt(After(p, m), a) = TypeAt(p, a)
              /\ a \in Square /\ a # To(m) /\ a # KingSq(p, Opp(p.turn)) /\ Opened(p, m, a)
<1> DEFINE me == p.turn
           f == From(m)
           t == To(m)
           q == After(p, m)
           K == KingSq(p, Opp(me))
           after == OccAfter(p, m)
<1>1. /\ Fit(q) /\ Us(q, me) = (Us(p, me) \ {f}) \cup {t} /\ TypeAt(q, t) = TypeAt(p, f)
      /\ \A a \in Us(p, me) \ {f} : TypeAt(q, a) = TypeAt(p, a) /\ a # t /\ a \in Square
      /\ KingSq(q, Opp(me)) = K /\ Occ(q) = after
  BY AfterIs
<1>2. me \in Color /\ Opp(me) \in Color /\ Opp(Opp(me)) = me /\ K \in Us(p, Opp(me))
  BY PlayableIs
<1>3. PICK a \in Us(q, me) : TypeAt(q, a) # "k" /\ Aims(TypeAt(q, a), me, a, K, after)
  <2>1. \E a \in Us(q, Opp(Opp(me))) : TypeAt(q, a) # "k" /\ Aims(TypeAt(q, a), Opp(Opp(me)), a, KingSq(q, Opp(me)), Occ(q))
    BY <1>1, <1>2, CheckIs
  <2> HIDE DEF q, me, K, after
  <2> QED BY <1>1, <1>2, <2>1
<1>4. CASE a = t
  BY <1>1, <1>3, <1>4
<1>5. CASE a # t
  <2>1. a \in Us(p, me) \ {f} /\ TypeAt(q, a) = TypeAt(p, a) /\ a \in Square
    BY <1>1, <1>5
  <2>2. Opened(p, m, a)
    BY <1>3, <2>1, OpenedIs
  <2>3. a # K
    <3>1. Us(p, me) \cap Us(p, Opp(me)) = {}
      BY <1>2, FitTypes DEF Playable
    <3> QED BY <1>2, <2>1, <3>1
  <2> QED BY <1>5, <2>1, <2>2, <2>3
<1> QED BY <1>4, <1>5

\* A piece that leaves the lines of the king, or comes to one from elsewhere.
LEMMA AsideChecks ==
  ASSUME NEW p, NEW m, Playable(p, m), ~Exposed(p, Opp(p.turn)), TypeAt(p, From(m)) # "k",
         InCheck(After(p, m), Opp(p.turn))
  PROVE  TellsAside(p, m)
<1> DEFINE me == p.turn
           f == From(m)
           t == To(m)
           type == TypeAt(p, f)
           q == After(p, m)
           K == KingSq(p, Opp(me))
           occ == Occ(p)
           after == OccAfter(p, m)
<1>1. f \in Square /\ t \in Square /\ K \in Square /\ t # K /\ me \in Color
  BY PlayableIs
<1>2. TellsAside(p, m) <=>
     \/ IsLegPos(f, K) /\ KnightChecks(p, m)
     \/ type = "n" /\ t \in KnightAttNoMask[K] /\ LegalLeg(t, K) \notin after
     \/ \E line \in Sides :
          \/ On(line, f, K) /\ (CannonChecks(p, m, line) \/ RookChecks(p, m, line))
          \/ /\ On(line, t, K)
             /\ \/ type = "r" /\ Clear(K, t, after)
                \/ type = "p" /\ PawnChecks(p, m)
                \/ type = "c" /\ Single(K, t, after)
                \/ type # "r" /\ t \notin occ /\ CannonChecks(p, m, line)
  BY DEF TellsAside
<1>3. t \in after
  BY DEF OccAfter
<1>4. ASSUME Aims(type, me, t, K, after) PROVE TellsAside(p, m)
  <2>1. \/ type = "r" /\ Sight(K, t) /\ Clear(K, t, after)
        \/ type = "c" /\ Sight(K, t) /\ Single(K, t, after)
        \/ type = "n" /\ t \in KnightAttNoMask[K] /\ LegalLeg(t, K) \notin after
        \/ type = "p" /\ t \in PawnAttd[me][K]
    BY <1>4 DEF Aims
  <2>2. Sight(K, t) => \E line \in Sides : On(line, t, K)
    <3> HIDE DEF K, t
    <3>1. Sight(K, t) => On(RankSteps, t, K) \/ On(FileSteps, t, K)
      BY SidesAre DEF Sight, OnLine, SameFile, SameRank
    <3> QED BY <3>1, SidesAre
  <2>3. type = "p" /\ t \in PawnAttd[me][K] => PawnChecks(p, m)
    <3>1. t \in Us(q, me) /\ TypeAt(q, t) = type
      BY AfterIs
    <3> QED BY <3>1 DEF PawnChecks
  <2>4. t \in PawnAttd[me][K] => Sight(K, t)
    <3> HAVE t \in PawnAttd[me][K]
    <3> HIDE DEF K, t, me
    <3>1. Forward(me) \in {-1, 1}
      BY <1>1, ForwardIs
    <3>2. Off(K, t, 0, -Forward(me)) \/ Off(K, t, 1, 0) \/ Off(K, t, -1, 0)
      BY <1>1, PawnFrom
    <3>3. SameFile(K, t) \/ SameRank(K, t)
      <4>1. FileOf(K) \in Int /\ RankOf(K) \in Int
        BY <1>1, Coordinates
      <4> QED BY <3>1, <3>2, <4>1 DEF Off, SameFile, SameRank
    <3> QED BY <1>1, <3>3 DEF Sight, OnLine
  <2> HIDE DEF f, t, K, type, me, occ, after
  <2> QED BY <1>2, <2>1, <2>2, <2>3, <2>4
<1>5. ASSUME NEW a \in Us(p, me) \ {f}, a \in Us(q, me), TypeAt(q, a) = TypeAt(p, a), a \in Square, Opened(p, m, a)
      PROVE  TellsAside(p, m)
  <2> DEFINE F == Amid(K, f, a)
             T == Amid(K, t, a)
  <2>1. \/ /\ TypeAt(p, a) = "r"
           /\ \E line \in Sides : Along(line, K, a) /\ Clear(K, a, after) /\ F
        \/ /\ TypeAt(p, a) = "c"
           /\ \E line \in Sides : /\ Along(line, K, a) /\ Single(K, a, after)
                                  /\ \/ F
                                     \/ t \notin occ /\ OnSame(line, t, K) /\ T
        \/ TypeAt(p, a) = "n" /\ a \in KnightAttNoMask[K] /\ LegalLeg(a, K) = f /\ LegalLeg(a, K) \notin after
    BY <1>5 DEF Opened
  <2>2. \A line \in Sides : Along(line, K, a) /\ F => On(line, f, K)
    <3> HIDE DEF K, f
    <3>1. \A line \in Sides : Along(line, K, a) /\ F => OnSame(line, f, K)
      BY <1>1, <1>5, AmidOn
    <3> QED BY <3>1, SidesAre
  <2>3. \A line \in Sides : TypeAt(p, a) = "r" /\ Along(line, K, a) /\ Clear(K, a, after) => RookChecks(p, m, line)
    BY <1>5 DEF RookChecks
  <2>4. \A line \in Sides : TypeAt(p, a) = "c" /\ Along(line, K, a) /\ Single(K, a, after) => CannonChecks(p, m, line)
    BY <1>5 DEF CannonChecks
  <2>5. TypeAt(p, a) = "n" /\ a \in KnightAttNoMask[K] /\ LegalLeg(a, K) \notin after => KnightChecks(p, m)
    BY <1>5 DEF KnightChecks, KnightAttd
  <2>6. a \in KnightAttNoMask[K] => IsLegPos(LegalLeg(a, K), K)
    BY <1>1, LegPosIs
  <2>7. Single(K, a, after) /\ T => Clear(K, t, after)
    <3> HIDE DEF K, t, after
    <3> QED BY <1>1, <1>3, <1>5, Nearer
  <2>8. \A line \in Sides : OnSame(line, t, K) <=> On(line, t, K)
    BY SidesAre
  <2> HIDE DEF f, t, K, type, me, occ, after, F, T, q
  <2>9. CASE TypeAt(p, a) = "r"
    BY <1>2, <2>1, <2>2, <2>3, <2>9
  <2>10. CASE TypeAt(p, a) = "c"
    <3> PICK line \in Sides : /\ Along(line, K, a) /\ Single(K, a, after)
                              /\ \/ F
                                 \/ t \notin occ /\ OnSame(line, t, K) /\ T
      BY <2>1, <2>10
    <3>1. CannonChecks(p, m, line)
      BY <2>4, <2>10
    <3>2. CASE F
      BY <1>2, <2>2, <3>1, <3>2
    <3>3. CASE t \notin occ /\ OnSame(line, t, K) /\ T
      <4>1. On(line, t, K) /\ Clear(K, t, after)
        BY <2>7, <2>8, <3>3
      <4> QED BY <1>2, <3>1, <3>3, <4>1
    <3> QED BY <3>2, <3>3
  <2>11. CASE TypeAt(p, a) = "n"
    BY <1>2, <2>1, <2>5, <2>6, <2>11
  <2> QED BY <2>1, <2>9, <2>10, <2>11
<1>6. \/ Aims(type, me, t, K, after)
      \/ \E a \in Us(p, me) \ {f} : a \in Us(q, me) /\ TypeAt(q, a) = TypeAt(p, a) /\ a \in Square /\ Opened(p, m, a)
  BY Checker
<1> QED BY <1>4, <1>5, <1>6

\* A king uncovers nothing but a cannon behind it, on the file of the other, and only
\* when it goes aside.
LEMMA KingChecks ==
  ASSUME NEW p, NEW m, Playable(p, m), ~Exposed(p, Opp(p.turn)), TypeAt(p, From(m)) = "k",
         ~KingsFace(After(p, m)), InCheck(After(p, m), Opp(p.turn))
  PROVE  /\ SameFile(From(m), KingSq(p, Opp(p.turn))) /\ SameRank(From(m), To(m))
         /\ CannonChecks(p, m, FileSteps)
<1> DEFINE me == p.turn
           f == From(m)
           t == To(m)
           q == After(p, m)
           K == KingSq(p, Opp(me))
           occ == Occ(p)
           after == OccAfter(p, m)
           block == occ \ {f}
<1>1. /\ f \in Square /\ t \in Square /\ K \in Square /\ t # K /\ f # K /\ me \in Color /\ f \in Us(p, me)
      /\ Opp(Opp(me)) = me /\ K \in KingPos(Opp(me)) /\ f \in KingPos(me) /\ f # t
  BY PlayableIs
<1>2. t \in KingPos(me) /\ Beside(f, t)
  <2>1. t \in KingAtt[f]
    BY PseudoIs DEF Playable
  <2>2. f \in King_Pos
    BY <1>1, ColorsAre DEF King_Pos
  <2> HIDE DEF f, t, me
  <2> QED BY <1>1, <2>1, <2>2, KingStays, KingStep DEF Beside
<1>3. ~SameRank(f, K) /\ ~SameRank(t, K)
  <2> HIDE DEF f, t, K, me
  <2> QED BY <1>1, <1>2, KingsApart
<1>4. ~(SameFile(f, K) /\ Clear(K, f, occ))
  <2>1. Exposed(p, Opp(me)) <=> \E b \in Us(p, Opp(Opp(me))) : Aims(TypeAt(p, b), Opp(Opp(me)), b, K, occ)
    BY DEF Exposed
  <2>2. ~Exposed(p, Opp(me)) /\ TypeAt(p, f) = "k"
    OBVIOUS
  <2> HIDE DEF f, K, me, occ
  <2>3. ~Aims("k", me, f, K, occ)
    BY <1>1, <2>1, <2>2
  <2>4. SameFile(f, K) <=> SameFile(K, f)
    BY DEF SameFile
  <2> QED BY <1>1, <2>3, <2>4 DEF Aims
<1>5. ~(SameFile(t, K) /\ Clear(K, t, after))
  <2>1. Fit(q) /\ KingSq(q, Opp(me)) = K /\ KingSq(q, me) = Guarded(p, m) /\ Occ(q) = after
    BY AfterIs
  <2>2. Guarded(p, m) = t
    BY DEF Guarded
  <2>3. KingsFace(q) <=> SameFile(KingSq(q, Opp(me)), KingSq(q, me)) /\ Clear(KingSq(q, Opp(me)), KingSq(q, me), Occ(q))
    BY <1>1, <2>1, FacingIs
  <2>4. ~KingsFace(q)
    OBVIOUS
  <2> HIDE DEF q, me, K, t, after
  <2> QED BY <2>1, <2>2, <2>3, <2>4 DEF SameFile
<1>6. PICK a \in Us(p, me) \ {f} :
        /\ a \in Us(q, me) /\ TypeAt(q, a) = TypeAt(p, a) /\ a \in Square /\ a # t /\ a # K /\ Opened(p, m, a)
  BY Checker
<1> DEFINE F == Amid(K, f, a)
           T == Amid(K, t, a)
<1>7. \/ /\ TypeAt(p, a) = "r"
         /\ \E line \in Sides : Along(line, K, a) /\ Clear(K, a, block) /\ F
      \/ /\ TypeAt(p, a) = "c"
         /\ \E line \in Sides : /\ Along(line, K, a) /\ Single(K, a, after)
                                /\ \/ F /\ (~OnSame(line, f, t) \/ t \in occ)
                                   \/ t \notin occ /\ OnSame(line, t, K) /\ ~OnSame(line, f, t) /\ (F \/ T)
      \/ TypeAt(p, a) = "n" /\ a \in KnightAttNoMask[K] /\ LegalLeg(a, K) = f
  BY <1>6 DEF Opened
<1>8. t \in after
  BY DEF OccAfter
<1>9. \A line \in Sides : TypeAt(p, a) = "c" /\ Along(line, K, a) /\ Single(K, a, after) => CannonChecks(p, m, line)
  BY <1>6 DEF CannonChecks
<1>10. Single(K, a, after) /\ T => Clear(K, t, after)
  <2> HIDE DEF K, t, after
  <2> QED BY <1>1, <1>6, <1>8, Nearer
<1>11. \A line \in Sides : Along(line, K, a) /\ F => line = FileSteps /\ SameFile(f, K)
  <2> HIDE DEF K, f
  <2>1. \A line \in Sides : Along(line, K, a) /\ F => OnSame(line, f, K)
    BY <1>1, <1>6, AmidOn
  <2> QED BY <1>3, <2>1, SidesAre
<1>12. \A line \in Sides : OnSame(line, t, K) => line = FileSteps /\ SameFile(t, K)
  <2> HIDE DEF K, t
  <2> QED BY <1>3, SidesAre
<1>13. ~(a \in KnightAttNoMask[K] /\ LegalLeg(a, K) = f)
  <2> SUFFICES ASSUME a \in KnightAttNoMask[K], LegalLeg(a, K) = f PROVE FALSE
    OBVIOUS
  <2> HIDE DEF K, f, me
  <2>1. K \in KnightAttNoMask[a]
    BY <1>1, <1>6, KnightSym
  <2>2. Off(K, f, 1, 1) \/ Off(K, f, 1, -1) \/ Off(K, f, -1, 1) \/ Off(K, f, -1, -1)
    BY <1>6, <2>1, LegIs
  <2>3. Home(me, f, 2) /\ Home(Opp(me), K, 2)
    BY <1>1, PalaceIs, ColorsAre
  <2>4. RankOf(f) \in 0..9 /\ RankOf(K) \in 0..9
    BY <1>1, Coordinates
  <2>5. me \in {White, Black} /\ White # Black /\ Opp(White) = Black /\ Opp(Black) = White
    BY <1>1, ColorsAre
  <2>6. RankOf(f) = RankOf(K) + 1 \/ RankOf(f) = RankOf(K) - 1
    BY <2>2, <2>4 DEF Off
  <2>7. CASE me = White
    <3>1. RankOf(f) <= 2 /\ RankOf(K) >= 7
      BY <2>3, <2>5, <2>7 DEF Home
    <3> QED BY <2>4, <2>6, <3>1
  <2>8. CASE me = Black
    <3>1. RankOf(K) <= 2 /\ RankOf(f) >= 7
      BY <2>3, <2>5, <2>8 DEF Home
    <3> QED BY <2>4, <2>6, <3>1
  <2> QED BY <2>5, <2>7, <2>8
<1>14. ASSUME F, SameFile(f, K), ~SameRank(f, t), Along(FileSteps, K, a) PROVE T /\ SameFile(t, K)
  <2>1. Off(f, t, 0, 1) \/ Off(f, t, 0, -1)
    <3>1. FileOf(f) \in Int /\ RankOf(f) \in Int
      BY <1>1, Coordinates
    <3> HIDE DEF f, t
    <3> QED BY <1>2, <1>14, <3>1 DEF Beside, Off, SameRank
  <2>2. SameFile(K, a) /\ FileOf(f) = FileOf(K)
    BY <1>14, SidesAre DEF Along, SameFile
  <2>3. /\ FileOf(f) \in Int /\ RankOf(f) \in Int /\ FileOf(t) \in Int /\ RankOf(t) \in Int
        /\ FileOf(K) \in Int /\ RankOf(K) \in Int /\ FileOf(a) \in Int /\ RankOf(a) \in Int
    BY <1>1, <1>6, Coordinates
  <2>4. FileOf(t) = FileOf(f) /\ (RankOf(t) = RankOf(f) + 1 \/ RankOf(t) = RankOf(f) - 1)
    BY <2>1, <2>3 DEF Off
  <2>5. RankOf(t) # RankOf(K) /\ RankOf(t) # RankOf(a)
    <3>1. FileOf(t) = FileOf(K) /\ FileOf(t) = FileOf(a)
      BY <2>2, <2>4 DEF SameFile
    <3> QED BY <1>1, <1>6, <3>1, SameSquare
  <2>6. Mid(RankOf(f), RankOf(K), RankOf(a))
    <3>1. ~SameRank(K, f)
      BY <1>3 DEF SameRank
    <3> QED BY <1>14, <3>1 DEF Amid
  <2> HIDE DEF f, t, K
  <2>7. Mid(RankOf(t), RankOf(K), RankOf(a))
    BY <2>3, <2>4, <2>5, <2>6 DEF Mid
  <2> QED BY <2>2, <2>4, <2>7 DEF Amid, SameFile
<1>15. OnSame(FileSteps, f, t) <=> SameFile(f, t)
  BY SidesAre
<1> HIDE DEF f, t, K, me, occ, after, block, F, T, q
<1>16. CASE TypeAt(p, a) = "r"
  <2> PICK line \in Sides : Along(line, K, a) /\ Clear(K, a, block) /\ F
    BY <1>7, <1>16
  <2>1. SameFile(f, K)
    BY <1>11
  <2>2. Clear(K, f, occ)
    <3> SUFFICES ASSUME NEW u \in occ \cap Square, Amid(K, u, f) PROVE FALSE
      BY DEF Clear
    <3>1. Amid(K, f, a)
      BY DEF F
    <3>2. /\ FileOf(f) \in Int /\ RankOf(f) \in Int /\ FileOf(u) \in Int /\ RankOf(u) \in Int
          /\ FileOf(K) \in Int /\ RankOf(K) \in Int /\ FileOf(a) \in Int /\ RankOf(a) \in Int
      BY <1>1, <1>6, Coordinates
    <3>3. Amid(K, u, a) /\ u # f
      BY <3>1, <3>2 DEF Amid, Mid, SameFile, SameRank
    <3> QED BY <3>3 DEF Clear, block
  <2> QED BY <1>4, <2>1, <2>2
<1>17. CASE TypeAt(p, a) = "c"
  <2> PICK line \in Sides : /\ Along(line, K, a) /\ Single(K, a, after)
                            /\ \/ F /\ (~OnSame(line, f, t) \/ t \in occ)
                               \/ t \notin occ /\ OnSame(line, t, K) /\ ~OnSame(line, f, t) /\ (F \/ T)
    BY <1>7, <1>17
  <2>1. CannonChecks(p, m, line)
    BY <1>9, <1>17
  <2>2. CASE F
    <3>1. line = FileSteps /\ SameFile(f, K)
      BY <1>11, <2>2
    <3>2. SameRank(f, t)
      <4> SUFFICES ASSUME ~SameRank(f, t) PROVE FALSE
        OBVIOUS
      <4>1. T /\ SameFile(t, K)
        BY <1>14, <2>2, <3>1
      <4> QED BY <1>5, <1>10, <4>1
    <3> QED BY <2>1, <3>1, <3>2 DEF f, t, K, me
  <2>3. CASE ~F
    BY <1>5, <1>10, <1>12, <2>3
  <2> QED BY <2>2, <2>3
<1> QED BY <1>7, <1>13, <1>16, <1>17

\* What gives_check says is true, ...
LEMMA TellsTrue ==
  ASSUME NEW p, NEW m, Playable(p, m), GivesCheck(p, m)
  PROVE  InCheck(After(p, m), Opp(p.turn))
<1> DEFINE f == From(m)
           t == To(m)
           type == TypeAt(p, f)
           K == KingSq(p, Opp(p.turn))
           after == OccAfter(p, m)
           checks == (\E line \in Sides : RookChecks(p, m, line) \/ CannonChecks(p, m, line)) \/ PawnChecks(p, m) \/ KnightChecks(p, m)
<1>1. InCheck(After(p, m), Opp(p.turn)) <=> checks
  BY CheckParts
<1>2. FileSteps \in Sides
  BY SidesAre
<1>3. CASE type = "k"
  BY <1>1, <1>2, <1>3, GivesForm
<1>4. \A line \in Sides : On(line, t, K) =>
         /\ type = "r" /\ Clear(K, t, after) => RookChecks(p, m, line)
         /\ type = "c" /\ Single(K, t, after) => CannonChecks(p, m, line)
  BY OwnChecks
<1>5. type = "n" /\ t \in KnightAttNoMask[K] /\ LegalLeg(t, K) \notin after => KnightChecks(p, m)
  <2>1. t \in Us(After(p, m), p.turn) /\ TypeAt(After(p, m), t) = type
    BY AfterIs
  <2> QED BY <2>1 DEF KnightChecks, KnightAttd
<1>6. ASSUME NEW line \in Sides, On(line, t, K), TellsAlong(p, m, line) PROVE checks
  BY <1>4, <1>6 DEF TellsAlong
<1>7. ASSUME TellsAside(p, m) PROVE checks
  BY <1>4, <1>5, <1>7 DEF TellsAside
<1>8. CASE type # "k"
  <2>1. \A line \in Sides : On(line, f, K) /\ On(line, t, K) => TellsAlong(p, m, line)
    BY <1>8, GivesForm
  <2>2. (\A line \in Sides : ~(On(line, f, K) /\ On(line, t, K))) => TellsAside(p, m)
    BY <1>8, GivesForm
  <2> HIDE DEF checks, f, t, K
  <2> QED BY <1>1, <1>6, <1>7, <2>1, <2>2
<1> QED BY <1>3, <1>8

\* ... and it says of every check that it is one.
LEMMA GivesCheckIs ==
  ASSUME NEW p, NEW m, Playable(p, m), ~Exposed(p, Opp(p.turn)), ~KingsFace(After(p, m))
  PROVE  GivesCheck(p, m) <=> InCheck(After(p, m), Opp(p.turn))
<1>1. ASSUME InCheck(After(p, m), Opp(p.turn)) PROVE GivesCheck(p, m)
  <2> DEFINE f == From(m)
             t == To(m)
             K == KingSq(p, Opp(p.turn))
  <2>1. CASE TypeAt(p, f) = "k"
    <3>1. SameFile(f, K) /\ SameRank(f, t) /\ CannonChecks(p, m, FileSteps)
      BY <1>1, <2>1, KingChecks
    <3> QED BY <2>1, <3>1, GivesForm
  <2>2. CASE TypeAt(p, f) # "k"
    <3>1. \A line \in Sides : On(line, f, K) /\ On(line, t, K) => TellsAlong(p, m, line)
      BY <1>1, <2>2, AlongChecks
    <3>2. TellsAside(p, m)
      BY <1>1, <2>2, AsideChecks
    <3> QED BY <2>2, <3>1, <3>2, GivesForm
  <2> QED BY <2>1, <2>2
<1> QED BY <1>1, TellsTrue

-----------------------------------------------------------------------------
(* The game *)

\* Entry e was made in a position that can arise, by a move that may be made there,
\* and says whether the move gives check.
Played(e, q) ==
  /\ Linked(e, q) /\ Proper(e.pos) /\ Playable(e.pos, e.move)
  /\ e.check = GivesCheck(e.pos, e.move)

Chained == \A j \in 1..Len(stack) : Played(stack[j], Later(j))

IInv ==
  /\ start \in Starts /\ Proper(pos) /\ KeyExact
  /\ \E S : stack \in Seq(S)
  /\ Chained

\* A game begins with a position of its own key and nothing to take back.
LEMMA Begins == Init => IInv
<1> SUFFICES ASSUME Init PROVE IInv
  OBVIOUS
<1>1. PICK s \in Starts : FromFen(s.fen) /\ IsLegal(s.fen) /\ start = s /\ pos = s.fen /\ key = PosKey(s.fen) /\ stack = <<>>
  BY DEF Init
<1>2. start \in Starts /\ Proper(pos) /\ KeyExact
  BY <1>1, StartsAssumption DEF Proper, Fit, KeyExact
<1>3. stack \in Seq({}) /\ Len(stack) = 0
  BY <1>1
<1> QED
  BY <1>2, <1>3 DEF IInv, Chained

\* The moves tried go to squares: gen_moves gives none else, and a list of moves has none.
LEMMA MovesOnBoard ==
  ASSUME IInv, NEW m \in Moves
  PROVE  To(m) \in Square
<1>1. CASE start.only = {}
  <2>1. m \in GenMoves(pos) /\ Fit(pos)
    BY <1>1 DEF Moves, IInv, Proper
  <2>2. m \in Us(pos, pos.turn) \X Square
    BY <2>1, GenMovesIs
  <2> QED
    BY <2>2 DEF To
<1>2. CASE start.only # {}
  <2>1. m \in Square \X Square
    BY <1>2, StartsAssumption DEF Moves, IInv
  <2> QED
    BY <2>1 DEF To
<1> QED
  BY <1>1, <1>2

\* The move made is the newest entry, and leads to the present position.
LEMMA MakeKeeps ==
  ASSUME IInv, NEW m \in Moves, Make(m)
  PROVE  IInv'
<1>0. Proper(pos) /\ To(m) \in Square /\ MoveIsPseudo(pos, m)
      /\ IF InCheck(pos, pos.turn) THEN PseudoIsLegalIncheck(pos, m) ELSE PseudoIsLegal(pos, m)
  BY MovesOnBoard DEF IInv, Make
<1>1. IsPosition(pos) /\ key = PosKey(pos) /\ Movable(pos, m)
  BY <1>0 DEF IInv, KeyExact, MoveIsPseudo, Movable, Proper, Fit
<1>2. pos' = After(pos, m) /\ key' = Toggled(key, MoveToggles(pos, m))
      /\ stack' = Append(stack, Entry(pos, key, m))
  BY DEF Make
<1>3. Proper(pos') /\ Playable(pos, m) /\ KeyExact' /\ start' \in Starts
  <2>1. Proper(After(pos, m)) /\ Playable(pos, m)
    BY <1>0, NextProper
  <2>2. PosKey(After(pos, m)) = Toggled(PosKey(pos), MoveToggles(pos, m))
    BY <1>1, NextKey
  <2> QED
    BY <1>1, <1>2, <2>1, <2>2 DEF KeyExact, IInv, Make
<1> PICK S : stack \in Seq(S)
  BY DEF IInv
<1> DEFINE e == Entry(pos, key, m)
           T == S \cup {e}
<1>4. /\ stack' \in Seq(T) /\ Len(stack') = Len(stack) + 1 /\ Len(stack) \in Nat
      /\ stack'[Len(stack) + 1] = e
      /\ \A j \in 1..Len(stack) : stack'[j] = stack[j]
  <2> HIDE DEF e
  <2>1. stack \in Seq(T) /\ e \in T
    OBVIOUS
  <2> HIDE DEF T
  <2> QED
    BY <1>2, <2>1 DEF e
<1>5. Played(e, pos')
  BY <1>0, <1>1, <1>2, <1>3 DEF Played, Linked, Entry
<1>6. e.pos = pos
  BY DEF Entry
<1>7. Chained'
  <2> SUFFICES ASSUME NEW j \in 1..Len(stack') PROVE Played(stack'[j], Later(j)')
    BY DEF Chained
  <2> HIDE DEF e, T
  <2>1. CASE j = Len(stack) + 1
    BY <1>4, <1>5, <2>1 DEF Later
  <2>2. CASE j # Len(stack) + 1
    <3>1. j \in 1..Len(stack) /\ stack'[j] = stack[j] /\ j # Len(stack')
      BY <1>4, <2>2
    <3>2. Later(j)' = Later(j)
      <4>1. Later(j)' = stack'[j + 1].pos
        BY <3>1 DEF Later
      <4>2. CASE j = Len(stack)
        BY <1>4, <1>6, <4>1, <4>2 DEF Later
      <4>3. CASE j # Len(stack)
        <5>1. j + 1 \in 1..Len(stack)
          BY <1>4, <3>1, <4>3
        <5> QED
          BY <1>4, <4>1, <4>3, <5>1 DEF Later
      <4> QED
        BY <4>2, <4>3
    <3>3. Played(stack[j], Later(j))
      BY <3>1 DEF IInv, Chained
    <3> QED
      BY <3>1, <3>2, <3>3
  <2> QED
    BY <2>1, <2>2
<1> QED
  BY <1>3, <1>4, <1>7 DEF IInv

\* What the newest entry says of a move taken back.
LEMMA UndoReturns ==
  ASSUME IInv, Undo
  PROVE  /\ Len(stack) \in Nat \ {0} /\ Played(stack[Len(stack)], pos)
         /\ pos' = stack[Len(stack)].pos /\ key' = stack[Len(stack)].lock
         /\ Last(stack) = stack[Len(stack)]
<1> DEFINE e == stack[Len(stack)]
<1>1. Last(stack) = e
  BY DEF Last
<1>2. Len(stack) \in Nat \ {0}
  BY DEF IInv, Undo
<1>3. Played(e, pos) /\ Linked(e, pos)
  <2>1. Played(e, Later(Len(stack)))
    BY <1>2 DEF IInv, Chained
  <2> QED
    BY <2>1 DEF Later, Played
<1>4. pos' = Undone(pos, e) /\ key' = Toggled(key, UndoToggles(pos, e))
  BY <1>1 DEF Undo
<1>5. key = PosKey(pos)
  BY DEF IInv, KeyExact
<1>6. e.lock = PosKey(e.pos)
  BY <1>3 DEF Linked
<1> HIDE DEF e
<1>7. pos' = e.pos /\ key' = e.lock
  BY <1>3, <1>4, <1>5, <1>6, PositionBack, KeyBack
<1> QED
  BY <1>1, <1>2, <1>3, <1>7 DEF e

\* The entries that remain are those of the game before it.
LEMMA UndoKeeps ==
  ASSUME IInv, Undo
  PROVE  IInv'
<1>1. /\ Len(stack) \in Nat \ {0} /\ Played(stack[Len(stack)], pos)
      /\ pos' = stack[Len(stack)].pos /\ key' = stack[Len(stack)].lock
  BY UndoReturns
<1>2. Proper(pos') /\ KeyExact' /\ start' \in Starts
  BY <1>1 DEF Played, Linked, KeyExact, IInv, Undo
<1> PICK S : stack \in Seq(S)
  BY DEF IInv
<1>3. stack' = SubSeq(stack, 1, Len(stack) - 1)
  BY DEF Undo, Front
<1>4. /\ stack' \in Seq(S) /\ Len(stack') = Len(stack) - 1
      /\ \A j \in 1..Len(stack') : stack'[j] = stack[j]
  <2> DEFINE n == Len(stack) - 1
  <2>1. n \in 0..Len(stack)
    BY <1>1
  <2>2. stack' = SubSeq(stack, 1, n)
    BY <1>3
  <2> HIDE DEF n
  <2>3. /\ SubSeq(stack, 1, n) \in Seq(S) /\ Len(SubSeq(stack, 1, n)) = n
        /\ \A j \in 1..n : SubSeq(stack, 1, n)[j] = stack[j]
    BY <2>1
  <2>4. stack' \in Seq(S) /\ Len(stack') = n /\ \A j \in 1..n : stack'[j] = stack[j]
    BY <2>2, <2>3
  <2> QED
    BY <2>4 DEF n
<1>5. Chained'
  <2> SUFFICES ASSUME NEW j \in 1..Len(stack') PROVE Played(stack'[j], Later(j)')
    BY DEF Chained
  <2>1. j \in 1..Len(stack) /\ j # Len(stack) /\ stack'[j] = stack[j]
    BY <1>1, <1>4
  <2>2. Later(j)' = Later(j)
    <3>1. Later(j) = stack[j + 1].pos
      BY <2>1 DEF Later
    <3>2. CASE j = Len(stack')
      <4>1. j + 1 = Len(stack)
        BY <1>1, <1>4, <3>2
      <4> QED
        BY <1>1, <3>1, <3>2, <4>1 DEF Later
    <3>3. CASE j # Len(stack')
      <4>1. j + 1 \in 1..Len(stack')
        BY <1>1, <1>4, <3>3
      <4> QED
        BY <1>4, <3>1, <3>3, <4>1 DEF Later
    <3> QED
      BY <3>2, <3>3
  <2>3. Played(stack[j], Later(j))
    BY <2>1 DEF IInv, Chained
  <2> QED
    BY <2>1, <2>2, <2>3
<1> QED
  BY <1>2, <1>4, <1>5 DEF IInv

\* Every step of a game keeps the invariant.
LEMMA StepKeeps == IInv /\ [Next]_vars => IInv'
<1> SUFFICES ASSUME IInv, [Next]_vars PROVE IInv'
  OBVIOUS
<1>1. CASE Next
  BY <1>1, MakeKeeps, UndoKeeps DEF Next
<1>2. CASE UNCHANGED vars
  BY <1>2 DEF vars, IInv, KeyExact, Chained, Later
<1> QED
  BY <1>1, <1>2

\* Every entry of the stack is the move that led from its position to the next one,
\* in every game: IInv holds.
THEOREM GamesChained == Spec => []IInv
BY Begins, StepKeeps, PTL DEF Spec

\* The key that move_do and move_undo keep up is that of the position, whatever is
\* played and taken back, from any position.
THEOREM KeyAlwaysExact == Spec => []KeyExact
<1>1. IInv => KeyExact
  BY DEF IInv
<1> QED
  BY <1>1, GamesChained, PTL

\* gen_legals gives the moves of the rules, its two tests being a look at the position
\* after the move, and a position that is played stays a legal one, in every game.
THEOREM MovesAlwaysExact == Spec => []LegalExact
<1>1. IInv => LegalExact
  BY GenLegalsIs DEF IInv, LegalExact, Proper, Fit
<1> QED
  BY <1>1, GamesChained, PTL

\* move_undo brings back the position and the key from before the move: taking back is
\* the inverse of making, for every move from every position.
THEOREM MovesTakenBack == Spec => TakesBack
<1>1. IInv /\ [Next]_vars =>
        [Len(stack') < Len(stack) => pos' = Last(stack).pos /\ key' = Last(stack).lock]_vars
  <2> SUFFICES ASSUME IInv, Next, Len(stack') < Len(stack)
               PROVE  pos' = Last(stack).pos /\ key' = Last(stack).lock
    BY DEF vars
  <2>1. CASE Undo
    BY <2>1, UndoReturns
  <2>2. ASSUME NEW m, Make(m) PROVE FALSE
    <3> PICK S : stack \in Seq(S)
      BY DEF IInv
    <3> DEFINE e == Entry(pos, key, m)
               T == S \cup {e}
    <3>1. stack' = Append(stack, e)
      BY <2>2 DEF Make
    <3> HIDE DEF e
    <3>2. stack \in Seq(T) /\ e \in T
      OBVIOUS
    <3> HIDE DEF T
    <3>3. Len(stack') = Len(stack) + 1 /\ Len(stack) \in Nat
      BY <3>1, <3>2
    <3> QED
      BY <3>3
  <2> QED
    BY <2>1, <2>2 DEF Next
<1> QED
  BY <1>1, GamesChained, PTL DEF Spec, TakesBack

\* The positions of the game are told apart by their keys, ...
RecurrenceKnown == \A j \in 1..Len(stack) : stack[j].lock = key <=> stack[j].pos = pos

\* ... and rep_check judges nobody unless the present position has occurred before,
\* with the same side to move and no capture since.
JudgedWhenRepeated ==
  Verdict(pos, key, stack) # "none" =>
    \E j \in Mine(stack, 1) :
      stack[j].pos = pos /\ \A i \in j..Len(stack) : stack[i].cap = None

\* rep_check, which compares keys kept move by move, finds the occurrences of the
\* position and no others (keys are sets of features here, so that two do not collide).
THEOREM RecurrenceAlwaysKnown == Spec => []RecurrenceKnown
<1>1. IInv => RecurrenceKnown
  <2> SUFFICES ASSUME IInv, NEW j \in 1..Len(stack)
               PROVE  stack[j].lock = key <=> stack[j].pos = pos
    BY DEF RecurrenceKnown
  <2>1. IsPosition(stack[j].pos) /\ stack[j].lock = PosKey(stack[j].pos)
    BY DEF IInv, Chained, Played, Linked
  <2>2. IsPosition(pos) /\ key = PosKey(pos)
    BY DEF IInv, KeyExact, Proper, Fit
  <2> QED
    BY <2>1, <2>2, KeyTells
<1> QED
  BY <1>1, GamesChained, PTL

\* A verdict needs a repetition: no side is banned, and no game drawn, for the moves
\* that led to a position that is new.
THEOREM OnlyRepetitionsJudged == Spec => []JudgedWhenRepeated
<1>1. RecurrenceKnown => JudgedWhenRepeated
  <2> SUFFICES ASSUME RecurrenceKnown, Verdict(pos, key, stack) # "none"
               PROVE  \E j \in Mine(stack, 1) :
                        stack[j].pos = pos /\ \A i \in j..Len(stack) : stack[i].cap = None
    BY DEF JudgedWhenRepeated
  <2> DEFINE quiet(i) == \A j \in i..Len(stack) : stack[j].cap = None
             recurs == {i \in Mine(stack, 1) : quiet(i) /\ stack[i].lock = key}
             nth == {i \in recurs : Cardinality({r \in recurs : r >= i}) = 1}
  <2>1. nth # {}
    BY DEF Verdict, RepCheck
  <2>2. PICK j \in Mine(stack, 1) : quiet(j) /\ stack[j].lock = key
    BY <2>1
  <2>3. Mine(stack, 1) \subseteq 1..(Len(stack) - 1)
    BY DEF Mine
  <2>4. stack[j].pos = pos
    BY <2>2, <2>3 DEF RecurrenceKnown
  <2> QED
    BY <2>2, <2>4
<1> QED
  BY <1>1, RecurrenceAlwaysKnown, PTL

\* The flag of an entry is that of the position its move led to.
LEMMA FlagTold ==
  ASSUME IInv, NEW j \in 1..Len(stack)
  PROVE  /\ Proper(Later(j)) /\ Linked(stack[j], Later(j))
         /\ stack[j].check = InCheck(Later(j), Later(j).turn)
<1> DEFINE e == stack[j]
           q == Later(j)
<1>1. Played(e, q)
  BY DEF IInv, Chained
<1>2. Proper(q)
  <2>1. CASE j = Len(stack)
    BY <2>1 DEF Later, IInv
  <2>2. CASE j # Len(stack)
    <3>1. Len(stack) \in Nat
      BY DEF IInv
    <3>2. j + 1 \in 1..Len(stack)
      BY <2>2, <3>1
    <3>3. Played(stack[j + 1], Later(j + 1))
      BY <3>2 DEF IInv, Chained
    <3> QED
      BY <2>2, <3>3 DEF Later, Played
  <2> QED
    BY <2>1, <2>2
<1>3. q = After(e.pos, e.move) /\ Playable(e.pos, e.move) /\ Proper(e.pos) /\ e.check = GivesCheck(e.pos, e.move)
      /\ Linked(e, q)
  BY <1>1 DEF Played, Linked
<1> HIDE DEF e, q
<1>4. ~Exposed(e.pos, Opp(e.pos.turn)) /\ ~KingsFace(q)
  BY <1>2, <1>3, ProperIs
<1>5. GivesCheck(e.pos, e.move) <=> InCheck(q, q.turn)
  <2>1. q.turn = Opp(e.pos.turn)
    BY <1>3 DEF After
  <2>2. GivesCheck(e.pos, e.move) <=> InCheck(After(e.pos, e.move), Opp(e.pos.turn))
    BY <1>3, <1>4, GivesCheckIs
  <2> QED
    BY <1>3, <2>1, <2>2
<1>6. GivesCheck(e.pos, e.move) \in BOOLEAN
  BY DEF GivesCheck
<1>7. InCheck(q, q.turn) \in BOOLEAN
  BY DEF InCheck
<1> QED
  BY <1>2, <1>3, <1>5, <1>6, <1>7 DEF e, q

\* The flag that gives_check puts on the stack, asked of the lines and legs a move
\* touches, is whether the king is in check after it, in every game.
THEOREM ChecksAlwaysKept == Spec => []CheckKept
<1>1. IInv => CheckKept
  <2> SUFFICES ASSUME IInv, stack # <<>> PROVE Last(stack).check = InCheck(pos, pos.turn)
    BY DEF CheckKept
  <2>1. Len(stack) \in 1..Len(stack)
    BY DEF IInv
  <2>2. stack[Len(stack)].check = InCheck(Later(Len(stack)), Later(Len(stack)).turn)
    BY <2>1, FlagTold
  <2> QED
    BY <2>2 DEF Later, Last
<1> QED
  BY <1>1, GamesChained, PTL

-----------------------------------------------------------------------------
(* The verdict on a repetition *)

\* Two moves, one of each side, do not lead back to a position.
LEMMA NoQuickReturn ==
  ASSUME NEW d, NEW e, NEW q, NEW r, Linked(d, q), Linked(e, r), e.pos = q
  PROVE  r # d.pos
<1> SUFFICES ASSUME r = d.pos PROVE FALSE
  OBVIOUS
<1> DEFINE f == From(d.move)
           t == To(e.move)
<1>1. /\ f \in Occ(d.pos) /\ Occ(q) = (Occ(d.pos) \ {f}) \cup {To(d.move)} /\ f # To(d.move)
      /\ q.turn = Opp(d.pos.turn)
  BY NextBoard DEF Linked
<1>2. /\ Occ(d.pos) = (Occ(q) \ {From(e.move)}) \cup {t}
      /\ d.pos.board[t] = q.board[From(e.move)]
  BY NextBoard DEF Linked
<1>3. ColorOf(d.pos.board[f]) = d.pos.turn /\ ColorOf(q.board[From(e.move)]) = q.turn
  BY DEF Linked, Movable, Us
<1>4. Opp(d.pos.turn) # d.pos.turn
  BY ColorsAre DEF Linked, IsPosition, Color
<1> HIDE DEF f, t
<1>5. f = t
  BY <1>1, <1>2
<1> QED BY <1>1, <1>2, <1>3, <1>4, <1>5

\* The greatest of a set of indices, and the only one with one of them from it on.
LEMMA GreatestIn ==
  ASSUME NEW n \in Nat, NEW S \in SUBSET (1..n), S # {}
  PROVE  /\ Max(S) \in S /\ \A x \in S : Max(S) >= x
         /\ {i \in S : Cardinality({r \in S : r >= i}) = 1} = {Max(S)}
<1> DEFINE U == {n - x : x \in S}
<1>1. U \in SUBSET Nat /\ U # {}
  OBVIOUS
<1>2. PICK u \in U : \A y \in U : u <= y
  <2> HIDE DEF U
  <2> QED BY <1>1, SmallestIn
<1>3. PICK g \in S : u = n - g
  OBVIOUS
<1>4. \A x \in S : g >= x
  <2> TAKE x \in S
  <2>1. n - g <= n - x
    BY <1>2, <1>3
  <2> QED BY <2>1
<1> DEFINE M == Max(S)
<1>5. M \in S /\ \A x \in S : M >= x
  BY <1>4 DEF Max
<1> DEFINE From0(i) == {r \in S : r >= i}
<1>6. From0(M) = {M}
  <2>0. \A r \in S : r \in Int
    OBVIOUS
  <2> HIDE DEF M
  <2>1. M \in S /\ M \in Int /\ \A r \in S : M >= r
    BY <1>5, <2>0
  <2>2. \A r : r \in From0(M) <=> r \in S /\ r >= M
    OBVIOUS
  <2> HIDE DEF From0
  <2>3. \A r \in S : r >= M <=> r = M
    BY <2>0, <2>1
  <2>4. \A r : r \in From0(M) <=> r = M
    BY <2>1, <2>2, <2>3
  <2> QED BY <2>4
<1>7. ASSUME NEW i \in S PROVE Cardinality(From0(i)) = 1 <=> i = M
  <2>1. IsFiniteSet(1..n)
    <3>1. 1 \in Int /\ n \in Int
      OBVIOUS
    <3> QED BY <3>1, FS_Interval, Zenon
  <2>2. IsFiniteSet(From0(i))
    BY <2>1, FS_Subset
  <2>3. i \in From0(i) /\ M \in From0(i)
    BY <1>5, <1>7
  <2> HIDE DEF From0, M
  <2>4. Cardinality(From0(i)) = 1 => \E x : From0(i) = {x}
    BY <2>2, FS_Singleton
  <2>5. Cardinality(From0(i)) = 1 => i = M
    BY <2>3, <2>4
  <2>6. i = M => Cardinality(From0(i)) = 1
    BY <1>6, FS_Singleton
  <2> QED BY <2>5, <2>6
<1>8. {i \in S : Cardinality(From0(i)) = 1} = {M}
  <2> HIDE DEF From0, M
  <2> QED BY <1>5, <1>7
<1> QED BY <1>5, <1>8

\* The rules of chasing ban one side or make a draw.
LEMMA ChaseJudges ==
  ASSUME NEW p, NEW k, NEW s
  PROVE  ChaseVerdict(p, k, s, CheckMoveCatch(p, k, s)) \in {"me", "opp", "draw"}
<1> DEFINE moving == CheckMoveCatch(p, k, s)
           flag == CheckStaticCatch(p, k, s, moving)
<1>1. moving \subseteq {"me", "opp"}
  BY DEF CheckMoveCatch
<1> HIDE DEF moving
<1>2. \A caught : Weighed(moving, caught) \subseteq {"me", "opp"}
  BY <1>1 DEF Weighed
<1>3. flag \subseteq {"me", "opp"}
  BY <1>2 DEF CheckStaticCatch
<1> HIDE DEF flag
<1>4. Cardinality(flag) = 1 => flag # {}
  BY FS_EmptySet
<1>5. ChaseVerdict(p, k, s, moving) = IF moving = {"me", "opp"} \/ Cardinality(flag) # 1 THEN "draw" ELSE CHOOSE side \in flag : TRUE
  BY DEF ChaseVerdict, flag
<1>6. flag # {} => (CHOOSE side \in flag : TRUE) \in flag
  OBVIOUS
<1> QED BY <1>3, <1>4, <1>5, <1>6 DEF moving

\* The occurrences of the present position, with the same side to move and no capture
\* since, and the moves made since the latest of them.
Occurrences ==
  {j \in Mine(stack, 1) : stack[j].pos = pos /\ \A i \in j..Len(stack) : stack[i].cap = None}
AllCheck(moves) == \A j \in moves : InCheck(Later(j), Later(j).turn)

\* rep_check judges every repetition and nothing else; a side that gave check with
\* every move of the cycle is banned, unless both did, which draws.
ChecksJudged ==
  LET begin == Max(Occurrences)
      mine == AllCheck(Mine(stack, begin))
      theirs == AllCheck(Theirs(stack, begin))
      verdict == Verdict(pos, key, stack)
  IN IF Occurrences = {} THEN verdict = "none"
     ELSE /\ verdict # "none"
          /\ mine /\ theirs => verdict = "draw"
          /\ mine /\ ~theirs => verdict = "me"
          /\ ~mine /\ theirs => verdict = "opp"

\* In every game that is chained, rep_check judges the checks.
LEMMA JudgesChecks == IInv => ChecksJudged
<1> SUFFICES ASSUME IInv PROVE ChecksJudged
  OBVIOUS
<1> DEFINE n == Len(stack)
           begin == Max(Occurrences)
           verdict == Verdict(pos, key, stack)
<1>1. n \in Nat
  BY DEF IInv
<1>2. Mine(stack, 1) = {j \in 1..(n - 1) : (n - j) % 2 = 1}
  BY DEF Mine
<1>3. \A j \in 1..n : Proper(Later(j)) /\ Linked(stack[j], Later(j)) /\ stack[j].check = InCheck(Later(j), Later(j).turn)
  BY FlagTold
<1>4. \A j \in 1..n : stack[j].lock = key <=> stack[j].pos = pos
  <2> TAKE j \in 1..n
  <2>1. IsPosition(stack[j].pos) /\ stack[j].lock = PosKey(stack[j].pos)
    BY <1>3 DEF Linked
  <2>2. IsPosition(pos) /\ key = PosKey(pos)
    BY DEF IInv, KeyExact, Proper, Fit
  <2> QED
    BY <2>1, <2>2, KeyTells
<1> DEFINE quiet(i) == \A j \in i..n : stack[j].cap = None
           recurs == {i \in Mine(stack, 1) : quiet(i) /\ stack[i].lock = key}
           nth == {i \in recurs : Cardinality({r \in recurs : r >= i}) = 1}
           first == CHOOSE i \in nth : TRUE
           meCheck == \A j \in Mine(stack, first) : stack[j].check
           oppCheck == \A j \in Theirs(stack, first) : stack[j].check
<1>5. recurs = Occurrences
  BY <1>1, <1>2, <1>4 DEF Occurrences
<1>6. Occurrences \subseteq 1..(n - 1)
  BY <1>2 DEF Occurrences
<1>7. verdict = IF n < 4 \/ nth = {} THEN "none"
                ELSE CASE meCheck /\ ~oppCheck -> "me"
                       [] ~meCheck /\ oppCheck -> "opp"
                       [] meCheck /\ oppCheck -> "draw"
                       [] OTHER -> ChaseVerdict(pos, key, stack, CheckMoveCatch(pos, key, stack))
  BY DEF Verdict, RepCheck
<1>8. ChaseVerdict(pos, key, stack, CheckMoveCatch(pos, key, stack)) \in {"me", "opp", "draw"}
  BY ChaseJudges
<1>9. CASE Occurrences = {}
  <2>1. nth = {}
    BY <1>5, <1>9
  <2>2. verdict = "none"
    <3> HIDE DEF verdict, nth, n, first, meCheck, oppCheck
    <3> QED BY <1>7, <2>1
  <2> QED BY <1>9, <2>2 DEF ChecksJudged
<1>10. CASE Occurrences # {}
  <2>1. begin \in Occurrences /\ nth = {begin}
    <3>1. Occurrences \in SUBSET (1..n)
      BY <1>1, <1>6
    <3>2. /\ begin \in Occurrences
          /\ {i \in Occurrences : Cardinality({r \in Occurrences : r >= i}) = 1} = {begin}
      BY <1>1, <1>10, <3>1, GreatestIn
    <3>3. nth = {i \in Occurrences : Cardinality({r \in Occurrences : r >= i}) = 1}
      <4>1. \A R : R = Occurrences => {i \in R : Cardinality({r \in R : r >= i}) = 1} = {i \in Occurrences : Cardinality({r \in Occurrences : r >= i}) = 1}
        OBVIOUS
      <4> HIDE DEF recurs
      <4> QED BY <1>5, <4>1
    <3> QED BY <3>2, <3>3
  <2>2. begin \in 1..(n - 1) /\ (n - begin) % 2 = 1 /\ stack[begin].pos = pos
    BY <1>2, <2>1 DEF Occurrences
  <2>3. n >= 4
    <3> SUFFICES ASSUME n < 4 PROVE FALSE
      BY <1>1
    <3> HIDE DEF begin
    <3>1. n = begin + 1
      BY <1>1, <2>2
    <3>2. Linked(stack[begin], Later(begin)) /\ Linked(stack[n], Later(n))
      BY <1>1, <1>3, <2>2
    <3>3. Later(n) = pos /\ Later(begin) = stack[n].pos
      BY <1>1, <3>1 DEF Later
    <3> QED BY <2>2, <3>2, <3>3, NoQuickReturn
  <2>4. first = begin
    <3> HIDE DEF begin, nth
    <3> QED BY <2>1
  <2>5. Mine(stack, begin) \subseteq 1..n /\ Theirs(stack, begin) \subseteq 1..n
    <3> HIDE DEF begin
    <3>1. Mine(stack, begin) \subseteq begin..(n - 1)
      BY DEF Mine
    <3>2. Theirs(stack, begin) = {j + 1 : j \in Mine(stack, begin)}
      BY DEF Theirs
    <3> QED BY <1>1, <2>2, <3>1, <3>2
  <2>6. /\ meCheck <=> AllCheck(Mine(stack, begin))
        /\ oppCheck <=> AllCheck(Theirs(stack, begin))
    <3>1. /\ meCheck <=> \A j \in Mine(stack, begin) : stack[j].check
          /\ oppCheck <=> \A j \in Theirs(stack, begin) : stack[j].check
      <4> HIDE DEF begin, nth, first
      <4> QED BY <2>4
    <3>2. \A S \in SUBSET (1..n) : (\A j \in S : stack[j].check) <=> AllCheck(S)
      BY <1>3 DEF AllCheck
    <3> HIDE DEF begin, meCheck, oppCheck
    <3> QED BY <2>5, <3>1, <3>2
  <2>7. nth # {} /\ ~(n < 4)
    <3>1. ~(n < 4)
      BY <1>1, <2>3
    <3> HIDE DEF nth, begin, n
    <3> QED BY <2>1, <3>1
  <2>8. ChecksJudged <=>
          /\ verdict # "none"
          /\ AllCheck(Mine(stack, begin)) /\ AllCheck(Theirs(stack, begin)) => verdict = "draw"
          /\ AllCheck(Mine(stack, begin)) /\ ~AllCheck(Theirs(stack, begin)) => verdict = "me"
          /\ ~AllCheck(Mine(stack, begin)) /\ AllCheck(Theirs(stack, begin)) => verdict = "opp"
    BY <1>10 DEF ChecksJudged
  <2> HIDE DEF verdict, nth, n, begin, meCheck, oppCheck
  <2>9. verdict = CASE meCheck /\ ~oppCheck -> "me"
                       [] ~meCheck /\ oppCheck -> "opp"
                       [] meCheck /\ oppCheck -> "draw"
                       [] OTHER -> ChaseVerdict(pos, key, stack, CheckMoveCatch(pos, key, stack))
    BY <1>7, <2>7
  <2> QED BY <1>8, <2>6, <2>8, <2>9
<1> QED BY <1>9, <1>10

\* A position that occurs again is judged, and one that is new is not; a perpetual
\* check loses whatever else was chased, and two of them draw.
THEOREM PerpetualChecksJudged == Spec => []ChecksJudged
BY JudgesChecks, GamesChained, PTL
=============================================================================
