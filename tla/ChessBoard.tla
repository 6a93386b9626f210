----------------------------- MODULE ChessBoard -----------------------------
(***************************************************************************)
(* Squares, pieces, attacks and positions of the chess library the cboard  *)
(* extension is built on (src/extensions/cboard/chess.hpp).                 *)
(*                                                                         *)
(* A Bitboard is the set of its squares, so |, & and ~ are the operators on *)
(* sets, lsb is the least element and the magic tables are the functions   *)
(* they tabulate.  The three arrays of a Board that placePiece and          *)
(* removePiece change together (board_, pieces_bb_, occ_bb_) are one        *)
(* function from the occupied squares to their pieces.                     *)
(***************************************************************************)
EXTENDS Integers, Sequences, FiniteSets, FiniteSetsExt, Functions, TLC

White == 0
Black == 1
Color == {White, Black}
Other(c) == 1 - c

File == 0..7
NoFile == 8
Rank == 0..7
Square == 0..63
NoSq == 64

FileOf(s) == s % 8
RankOf(s) == s \div 8
SquareAt(f, r) == f + 8 * r
DiagonalOf(s) == 7 + RankOf(s) - FileOf(s)
AntidiagonalOf(s) == RankOf(s) + FileOf(s)
IsLight(s) == (FileOf(s) + RankOf(s)) % 2 = 1

\* A rank or a square as the player of color c sees it.
RelRank(r, c) == IF c = White THEN r ELSE 7 - r
RelSquare(s, c) == IF c = White THEN s ELSE SquareAt(FileOf(s), 7 - RankOf(s))
BackRank(s, c) == RankOf(s) = RelRank(0, c)

\* From the square behind a pawn that was pushed twice to the pawn, and back.
EpSquare(s) == IF RankOf(s) % 2 = 0 THEN s + 8 ELSE s - 8

Type == {"p", "n", "b", "r", "q", "k"}
Piece == Color \X Type
ColorOf(piece) == piece[1]
TypeOf(piece) == piece[2]

-----------------------------------------------------------------------------
(* Attacks *)

Step == ((-2..2) \X (-2..2)) \ {<<0, 0>>}
Orthogonal == {d \in Step : {d[1], d[2]} \in {{0, 1}, {0, -1}}}
Diagonal == {-1, 1} \X {-1, 1}

Size(n) == IF n < 0 THEN -n ELSE n

Jump(s, d) ==
  LET f == FileOf(s) + d[1]
      r == RankOf(s) + d[2]
  IN IF f \in File /\ r \in Rank THEN {SquareAt(f, r)} ELSE {}

Leaps(s, steps) == UNION {Jump(s, d) : d \in steps}

PawnSteps(c) == IF c = White THEN {<<-1, 1>>, <<1, 1>>} ELSE {<<-1, -1>>, <<1, -1>>}

PawnAttacks == [c \in Color |-> [s \in Square |-> Leaps(s, PawnSteps(c))]]

KnightAttacks ==
  [s \in Square |-> Leaps(s, {d \in Step : Size(d[1]) + Size(d[2]) = 3})]

KingAttacks == [s \in Square |-> Leaps(s, Orthogonal \cup Diagonal)]

\* The squares from s to the edge of the board in direction d.
Ray ==
  [s \in Square |-> [d \in Orthogonal \cup Diagonal |->
     LET At(i) == Jump(s, <<i * d[1], i * d[2]>>)
         n == CHOOSE n \in 0..7 : At(n + 1) = {} /\ \A i \in 1..n : At(i) # {}
     IN [i \in 1..n |-> CHOOSE t \in At(i) : TRUE]]]

\* A slider sees the squares of a ray up to and with the first occupied one.
Along(ray, occ) ==
  LET hits == {i \in DOMAIN ray : ray[i] \in occ}
      last == IF hits = {} THEN Len(ray) ELSE Min(hits)
  IN {ray[i] : i \in 1..last}

SliderAttacks(s, dirs, occ) == UNION {Along(Ray[s][d], occ) : d \in dirs}

BishopAttacks(s, occ) == SliderAttacks(s, Diagonal, occ)
RookAttacks(s, occ) == SliderAttacks(s, Orthogonal, occ)
QueenAttacks(s, occ) == BishopAttacks(s, occ) \cup RookAttacks(s, occ)

\* The squares from a (without it) to b (with it), if they are on one line;
\* otherwise b alone.
Between ==
  [a \in Square |-> [b \in Square |->
     {b} \cup UNION {Along(Ray[a][d], {b}) : d \in {e \in Orthogonal \cup Diagonal :
                                                b \in Range(Ray[a][e])}}]]

-----------------------------------------------------------------------------
(* Positions *)

\* A position is a record: board, stm (side to move), ep (the square behind a
\* pawn just pushed twice, or NoSq), frc (chess960_), cr (the file of the rook
\* of each castling right, or NoFile), path (castling_path: the squares that
\* have to be empty, worked out when the position is read).
Side == {"king", "queen"}
Right == Color \X Side
NoCastling == [x \in Right |-> NoFile]
NoPath == [x \in Right |-> {}]

KingSideIf(b) == IF b THEN "king" ELSE "queen"
ClosestSide(x, y) == KingSideIf(x > y)

Occ(p) == DOMAIN p.board
Us(p, c) == {s \in Occ(p) : ColorOf(p.board[s]) = c}
Pieces(p, types, c) ==
  {s \in Occ(p) : ColorOf(p.board[s]) = c /\ TypeOf(p.board[s]) \in types}
KingSq(p, c) == Min(Pieces(p, {"k"}, c))

\* The pieces of color c that attack s.
Attackers(p, c, s) ==
  LET Sees(types, bb) == bb \cap Pieces(p, types, c)
  IN Sees({"p"}, PawnAttacks[Other(c)][s]) \cup Sees({"n"}, KnightAttacks[s])
     \cup Sees({"b", "q"}, BishopAttacks(s, Occ(p)))
     \cup Sees({"r", "q"}, RookAttacks(s, Occ(p)))
     \cup Sees({"k"}, KingAttacks[s])

IsAttacked(p, s, c) == Attackers(p, c, s) # {}

InCheck(p) == IsAttacked(p, KingSq(p, p.stm), Other(p.stm))
=============================================================================
