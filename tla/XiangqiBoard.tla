---------------------------- MODULE XiangqiBoard ----------------------------
(***************************************************************************)
(* Squares, pieces, attacks and positions of the xiangqi library behind the *)
(* ccboard and ccegtbprobe extensions (src/extensions/ccboard/xiangqi.h and *)
(* xiangqi.cpp).                                                             *)
(*                                                                         *)
(* A BITBOARD is the set of its squares; its halves are the squares below   *)
(* 45 (White's side of the river) and the others.  The tables that          *)
(* attack_init fills are the functions it fills them from.                  *)
(***************************************************************************)
EXTENDS Integers, Sequences, FiniteSets, FiniteSetsExt, Functions, TLC

White == 0
Black == 1
Color == {White, Black}
Opp(c) == 1 - c

File == 0..8
Rank == 0..9
Square == 0..89

FileOf(s) == s % 9
RankOf(s) == s \div 9
SquareAt(f, r) == 9 * r + f
SameRank(a, b) == RankOf(a) = RankOf(b)
SameFile(a, b) == FileOf(a) = FileOf(b)

\* The side of the river a square is on.
HalfOf(s) == IF s < 45 THEN White ELSE Black

FileMirror(s) == SquareAt(8 - FileOf(s), RankOf(s))
RankMirror(s) == SquareAt(FileOf(s), 9 - RankOf(s))

\* A square as the player of color c sees it.
Rel(s, c) == IF c = White THEN s ELSE RankMirror(s)

Type == {"k", "r", "n", "c", "a", "b", "p"}
Piece == Color \X Type
ColorOf(piece) == piece[1]
TypeOf(piece) == piece[2]

-----------------------------------------------------------------------------
(* Where the pieces of a color may stand *)

KingPos(c) == {s \in Square : FileOf(s) \in 3..5 /\ RankOf(Rel(s, c)) \in 0..2}
AdvisorPos(c) == {s \in KingPos(c) : (FileOf(s) + RankOf(Rel(s, c))) % 2 = 1}
BishopPos(c) ==
  {s \in Square : <<FileOf(s), RankOf(Rel(s, c))>> \in {2, 6} \X {0, 4} \cup {0, 4, 8} \X {2}}
PawnPos(c) ==
  {s \in Square : \/ RankOf(Rel(s, c)) >= 5
                  \/ RankOf(Rel(s, c)) \in {3, 4} /\ FileOf(s) % 2 = 0}

\* The tables by square, for both colors at once.
King_Pos == KingPos(White) \cup KingPos(Black)
Advisor_Pos == AdvisorPos(White) \cup AdvisorPos(Black)
Bishop_Pos == BishopPos(White) \cup BishopPos(Black)
PosOf == [type \in {"k", "a", "b", "p"} |-> [c \in Color |->
            CASE type = "k" -> KingPos(c) [] type = "a" -> AdvisorPos(c)
              [] type = "b" -> BishopPos(c) [] type = "p" -> PawnPos(c)]]
Within(s, type, c) == s \in PosOf[type][c]

-----------------------------------------------------------------------------
(* Attacks *)

RankSteps == {<<-1, 0>>, <<1, 0>>}
FileSteps == {<<0, -1>>, <<0, 1>>}
DiagonalSteps == {-1, 1} \X {-1, 1}
KnightSteps == ({-1, 1} \X {-2, 2}) \cup ({-2, 2} \X {-1, 1})

Jump(s, d) ==
  LET f == FileOf(s) + d[1]
      r == RankOf(s) + d[2]
  IN IF f \in File /\ r \in Rank THEN {SquareAt(f, r)} ELSE {}

Leaps(s, steps) == UNION {Jump(s, d) : d \in steps}

KingAtt == [s \in King_Pos |-> Leaps(s, RankSteps \cup FileSteps) \cap King_Pos]
AdvisorAtt == [s \in Advisor_Pos |-> Leaps(s, DiagonalSteps) \cap Advisor_Pos]

BishopAttNoMask ==
  [s \in Bishop_Pos |-> Leaps(s, {<<2 * d[1], 2 * d[2]>> : d \in DiagonalSteps}) \cap Bishop_Pos]
BishopAtt(s, occ) == {t \in BishopAttNoMask[s] : (s + t) \div 2 \notin occ}

KnightAttNoMask == [s \in Square |-> Leaps(s, KnightSteps)]

\* The square beside a knight on a that must be empty for it to go to b.
LegalLeg(a, b) ==
  IF RankOf(b) - RankOf(a) \in {-2, 2}
  THEN SquareAt(FileOf(a), (RankOf(a) + RankOf(b)) \div 2)
  ELSE SquareAt((FileOf(a) + FileOf(b)) \div 2, RankOf(a))

\* What a knight on s attacks, and from where knights attack s.
KnightAtt(s, occ) == {t \in KnightAttNoMask[s] : LegalLeg(s, t) \notin occ}
KnightAttd(s, occ) == {t \in KnightAttNoMask[s] : LegalLeg(t, s) \notin occ}

\* A square that can be the leg of a knight that attacks the king on k.
IsLegPos(s, k) == s - k \in {-10, -8, 8, 10}

\* A pawn goes forward and, beyond the river, to the sides.
PawnSteps(s, c) ==
  {<<0, IF c = White THEN 1 ELSE -1>>} \cup (IF HalfOf(s) = c THEN {} ELSE RankSteps)
PawnAtt == [c \in Color |-> [s \in Square |-> Leaps(s, PawnSteps(s, c))]]

\* pawn_attd is written down on its own: a step back, and sideways beyond the river.
PawnAttd ==
  [c \in Color |-> [s \in Square |->
     Jump(s, <<0, IF c = White THEN -1 ELSE 1>>)
     \cup (IF HalfOf(s) = c THEN {} ELSE Leaps(s, RankSteps))]]

\* The squares from s to the edge of the board in direction d.
Ray ==
  [s \in Square |-> [d \in RankSteps \cup FileSteps |->
     LET At(i) == Jump(s, <<i * d[1], i * d[2]>>)
         n == CHOOSE n \in 0..9 : At(n + 1) = {} /\ \A i \in 1..n : At(i) # {}
     IN [i \in 1..n |-> CHOOSE t \in At(i) : TRUE]]]

\* A rook sees a ray up to and with the first piece; a cannon sees what lies
\* behind the first, up to and with the second.
RookRay(ray, occ) ==
  LET hits == {i \in DOMAIN ray : ray[i] \in occ}
      stop == IF hits = {} THEN Len(ray) ELSE Min(hits)
  IN {ray[i] : i \in 1..stop}

CannonRay(ray, occ) ==
  LET hits == {i \in DOMAIN ray : ray[i] \in occ}
  IN IF hits = {} THEN {}
     ELSE LET screen == Min(hits)
              beyond == hits \ {screen}
              stop == IF beyond = {} THEN Len(ray) ELSE Min(beyond)
          IN {ray[i] : i \in (screen + 1)..stop}

RookLine(s, line, occ) == UNION {RookRay(Ray[s][d], occ) : d \in line}
CannonLine(s, line, occ) == UNION {CannonRay(Ray[s][d], occ) : d \in line}
RookAtt(s, occ) == RookLine(s, RankSteps \cup FileSteps, occ)
CannonAtt(s, occ) == CannonLine(s, RankSteps \cup FileSteps, occ)

\* The squares strictly between two on one rank or file.
Between(a, b) ==
  LET low == IF a < b THEN a ELSE b
      high == IF a < b THEN b ELSE a
  IN IF SameRank(a, b) THEN (low + 1)..(high - 1)
     ELSE {low + 9 * i : i \in 1..((high - low) \div 9 - 1)}

\* m lies strictly between a and b.
Mid(m, a, b) == (a < m /\ m < b) \/ (b < m /\ m < a)

-----------------------------------------------------------------------------
(* Positions *)

\* A position is a record of board (a function from the occupied squares to
\* the pieces: square, pieces and blockers of the struct) and turn.
IsPosition(p) ==
  /\ p = [board |-> p.board, turn |-> p.turn]
  /\ DOMAIN p.board \subseteq Square /\ p.board \in [DOMAIN p.board -> Piece] /\ p.turn \in Color

Occ(p) == DOMAIN p.board
Us(p, c) == {s \in Occ(p) : ColorOf(p.board[s]) = c}
Pieces(p, c, types) == {s \in Occ(p) : ColorOf(p.board[s]) = c /\ TypeOf(p.board[s]) \in types}
KingSq(p, c) == CHOOSE s \in Occ(p) : p.board[s] = <<c, "k">>
Number(p, piece) == Cardinality({s \in Occ(p) : p.board[s] = piece})

Holds(p, s, c, type) == s \in Occ(p) /\ p.board[s] = <<c, type>>

InCheck(p, me) ==
  LET k == KingSq(p, me)
      opp == Opp(me)
  IN \/ RookAtt(k, Occ(p)) \cap Pieces(p, opp, {"r"}) # {}
     \/ CannonAtt(k, Occ(p)) \cap Pieces(p, opp, {"c"}) # {}
     \/ KnightAttd(k, Occ(p)) \cap Pieces(p, opp, {"n"}) # {}
     \/ PawnAttd[opp][k] \cap Pieces(p, opp, {"p"}) # {}

KingsFace(p) ==
  LET white == KingSq(p, White)
      black == KingSq(p, Black)
  IN SameFile(white, black) /\ Between(white, black) \cap Occ(p) = {}

-----------------------------------------------------------------------------
(* Reading a FEN: the board and the turn it says *)

AtMost(type) == CASE type = "k" -> 1 [] type = "p" -> 5 [] OTHER -> 2

FromFen(fen) ==
  /\ \A piece \in Piece : Number(fen, piece) <= AtMost(TypeOf(piece))
  /\ \A s \in Occ(fen) : TypeOf(fen.board[s]) \in DOMAIN PosOf
                         => Within(s, TypeOf(fen.board[s]), ColorOf(fen.board[s]))
  /\ \A c \in Color : Number(fen, <<c, "k">>) = 1

\* No pawn has a pawn of its color before it on its own side of the river.
IsLegal(p) ==
  /\ ~KingsFace(p) /\ ~InCheck(p, Opp(p.turn))
  /\ \A c \in Color : \A s \in Pieces(p, c, {"p"}) :
       HalfOf(s) = c => {t \in PawnAtt[c][s] : HalfOf(t) = c} \cap Pieces(p, c, {"p"}) = {}
=============================================================================
