--------------------------- MODULE ChessSanitizer ---------------------------
(***************************************************************************)
(* sanitize_xfen of src/extensions/cboard/cboard.cpp: what a FEN has to     *)
(* satisfy to enter the database, and the form its castling and en passant  *)
(* fields are given.  Move generation counts on what it rejects.            *)
(***************************************************************************)
EXTENDS ChessPlay

Over(n, limit) == IF n > limit THEN n - limit ELSE 0

\* Each piece beyond the initial set takes a pawn.
Promoted(fen, c) ==
  LET count(type) == Cardinality(Pieces(fen, {type}, c))
      light == {s \in Pieces(fen, {"b"}, c) : IsLight(s)}
      dark == Pieces(fen, {"b"}, c) \ light
  IN Over(count("q"), 1) + Over(count("r"), 2) + Over(count("n"), 2)
     + Over(Cardinality(light), 1) + Over(Cardinality(dark), 1)

\* With at most 8 promoted pieces the limits for each type follow.
PlacementOK(fen, c) ==
  LET pawns == Pieces(fen, {"p"}, c)
  IN /\ \A s \in pawns : RankOf(s) \notin {0, 7}
     /\ Cardinality(Pieces(fen, {"k"}, c)) = 1
     /\ Cardinality(Us(fen, c)) <= 16
     /\ Promoted(fen, c) <= 8 - Cardinality(pawns)

-----------------------------------------------------------------------------
(* Checks that no game brings about *)

LinesOf(s) == <<FileOf(s), RankOf(s), DiagonalOf(s), AntidiagonalOf(s)>>
Aligned3(a, k, b) ==
  \E i \in 1..4 : LinesOf(a)[i] = LinesOf(k)[i] /\ LinesOf(k)[i] = LinesOf(b)[i]

\* The attackers of the king of color c, on its diagonals and on its lines.
OnDiagonals(fen, c) ==
  BishopAttacks(KingSq(fen, c), Occ(fen)) \cap Pieces(fen, {"b", "q"}, Other(c))
OnLines(fen, c) ==
  RookAttacks(KingSq(fen, c), Occ(fen)) \cap Pieces(fen, {"r", "q"}, Other(c))
ByPawn(fen, c) == PawnAttacks[c][KingSq(fen, c)] \cap Pieces(fen, {"p"}, Other(c))
ByKnight(fen, c) == KnightAttacks[KingSq(fen, c)] \cap Pieces(fen, {"n"}, Other(c))
Checkers(fen, c) == OnDiagonals(fen, c) \cup OnLines(fen, c) \cup ByPawn(fen, c) \cup ByKnight(fen, c)

\* Mutant: two checks along lines are never accepted.
NeverByPromotion(fen, c) == FALSE

\* A pawn that takes, promotes beside the king and leaves its file open.
ByPromotion(fen, c) ==
  /\ Cardinality(Pieces(fen, {"p"}, Other(c))) <= 7
  /\ Cardinality(Us(fen, c)) <= 15
  /\ \E s \in KingAttacks[KingSq(fen, c)] \cap OnLines(fen, c) : BackRank(s, c)

ChecksOK(fen, c) ==
  LET checkers == Checkers(fen, c)
  IN /\ KingAttacks[KingSq(fen, c)] \cap Pieces(fen, {"k"}, Other(c)) = {}
     /\ Cardinality(ByPawn(fen, c) \cup ByKnight(fen, c)) <= 1
     /\ Cardinality(ByPawn(fen, c) \cup OnDiagonals(fen, c)) <= 1
     /\ Cardinality(OnLines(fen, c)) > 1 => ByPromotion(fen, c)
     /\ c # fen.stm => checkers = {}
     /\ Cardinality(checkers) <= 2
     /\ \A a, b \in checkers : a # b => ~Aligned3(a, KingSq(fen, c), b)

-----------------------------------------------------------------------------
(* Castling *)

HomeFile(fen, c) == IF BackRank(KingSq(fen, c), c) THEN FileOf(KingSq(fen, c)) ELSE -1
HomeRooks(fen, c) == {FileOf(s) : s \in {s \in Pieces(fen, {"r"}, c) : BackRank(s, c)}}

\* The tokens that are generic or name a rook at home.
Kept(fen) == {token \in fen.cr : IsLetter(token) => token[3] \in HomeRooks(fen, token[1])}

\* The files of the rooks on one wing of a king at home.
Wing(fen, c, side) ==
  LET king == HomeFile(fen, c)
  IN {f \in HomeRooks(fen, c) : king >= 0 /\ f # king /\ ClosestSide(f, king) = side}

\* The tokens one wing is given: the outermost rook gets the generic one.
Emitted(fen, c, side) ==
  LET wing == Wing(fen, c, side)
      requested == {f \in wing : Letter(c, f) \in Kept(fen)}
      outermost == IF side = "king" THEN Max(wing) ELSE Min(wing)
  IN IF wing = {} THEN {}
     ELSE (IF <<c, side>> \in Kept(fen) \/ outermost \in requested THEN {<<c, side>>} ELSE {})
          \cup {Letter(c, f) : f \in requested \ {outermost}}

Castling(fen) == UNION {Emitted(fen, right[1], right[2]) : right \in Right}
CastlingOK(fen) == \A right \in Right : Cardinality(Emitted(fen, right[1], right[2])) <= 1

CornerOK(fen, right) ==
  HomeFile(fen, right[1]) = 4 /\ Corner(right[2]) \in HomeRooks(fen, right[1])

\* The values implied960 may have: when every token is a letter without a rook
\* the function returns before it is set.
Implied960(fen) ==
  IF fen.cr # {} /\ Kept(fen) = {} THEN BOOLEAN
  ELSE {\/ \E token \in Castling(fen) : IsLetter(token)
        \/ \E right \in Kept(fen) \cap Right : HomeFile(fen, right[1]) # 4
        \/ \E right \in Castling(fen) \cap Right : ~CornerOK(fen, right)}

-----------------------------------------------------------------------------
(* En passant *)

\* A pawn that was just pushed twice can have passed ep.
EpPossible(fen) ==
  LET from == IF RankOf(fen.ep) = 5 THEN fen.ep + 8 ELSE fen.ep - 8
  IN /\ fen.ep # NoSq
     /\ RankOf(fen.ep) = RelRank(5, fen.stm)
     /\ from \notin Occ(fen)
     /\ EpSquare(fen.ep) \in Pieces(fen, {"p"}, Other(fen.stm))

\* It gave a check itself or opened a line: there was none before the push.
PushOK(fen) ==
  LET pawn == EpSquare(fen.ep)
      from == IF RankOf(fen.ep) = 5 THEN fen.ep + 8 ELSE fen.ep - 8
      king == KingSq(fen, fen.stm)
      opp(types) == Pieces(fen, types, Other(fen.stm))
      seen(occ) == (RookAttacks(king, occ) \cap opp({"r", "q"}))
                   \cup (BishopAttacks(king, occ) \cap opp({"b", "q"}))
      before == ByKnight(fen, fen.stm) \cup ByPawn(fen, fen.stm)
                \cup seen((Occ(fen) \ {pawn}) \cup {from})
      pushed(checkers) == Cardinality(checkers) <= 1 /\ (pawn \in checkers \/ before = {})
  IN pushed(Checkers(fen, fen.stm))

EpKept(fen) == EpPossible(fen) /\ BoardOf([fen EXCEPT !.cr = {}], FALSE).ep = fen.ep

-----------------------------------------------------------------------------

Accepted(fen) ==
  /\ \A c \in Color : PlacementOK(fen, c)
  /\ \A c \in Color : ChecksOK(fen, c)
  /\ CastlingOK(fen)
  /\ EpPossible(fen) => PushOK(fen)

Sanitized(fen) ==
  [fen EXCEPT !.cr = Castling(fen), !.ep = IF EpKept(fen) THEN fen.ep ELSE NoSq]
=============================================================================
