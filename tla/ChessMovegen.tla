---------------------------- MODULE ChessMovegen ----------------------------
(***************************************************************************)
(* Move generation of src/extensions/cboard/chess.hpp: class movegen.       *)
(*                                                                         *)
(* Only legal moves are generated: a mask of the squares that meet a check, *)
(* masks of the lines pieces are pinned on, and the squares the opponent    *)
(* sees stand for making every move and looking at the king.                *)
(***************************************************************************)
EXTENDS ChessBoard

Move(from, to, kind, promo) == [from |-> from, to |-> to, kind |-> kind, promo |-> promo]
Normal(from, to) == Move(from, to, "normal", "n")
Promotions(from, to) == {Move(from, to, "promotion", t) : t \in {"q", "r", "b", "n"}}

-----------------------------------------------------------------------------
(* Masks *)

One(b) == IF b THEN 1 ELSE 0

\* The squares on which a move other than the king's meets the checks that these
\* pieces give the king on sq, and how many checks there are.
MetBy(sq, knights, pawns, bishops, rooks) ==
  LET several == Cardinality(rooks) > 1
      lines == (IF several THEN {bishops} ELSE {bishops, rooks}) \ {{}}
      met == knights \cup pawns \cup UNION {Between[sq][Min(bb)] : bb \in lines}
  IN [mask |-> IF met = {} /\ ~several THEN Square ELSE met,
      checks |-> IF several THEN 2
                 ELSE One(knights # {}) + One(pawns # {}) + One(bishops # {}) + One(rooks # {})]

CheckMask(p, c, sq) ==
  LET opp(types) == Pieces(p, types, Other(c))
  IN MetBy(sq, KnightAttacks[sq] \cap opp({"n"}), PawnAttacks[p.stm][sq] \cap opp({"p"}),
           BishopAttacks(sq, Occ(p)) \cap opp({"b", "q"}), RookAttacks(sq, Occ(p)) \cap opp({"r", "q"}))

\* The lines from sq to sliders that exactly one piece of color c interrupts.
PinMask(p, c, sq, dirs, types) ==
  LET snipers == SliderAttacks(sq, dirs, Us(p, Other(c))) \cap Pieces(p, types, Other(c))
      lines == {Between[sq][s] : s \in snipers}
  IN UNION {line \in lines : Cardinality(line \cap Us(p, c)) = 1}

PinHV(p, c) == PinMask(p, c, KingSq(p, c), Orthogonal, {"r", "q"})
PinD(p, c) == PinMask(p, c, KingSq(p, c), Diagonal, {"b", "q"})

\* The squares color c sees when the other king does not stand in the way.
SeenSquares(p, c, enemy_empty) ==
  LET king == KingSq(p, Other(c))
      occ == Occ(p) \ {king}
      from(types, Attacks(_)) == UNION {Attacks(s) : s \in Pieces(p, types, c)}
      Bishop(s) == BishopAttacks(s, occ)
      Rook(s) == RookAttacks(s, occ)
  IN IF KingAttacks[king] \cap enemy_empty = {} /\ ~p.frc
     THEN {}
     ELSE from({"p"}, LAMBDA s : PawnAttacks[c][s])
          \cup from({"n"}, LAMBDA s : KnightAttacks[s])
          \cup from({"b", "q"}, Bishop) \cup from({"r", "q"}, Rook)
          \cup KingAttacks[KingSq(p, c)]

-----------------------------------------------------------------------------
(* Pawns *)

\* Mutant: the rank is not looked along.
BaredNever(p, king, pawn, s) == FALSE

\* En passant takes two pawns off one rank: no pin shows that they hide the
\* king together.
Bared(p, king, pawn, s) ==
  /\ RankOf(king) = RankOf(pawn)
  /\ RookAttacks(king, SymDiff(Occ(p), {pawn, s}))
     \cap Pieces(p, {"r", "q"}, Other(ColorOf(p.board[king]))) # {}

\* When one pawn bares the king the next is not looked at.
EPMoves(p, checkmask, pin_d, pawns_lr, ep, c) ==
  LET pawn == IF c = White THEN ep - 8 ELSE ep + 8
      king == KingSq(p, c)
      from == {s \in PawnAttacks[Other(c)][ep] \cap pawns_lr : s \in pin_d => ep \in pin_d}
      stop == {s \in from : Bared(p, king, pawn, s)}
  IN IF checkmask \cap {pawn, ep} = {}
     THEN {}
     ELSE {Move(s, ep, "enpassant", "n") : s \in {s \in from : \A t \in stop : s < t}}

\* Where the pawn on s takes or goes: pinned on a line it does not take, on a
\* diagonal it does not go.
PawnTargets(p, s, c, pin_d, pin_hv, checkmask) ==
  LET up == IF c = White THEN 8 ELSE -8
      takes == {t \in PawnAttacks[c][s] \cap Us(p, Other(c)) :
                  s \notin pin_hv /\ (s \in pin_d => t \in pin_d)}
      push == {t \in {s + up} : t \notin Occ(p) /\ s \notin pin_d
                                /\ (s \in pin_hv => t \in pin_hv)}
      push2 == {t + up : t \in {t \in push : RankOf(t) = RelRank(2, c)}} \ Occ(p)
  IN (takes \cup push \cup push2) \cap checkmask

PawnMoves(p, c, pin_d, pin_hv, checkmask) ==
  LET pawns == Pieces(p, {"p"}, c)
      moves(s, t) == IF RankOf(t) = RelRank(7, c) THEN Promotions(s, t) ELSE {Normal(s, t)}
  IN (UNION {UNION {moves(s, t) : t \in PawnTargets(p, s, c, pin_d, pin_hv, checkmask)} : s \in pawns})
     \cup IF p.ep = NoSq THEN {}
          ELSE EPMoves(p, checkmask, pin_d, pawns \ pin_hv, p.ep, c)

\* What the constructor of a Board and makeMove ask before they keep p.ep.
IsEpSquareValid(p, ep) ==
  LET c == p.stm
      mask == CheckMask(p, c, KingSq(p, c)).mask
  IN EPMoves(p, mask, PinD(p, c), Pieces(p, {"p"}, c) \ PinHV(p, c), ep, c) # {}

-----------------------------------------------------------------------------
(* Pieces *)

BishopMoves(p, s, pin_d) ==
  BishopAttacks(s, Occ(p)) \cap (IF s \in pin_d THEN pin_d ELSE Square)

RookMoves(p, s, pin_hv) ==
  RookAttacks(s, Occ(p)) \cap (IF s \in pin_hv THEN pin_hv ELSE Square)

QueenMoves(p, s, pin_d, pin_hv) ==
  CASE s \in pin_d -> BishopAttacks(s, Occ(p)) \cap pin_d
    [] s \in pin_hv \ pin_d -> RookAttacks(s, Occ(p)) \cap pin_hv
    [] OTHER -> QueenAttacks(s, Occ(p))

\* Where castling takes king and rook.
KingTo(side, c) == RelSquare(IF side = "king" THEN 6 ELSE 2, c)
RookTo(side, c) == RelSquare(IF side = "king" THEN 5 ELSE 3, c)

\* The rooks the king can castle with.
CastleMoves(p, c, seen, pin_hv) ==
  LET king == KingSq(p, c)
      rook(side) == SquareAt(p.cr[<<c, side>>], RankOf(king))
  IN {rook(side) : side \in {side \in Side :
        /\ BackRank(king, c) /\ p.cr[<<c, side>>] # NoFile
        /\ Occ(p) \cap p.path[<<c, side>>] = {}
        /\ Between[king][KingTo(side, c)] \cap seen = {}
        /\ ~(p.frc /\ rook(side) \in pin_hv \cap Us(p, p.stm))}}

-----------------------------------------------------------------------------
(* Legal moves *)

\* The moves of c with the given masks: check, pins and what the other side sees.
MovesWithin(p, c, king, check, pin_hv, pin_d, seen) ==
  LET empty == Square \ Us(p, c)
      from(pieces, To(_)) ==
        UNION {{Normal(s, t) : t \in To(s) \cap empty \cap check.mask} : s \in pieces}
      Knight(s) == KnightAttacks[s]
      Bishop(s) == BishopMoves(p, s, pin_d)
      Rook(s) == RookMoves(p, s, pin_hv)
      Queen(s) == QueenMoves(p, s, pin_d, pin_hv)
      kingMoves == {Normal(king, t) : t \in (KingAttacks[king] \cap empty) \ seen}
      castling == IF check.checks # 0 THEN {}
                  ELSE {Move(king, t, "castling", "n") : t \in CastleMoves(p, c, seen, pin_hv)}
  IN kingMoves \cup castling \cup
     IF check.checks = 2 THEN {}
     ELSE PawnMoves(p, c, pin_d, pin_hv, check.mask)
          \cup from(Pieces(p, {"n"}, c) \ (pin_d \cup pin_hv), Knight)
          \cup from(Pieces(p, {"b"}, c) \ pin_hv, Bishop)
          \cup from(Pieces(p, {"r"}, c) \ pin_d, Rook)
          \cup from(Pieces(p, {"q"}, c) \ (pin_d \cap pin_hv), Queen)

LegalMoves(p) ==
  LET c == p.stm
      king == KingSq(p, c)
  IN MovesWithin(p, c, king, CheckMask(p, c, king), PinHV(p, c), PinD(p, c),
                 SeenSquares(p, Other(c), Square \ Us(p, c)))
=============================================================================
