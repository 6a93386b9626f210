------------------------------ MODULE ChessPlay ------------------------------
(***************************************************************************)
(* What class Board of src/extensions/cboard/chess.hpp does with a position: *)
(* reading and writing a FEN, making and taking back a move, the Zobrist     *)
(* key and the ends of a game.                                              *)
(*                                                                         *)
(* A FEN is the record of its fields: board, stm, cr (the set of castling   *)
(* tokens: <<color, side>> for one of KQkq, or a letter) and ep.             *)
(* A key is an exclusive or of random numbers, one for each                  *)
(* feature of the position: here the set of those features, with SymDiff     *)
(* for the exclusive or.                                                    *)
(***************************************************************************)
EXTENDS ChessMovegen

IsPawn(p, s) == TypeOf(p.board[s]) = "p"

-----------------------------------------------------------------------------
(* The key *)

Features(board) == {<<"piece", board[s], s>> : s \in DOMAIN board}
RightKeys(rights) == {<<"castling", right>> : right \in rights}
EpKey(ep) == IF ep = NoSq THEN {} ELSE {<<"enpassant", FileOf(ep)>>}
StmKey == {<<"stm">>}

Zobrist(p) ==
  Features(p.board) \cup EpKey(p.ep)
  \cup RightKeys({right \in Right : p.cr[right] # NoFile})
  \cup IF p.stm = White THEN StmKey ELSE {}

A ## B == SymDiff(A, B)

-----------------------------------------------------------------------------
(* Reading and writing a FEN *)

\* The rook nearest to the king on a side of it.
FindRook(board, king, side) ==
  LET c == ColorOf(board[king])
      rooks == {s \in DOMAIN board : /\ board[s] = <<c, "r">> /\ s # king
                                     /\ (s > king) = (side = "king")
                                     /\ RankOf(s) = RelRank(0, c)}
  IN IF rooks = {} THEN NoFile
     ELSE FileOf(IF side = "king" THEN Min(rooks) ELSE Max(rooks))

Letter(c, f) == <<c, "file", f>>
IsLetter(token) == token[2] = "file"

\* The right a castling token stands for and the file of its rook.
Corner(side) == IF side = "king" THEN 7 ELSE 0
KingOf(board, c) == CHOOSE s \in DOMAIN board : board[s] = <<c, "k">>
RightOf(board, token) ==
  IF IsLetter(token) THEN <<token[1], ClosestSide(token[3], FileOf(KingOf(board, token[1])))>> ELSE token
RookOf(board, frc, token) ==
  CASE IsLetter(token) -> token[3]
    [] ~IsLetter(token) /\ frc -> FindRook(board, KingOf(board, token[1]), token[2])
    [] OTHER -> Corner(token[2])

\* The sanitizer leaves one token for a right.
RightsOf(fen, frc) ==
  [right \in Right |->
     LET tokens == {token \in fen.cr : RightOf(fen.board, token) = right}
     IN IF tokens = {} THEN NoFile ELSE RookOf(fen.board, frc, CHOOSE token \in tokens : TRUE)]

PathOf(p, right) ==
  LET king == KingSq(p, right[1])
      rook == SquareAt(p.cr[right], RankOf(king))
  IN (Between[rook][RookTo(right[2], right[1])] \cup Between[king][KingTo(right[2], right[1])])
     \ {king, rook}

WithEp(p, fen) ==
  [p EXCEPT !.ep = IF /\ fen.ep # NoSq
                      /\ RankOf(fen.ep) = RelRank(5, fen.stm)
                      /\ IsEpSquareValid(p, fen.ep)
                   THEN fen.ep ELSE NoSq]
WithPaths(p) ==
  [p EXCEPT !.path = [right \in Right |-> IF p.cr[right] = NoFile THEN {} ELSE PathOf(p, right)]]

\* The constructor of a Board, for a FEN the sanitizer lets pass.
BoardOf(fen, frc) ==
  WithPaths(WithEp([board |-> fen.board, stm |-> fen.stm, cr |-> RightsOf(fen, frc), ep |-> NoSq,
                    frc |-> frc, path |-> NoPath], fen))

CastleTokens(p) ==
  {IF p.frc THEN Letter(right[1], p.cr[right]) ELSE right : right \in {r \in Right : p.cr[r] # NoFile}}

GetFen(p) == [board |-> p.board, stm |-> p.stm, cr |-> CastleTokens(p), ep |-> p.ep]

-----------------------------------------------------------------------------
(* Making and taking back a move *)

IsCapture(p, m) == m.kind # "castling" /\ m.to \in Occ(p)
CastledTo(m) == KingSideIf(m.to > m.from)

\* The rights of color c that end when a rook of it leaves square s.
RookRights(p, c, s) ==
  LET right == <<c, ClosestSide(s, KingSq(p, c))>>
  IN IF BackRank(s, c) /\ p.cr[right] = FileOf(s) THEN {right} ELSE {}

RightsLost(p, m) ==
  LET c == p.stm
      type == TypeOf(p.board[m.from])
  IN (IF IsCapture(p, m) /\ TypeOf(p.board[m.to]) = "r" THEN RookRights(p, Other(c), m.to) ELSE {})
     \cup CASE type = "k" -> {right \in Right : right[1] = c /\ p.cr[right] # NoFile}
            [] type = "r" -> RookRights(p, c, m.from)
            [] OTHER -> {}

\* An ep square is kept when an enemy pawn stands beside, legal or not (EXACT
\* is false).
EpAfter(p, m) ==
  IF /\ IsPawn(p, m.from) /\ Size(m.to - m.from) = 16
     /\ PawnAttacks[p.stm][EpSquare(m.to)] \cap Pieces(p, {"p"}, Other(p.stm)) # {}
  THEN EpSquare(m.to) ELSE NoSq

\* What stands where after the move, of the pieces that moved.
Moved(p, m) ==
  LET c == p.stm
      side == CastledTo(m)
  IN CASE m.kind = "castling" ->
            [s \in {KingTo(side, c), RookTo(side, c)} |-> <<c, IF s = KingTo(side, c) THEN "k" ELSE "r">>]
       [] m.kind = "promotion" -> [s \in {m.to} |-> <<c, m.promo>>]
       [] OTHER -> [s \in {m.to} |-> p.board[m.from]]

Left(p, m) ==
  ({m.from, m.to} \cap Occ(p)) \cup IF m.kind = "enpassant" THEN {EpSquare(m.to)} ELSE {}

\* The pieces of new, and of the board those on the squares.
Placed(new, board, squares) ==
  [s \in DOMAIN new \cup squares |-> IF s \in DOMAIN new THEN new[s] ELSE board[s]]

MakeMove(p, m) ==
  [p EXCEPT !.board = Placed(Moved(p, m), @, Occ(p) \ Left(p, m)),
            !.stm = Other(p.stm),
            !.ep = EpAfter(p, m),
            !.cr = [right \in Right |-> IF right \in RightsLost(p, m) THEN NoFile ELSE p.cr[right]]]

\* Mutant: the castling rights that end stay in the key.
TogglesKeepRights(p, m) ==
  EpKey(p.ep) ## EpKey(EpAfter(p, m))
  ## Features(Restrict(p.board, Left(p, m))) ## Features(Moved(p, m)) ## StmKey

\* The exclusive ors of makeMove, in its order.
MoveToggles(p, m) ==
  EpKey(p.ep) ## RightKeys(RightsLost(p, m)) ## EpKey(EpAfter(p, m))
  ## Features(Restrict(p.board, Left(p, m))) ## Features(Moved(p, m)) ## StmKey

Irreversible(p, m) == IsCapture(p, m) \/ IsPawn(p, m.from)

\* One entry of prev_states_ (without the key).
StateOf(p, hfm, captured) == [cr |-> p.cr, ep |-> p.ep, hfm |-> hfm, captured |-> captured]
None == <<"none">>
CapturedBy(p, m) == IF m.to \in Occ(p) THEN p.board[m.to] ELSE None

\* Mutant: whether a piece was captured is not asked.
TakenBlind(p, m, prev) == IF m.kind = "castling" THEN <<>> ELSE [s \in {m.to} |-> prev.captured]

\* The piece that m took, where it stood.
Taken(p, m, prev) ==
  CASE m.kind = "enpassant" -> [s \in {EpSquare(prev.ep)} |-> <<p.stm, "p">>]
    [] m.kind \in {"normal", "promotion"} /\ prev.captured # None -> [s \in {m.to} |-> prev.captured]
    [] OTHER -> <<>>

UnmakeMove(p, m, prev) ==
  LET c == Other(p.stm)
      castles == m.kind = "castling"
      back(s) ==
        CASE castles -> <<c, IF s = m.from THEN "k" ELSE "r">>
          [] m.kind = "promotion" -> <<c, "p">>
          [] OTHER -> p.board[m.to]
      came == [s \in IF castles THEN {m.from, m.to} ELSE {m.from} |-> back(s)]
      gone == IF castles THEN {KingTo(CastledTo(m), c), RookTo(CastledTo(m), c)} ELSE {m.to}
      rest == Placed(Taken(p, m, prev), p.board, Occ(p) \ gone)
  IN [p EXCEPT !.board = Placed(came, rest, DOMAIN rest), !.stm = c, !.ep = prev.ep, !.cr = prev.cr]

MakeNullMove(p) == [p EXCEPT !.stm = Other(p.stm), !.ep = NoSq]
NullToggles(p) == StmKey ## EpKey(p.ep)

\* Mutant: the en passant square is not brought back.
UnmakeNullNoEp(p, prev) == [p EXCEPT !.stm = Other(p.stm), !.cr = prev.cr]

UnmakeNullMove(p, prev) == [p EXCEPT !.stm = Other(p.stm), !.ep = prev.ep, !.cr = prev.cr]

-----------------------------------------------------------------------------
(* Checks to come and the ends of a game *)

\* Mutant: the squares behind the moving piece are not opened.
SnipersBehind(p, king, occ, c) ==
  (BishopAttacks(king, Occ(p)) \cap Pieces(p, {"b", "q"}, c))
  \cup (RookAttacks(king, Occ(p)) \cap Pieces(p, {"r", "q"}, c))

\* The sliders of color c that see the king when occ is occupied.
Snipers(p, king, occ, c) ==
  (BishopAttacks(king, occ) \cap Pieces(p, {"b", "q"}, c))
  \cup (RookAttacks(king, occ) \cap Pieces(p, {"r", "q"}, c))

\* givesCheck: does m, not made yet, give check?
GivesCheck(p, m) ==
  LET c == p.stm
      king == KingSq(p, Other(c))
      type == TypeOf(p.board[m.from])
      occ == Occ(p) \ {m.from}
      Sees(t, s, o) ==
        CASE t = "p" -> PawnAttacks[Other(c)][s] [] t = "n" -> KnightAttacks[s]
          [] t = "b" -> BishopAttacks(s, o) [] t = "r" -> RookAttacks(s, o)
          [] t = "q" -> QueenAttacks(s, o) [] OTHER -> {}
      snipers == Snipers(p, king, occ, c)
  IN CASE m.to \in Sees(type, king, Occ(p)) -> TRUE
       [] m.to \notin Sees(type, king, Occ(p)) /\ snipers # {} ->
            m.kind = "castling" \/ m.to \notin Between[king][Min(snipers)]
       [] OTHER ->
            \/ m.kind = "promotion" /\ king \in Sees(m.promo, m.to, occ)
            \/ m.kind = "enpassant" /\ Snipers(p, king, (occ \ {EpSquare(m.to)}) \cup {m.to}, c) # {}
            \/ m.kind = "castling" /\ RookTo(CastledTo(m), c) \in RookAttacks(king, Occ(p))

\* Mutant: the position after the last irreversible move is left out.
RepetitionLater(key, prev, hfm, count) ==
  Cardinality({i \in DOMAIN prev : /\ (Len(prev) - i) % 2 = 1 /\ i > Len(prev) - hfm + 1
                                   /\ prev[i] = key}) >= count

\* prev: the keys of the positions played through, the latest last.
IsRepetition(key, prev, hfm, count) ==
  Cardinality({i \in DOMAIN prev : /\ (Len(prev) - i) % 2 = 1 /\ i > Len(prev) - hfm - 1
                                   /\ prev[i] = key}) >= count

IsInsufficientMaterial(p) ==
  LET Bishops(c) == Pieces(p, {"b"}, c)
      SameColor(bb) == Cardinality({IsLight(s) : s \in bb}) = 1
      minor == Pieces(p, {"b", "n"}, White) \cup Pieces(p, {"b", "n"}, Black)
      pair(c) == Cardinality(Bishops(c)) = 2
  IN CASE Cardinality(Occ(p)) = 2 -> TRUE
       [] Cardinality(Occ(p)) = 3 -> minor # {}
       [] Cardinality(Occ(p)) = 4 ->
            \/ Bishops(White) # {} /\ Bishops(Black) # {}
               /\ SameColor({Min(Bishops(White)), Min(Bishops(Black))})
            \/ pair(White) /\ SameColor(Bishops(White))
            \/ ~pair(White) /\ pair(Black) /\ SameColor(Bishops(Black))
       [] OTHER -> FALSE

\* isGameOver: the result for the side to move.
ResultIf(stuck, check, drawn, late) ==
  CASE late -> IF stuck /\ check THEN "lose" ELSE "draw"
    [] ~late /\ drawn -> "draw"
    [] OTHER -> IF ~stuck THEN "none" ELSE IF check THEN "lose" ELSE "draw"

GameResult(p, key, prev, hfm) ==
  ResultIf(LegalMoves(p) = {}, InCheck(p),
           IsInsufficientMaterial(p) \/ IsRepetition(key, prev, hfm, 2), hfm >= 100)
=============================================================================
