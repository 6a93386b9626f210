---------------------------- MODULE ChessNotation ----------------------------
(***************************************************************************)
(* Moves as text: class uci of src/extensions/cboard/chess.hpp.  The web    *)
(* API names moves in UCI and shows lines in SAN.  A text is a record of    *)
(* its parts; "-" and NoFile, 8 stand for a part that is left out.           *)
(***************************************************************************)
EXTENDS ChessPlay

NoMove == Move(NoSq, NoSq, "none", "n")
Distance(a, b) == Max({Size(FileOf(a) - FileOf(b)), Size(RankOf(a) - RankOf(b))})

-----------------------------------------------------------------------------
(* UCI *)

MoveToUci(m, frc) ==
  [from |-> m.from,
   to |-> IF m.kind = "castling" /\ ~frc
          THEN SquareAt(IF m.to > m.from THEN 6 ELSE 2, RankOf(m.from)) ELSE m.to,
   promo |-> IF m.kind = "promotion" THEN m.promo ELSE "-"]

\* Nothing here asks whether the move is legal.
UciToMove(p, uci) ==
  LET from == uci.from
      to == uci.to
      type == IF from \in Occ(p) THEN TypeOf(p.board[from]) ELSE "-"
      castles == IF p.frc THEN to \in Pieces(p, {"r"}, p.stm) ELSE Distance(to, from) = 2
  IN CASE type = "k" /\ castles ->
            Move(from, IF p.frc THEN to ELSE SquareAt(Corner(KingSideIf(to > from)), RankOf(from)),
                 "castling", "n")
       [] type = "p" /\ to = p.ep -> Move(from, to, "enpassant", "n")
       [] type = "p" /\ to # p.ep /\ uci.promo # "-" /\ BackRank(to, Other(p.stm)) ->
            IF uci.promo \in {"k", "p"} THEN NoMove ELSE Move(from, to, "promotion", uci.promo)
       [] OTHER -> IF uci.promo = "-" THEN Normal(from, to) ELSE NoMove

-----------------------------------------------------------------------------
(* SAN *)

\* Mutant: the file is taken for enough.
NamedByFile(p, m) ==
  LET type == TypeOf(p.board[m.from])
      rivals == {r \in LegalMoves(p) : r # m /\ r.to = m.to /\ TypeOf(p.board[r.from]) = type}
  IN <<IF rivals = {} THEN NoFile ELSE FileOf(m.from), 8>>

\* The file and the rank of departure a piece has to name.
NamedAmong(from, rivals) ==
  LET file == FileOf(from)
      rank == RankOf(from)
  IN CASE rivals = {} -> <<NoFile, 8>>
       [] rivals # {} /\ \A r \in rivals : FileOf(r.from) # file -> <<file, 8>>
       [] /\ \E r \in rivals : FileOf(r.from) = file
          /\ \A r \in rivals : RankOf(r.from) # rank -> <<NoFile, rank>>
       [] OTHER -> <<file, rank>>

ResolveAmbiguity(p, m) ==
  LET type == TypeOf(p.board[m.from])
  IN NamedAmong(m.from, {r \in LegalMoves(p) : r # m /\ r.to = m.to /\ TypeOf(p.board[r.from]) = type})

\* game: the position after m with its key, the keys before it and its clock.
CheckSymbol(game) ==
  IF ~InCheck(game.p) THEN "-"
  ELSE IF GameResult(game.p, game.key, game.prev, game.hfm) = "lose" THEN "#" ELSE "+"

SanOf(m, type, capture, from, check) ==
  [castling |-> IF m.kind = "castling" THEN CastledTo(m) ELSE "-",
   piece |-> type, file |-> from[1], rank |-> from[2], capture |-> capture,
   to |-> IF m.kind = "castling" THEN NoSq ELSE m.to,
   promo |-> IF m.kind = "promotion" THEN m.promo ELSE "-",
   check |-> check]

MoveToSan(p, m, game) ==
  LET type == TypeOf(p.board[m.from])
      capture == IsCapture(p, m) \/ m.kind = "enpassant"
      from == CASE m.kind = "castling" -> <<NoFile, 8>>
                [] type = "p" -> <<IF capture THEN FileOf(m.from) ELSE NoFile, 8>>
                [] OTHER -> ResolveAmbiguity(p, m)
  IN SanOf(m, type, capture, from, CheckSymbol(game))

\* A pawn that does not take comes from the file it goes to.
ParseSanInfo(san) ==
  [san EXCEPT !.file = IF san.piece = "p" /\ ~san.capture /\ @ = NoFile THEN FileOf(san.to) ELSE @]

\* legalmoves<CAPTURE> and legalmoves<QUIET> of one type of piece.
MovesOf(p, type, capture) ==
  {m \in LegalMoves(p) : /\ TypeOf(p.board[m.from]) = type
                         /\ (IsCapture(p, m) \/ m.kind = "enpassant") = capture}

Fits(m, info) ==
  /\ m.to = info.to /\ m.kind # "castling"
  /\ CASE info.promo # "-" -> /\ m.kind = "promotion" /\ m.promo = info.promo
                              /\ FileOf(m.from) = info.file
       [] info.promo = "-" /\ m.kind = "enpassant" -> FileOf(m.from) = info.file
       [] OTHER -> /\ info.file # NoFile => FileOf(m.from) = info.file
                   /\ info.rank # 8 => RankOf(m.from) = info.rank

\* The moves the text may stand for: parseSan throws unless there is one.
ParseSan(p, san) ==
  LET info == IF san.castling = "-" THEN ParseSanInfo(san) ELSE san
  IN {m \in MovesOf(p, info.piece, info.capture) :
        IF san.castling # "-" THEN m.kind = "castling" /\ CastledTo(m) = san.castling ELSE Fits(m, info)}
=============================================================================
