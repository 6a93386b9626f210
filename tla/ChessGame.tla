------------------------------ MODULE ChessGame ------------------------------
(***************************************************************************)
(* A Board at work.  The web API reads a FEN (cbgetfen), generates moves     *)
(* (cbmovegen), makes one and writes the FEN of the result through the       *)
(* sanitizer (cbmovemake, cbmovesan); the library also takes moves back and  *)
(* passes the turn.                                                         *)
(*                                                                         *)
(* An entry of prev_states also keeps the position and the move it was made *)
(* with (the caller's argument of unmakeMove), to state properties with.    *)
(***************************************************************************)
EXTENDS ChessCodec, ChessNotation

\* Starts: pairs of a FEN as a user gives it and the plies played from it.
CONSTANT Starts

\* A FEN as the constructor of a Board reads it.
WellFormed(fen) ==
  /\ fen = [board |-> fen.board, stm |-> fen.stm, cr |-> fen.cr, ep |-> fen.ep]
  /\ fen.board = [s \in Occ(fen) |-> fen.board[s]] /\ Occ(fen) \subseteq Square
  /\ \A s \in Occ(fen) : fen.board[s] \in Piece
  /\ fen.stm \in Color /\ fen.ep \in Square \cup {NoSq}
  /\ fen.cr \subseteq Right \cup {Letter(c, f) : c \in Color, f \in File}

ASSUME StartsAssumption == \A start \in Starts : WellFormed(start[1]) /\ start[2] \in Nat

\* A push brings the ep square about: the pawn passed an empty square, and when
\* it gives check it hides no bishop or queen behind it.  Positions that are
\* played have it; of a user's FEN the sanitizer asks neither.
EpExplained(fen) ==
  LET pawn == EpSquare(fen.ep)
      king == KingSq(fen, fen.stm)
      seen(occ) == BishopAttacks(king, occ) \cap Pieces(fen, {"b", "q"}, Other(fen.stm))
  IN EpPossible(fen) =>
       /\ fen.ep \notin Occ(fen)
       /\ pawn \in ByPawn(fen, fen.stm) => seen(Occ(fen) \ {pawn}) \subseteq seen(Occ(fen))
StartsExplained == \A start \in Starts : EpExplained(start[1])

VARIABLES pos, key, hfm, prev_states,
          left          \* plies that may still be played
vars == <<pos, key, hfm, prev_states, left>>

NullMove == Move(NoSq, NoSq, "null", "n")

-----------------------------------------------------------------------------

Fresh(p) == /\ pos' = p /\ key' = Zobrist(p)
            /\ hfm' = 0 /\ prev_states' = <<>>

Begun(p) == pos = p /\ key = Zobrist(p) /\ hfm = 0 /\ prev_states = <<>>

Init ==
  \E start \in Starts, frc \in BOOLEAN :
    LET fen == start[1]
    IN /\ Accepted(fen) /\ frc \in Implied960(fen)
       /\ Begun(BoardOf(Sanitized(fen), frc))
       /\ left = start[2]

Pushed(m) ==
  Append(prev_states, [state |-> StateOf(pos, hfm, IF m = NullMove THEN None ELSE CapturedBy(pos, m)),
                       key |-> key, move |-> m, pos |-> pos])

\* The halfmove clock is one byte.
ClockSize == 256
Ticked(p, m, clock) == IF Irreversible(p, m) THEN 0 ELSE (clock + 1) % ClockSize

Make(m) ==
  /\ left > 0 /\ left' = left - 1
  /\ pos' = MakeMove(pos, m)
  /\ key' = key ## MoveToggles(pos, m)
  /\ hfm' = Ticked(pos, m, hfm)
  /\ prev_states' = Pushed(m)

Unmake ==
  /\ prev_states # <<>>
  /\ LET prev == Last(prev_states)
     IN /\ prev.move # NullMove
        /\ pos' = UnmakeMove(pos, prev.move, prev.state)
        /\ key' = prev.key /\ hfm' = prev.state.hfm
  /\ prev_states' = Front(prev_states)
  /\ left' = left + 1

\* An engine passes only when it is not in check.
Pass ==
  /\ left > 0 /\ left' = left - 1
  /\ ~InCheck(pos)
  /\ pos' = MakeNullMove(pos)
  /\ key' = key ## NullToggles(pos)
  /\ hfm' = hfm
  /\ prev_states' = Pushed(NullMove)

UnmakePass ==
  /\ prev_states # <<>>
  /\ LET prev == Last(prev_states)
     IN /\ prev.move = NullMove
        /\ pos' = UnmakeNullMove(pos, prev.state)
        /\ key' = prev.key /\ hfm' = prev.state.hfm
  /\ prev_states' = Front(prev_states)
  /\ left' = left + 1

\* cbmovemake and cbmovesan read back what they wrote.
Reload ==
  /\ prev_states # <<>> /\ Last(prev_states).move # NullMove
  /\ LET fen == GetFen(pos)
     IN Accepted(fen) /\ \E frc \in Implied960(fen) : Fresh(BoardOf(Sanitized(fen), frc))
  /\ left' = left

Next == (\E m \in LegalMoves(pos) : Make(m)) \/ Unmake \/ Pass \/ UnmakePass \/ Reload

Spec == Init /\ [][Next]_vars

-----------------------------------------------------------------------------
(* Properties *)

\* Every field has its type.
TypeOK ==
  /\ Occ(pos) \subseteq Square /\ Range(pos.board) \subseteq Piece
  /\ pos.stm \in Color /\ pos.ep \in Square \cup {NoSq} /\ pos.frc \in BOOLEAN
  /\ pos.cr \in [Right -> File \cup {NoFile}]
  /\ pos.path \in [Right -> SUBSET Square]
  /\ hfm \in 0..ClockSize - 1 /\ left \in Nat

\* What a move may do by the rules, whether or not it leaves the king in check.
Pseudo(p) ==
  LET c == p.stm
      free == Square \ Us(p, c)
      reach(s) ==
        CASE TypeOf(p.board[s]) = "n" -> KnightAttacks[s]
          [] TypeOf(p.board[s]) = "b" -> BishopAttacks(s, Occ(p))
          [] TypeOf(p.board[s]) = "r" -> RookAttacks(s, Occ(p))
          [] TypeOf(p.board[s]) = "q" -> QueenAttacks(s, Occ(p))
          [] TypeOf(p.board[s]) = "k" -> KingAttacks[s]
          [] TypeOf(p.board[s]) = "p" ->
               LET step == IF c = White THEN 8 ELSE -8
                   one == {s + step} \ Occ(p)
                   two == IF RankOf(s) = RelRank(1, c) /\ one # {} THEN {s + 2 * step} \ Occ(p) ELSE {}
               IN one \cup two \cup (PawnAttacks[c][s] \cap Us(p, Other(c)))
      moves(s, t) ==
        IF IsPawn(p, s) /\ RankOf(t) \in {0, 7} THEN Promotions(s, t) ELSE {Normal(s, t)}
  IN (UNION {UNION {moves(s, t) : t \in reach(s) \cap free} : s \in Us(p, c)})
     \cup {Move(s, p.ep, "enpassant", "n") : s \in
             {s \in Pieces(p, {"p"}, c) : p.ep # NoSq /\ p.ep \in PawnAttacks[c][s]}}

Safe(p, m) == LET q == MakeMove(p, m) IN ~IsAttacked(q, KingSq(q, p.stm), q.stm)

\* The king goes from square to square, none attacked, with nothing in its way
\* or in the rook's.
MayCastle(p, right) ==
  LET c == p.stm
      king == KingSq(p, c)
      rook == SquareAt(p.cr[right], RankOf(king))
      kingTo == KingTo(right[2], c)
      rookTo == RookTo(right[2], c)
      span(a, b) == {s \in Square : RankOf(s) = RankOf(a) /\ ((a <= s /\ s <= b) \/ (b <= s /\ s <= a))}
      alone == [p EXCEPT !.board = Restrict(p.board, Occ(p) \ {king})]
  IN /\ right[1] = c /\ p.cr[right] # NoFile
     /\ (span(king, kingTo) \cup span(rook, rookTo)) \cap Occ(p) \subseteq {king, rook}
     /\ \A s \in span(king, kingTo) : ~IsAttacked(alone, s, Other(c))
     /\ Safe(p, Move(king, rook, "castling", "n"))

Rules(p) ==
  {m \in Pseudo(p) : Safe(p, m)}
  \cup {Move(KingSq(p, p.stm), SquareAt(p.cr[right], RankOf(KingSq(p, p.stm))), "castling", "n")
        : right \in {right \in Right : MayCastle(p, right)}}

\* legalmoves, with its masks and its shortcuts, gives the moves of the rules:
\* all of them and no other.
LegalExact == LegalMoves(pos) = Rules(pos)

\* The key kept up move by move is the key of the position, whichever way the
\* position was reached.
KeyExact == key = Zobrist(pos)

\* unmakeMove and unmakeNullMove bring back the position that was left.
TakesBack ==
  [][Len(prev_states') = Len(prev_states) - 1 /\ left' > left
       => pos' = Last(prev_states).pos]_vars

\* The clock went round since the last irreversible move.
WentRound ==
  \E i \in DOMAIN prev_states :
    /\ prev_states[i].state.hfm = ClockSize - 1
    /\ \A j \in i..Len(prev_states) : ~Irreversible(prev_states[j].pos, prev_states[j].move)

\* isRepetition, which compares keys and skips what cannot recur, never counts
\* a position that was another one, also in a game with passes; and without
\* passes it knows every earlier occurrence, as long as its clock, a byte, has
\* not gone round since the last irreversible move.
RepetitionExact ==
  LET keys == [i \in DOMAIN prev_states |-> prev_states[i].key]
      passed == \E i \in DOMAIN prev_states : prev_states[i].move = NullMove
      occurred(n) == Cardinality({i \in DOMAIN prev_states : prev_states[i].pos = pos}) >= n
  IN \A n \in 1..2 :
       /\ IsRepetition(key, keys, hfm, n) => occurred(n)
       /\ occurred(n) => IsRepetition(key, keys, hfm, n) \/ passed \/ WentRound

\* givesCheck says before a move what inCheck says after it.
ChecksForetold == \A m \in LegalMoves(pos) : GivesCheck(pos, m) <=> InCheck(MakeMove(pos, m))

\* Another rook stands between the king and the rook of a right.
Hidden(p, right) ==
  LET king == KingSq(p, right[1])
  IN \E s \in Between[king][SquareAt(p.cr[right], RankOf(king))] :
       s # SquareAt(p.cr[right], RankOf(king)) /\ s \in Pieces(p, {"r"}, right[1])

\* A position that was played is accepted by the sanitizer and comes back from
\* it as it was: the board, the turn, the castling rights (but those of a rook
\* behind another one), and the en passant square when it can be taken.
Survives ==
  LET fen == GetFen(pos)
      canTake == \E m \in LegalMoves(pos) : m.kind = "enpassant"
      cameBack(back) ==
        /\ back.board = pos.board /\ back.stm = pos.stm
        /\ back.ep = IF canTake THEN pos.ep ELSE NoSq
        /\ \A right \in Right : back.cr[right] = pos.cr[right]
                                \/ (pos.cr[right] # NoFile /\ Hidden(pos, right))
  IN Accepted(fen) /\ \A frc \in Implied960(fen) : cameBack(BoardOf(Sanitized(fen), frc))

\* Nothing is lost between a FEN and the key it is stored under, or between a
\* position and its mirror: the key reads back as the FEN, the mirror is stored
\* the same way and has the mirrored moves.  Between a board and its 24 bytes
\* only the squares castling needs empty are lost: the unpacked board has the
\* moves of the board and may castle where pieces stand on those squares.
CodecsExact ==
  LET readsBack(f) == HexFen2Fen(Fen2HexFen(TextOf(f))) = TextOf(f)
      there(f) == {MoveToUci(m, TRUE) : m \in LegalMoves(BoardOf(f, pos.frc))}
      twins(fen, twin) ==
        /\ \A f \in {fen, twin} : readsBack(f)
        /\ Accepted(twin) /\ Sanitized(twin) = twin /\ BWFen(twin) = fen
        /\ there(twin) = {BWMove(uci) : uci \in there(fen)}
      stored(fen) ==
        /\ twins(fen, BWFen(fen))
        /\ ~pos.frc => EncodeFen(fen) = Encode(BoardOf(fen, FALSE))
      blocked(m) ==
        /\ m.kind = "castling"
        /\ \E right \in Right : /\ right[1] = pos.stm /\ pos.cr[right] = FileOf(m.to)
                               /\ pos.path[right] \cap Occ(pos) # {}
      unpacked(back) ==
        /\ [back EXCEPT !.path = pos.path] = pos
        /\ LegalMoves(pos) \subseteq LegalMoves(back)
        /\ \A m \in LegalMoves(back) \ LegalMoves(pos) : blocked(m)
  IN stored(Sanitized(GetFen(pos))) /\ unpacked(Decode(Encode(pos), pos.frc))

After(m) == [p |-> MakeMove(pos, m), key |-> key ## MoveToggles(pos, m),
             prev |-> [i \in DOMAIN prev_states |-> prev_states[i].key] \o <<key>>,
             hfm |-> Ticked(pos, m, hfm)]

\* A legal move written in UCI or in SAN is read back as that move and no
\* other, and a mate is marked as a mate.
NotationExact ==
  LET reads(m, san) == ParseSan(pos, san) = {m}
      marked(san, p) == san.check = "#" <=> InCheck(p) /\ Rules(p) = {}
      exact(m, san) == reads(m, san) /\ marked(san, MakeMove(pos, m))
  IN \A m \in LegalMoves(pos) :
       UciToMove(pos, MoveToUci(m, pos.frc)) = m /\ exact(m, MoveToSan(pos, m, After(m)))
=============================================================================
