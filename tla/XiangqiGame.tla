----------------------------- MODULE XiangqiGame -----------------------------
(***************************************************************************)
(* A xiangqi Position at work: ccbrulecheck plays a list of moves from a     *)
(* FEN and asks for the verdict on the repetition, ccegtbprobe makes moves   *)
(* and takes them back.                                                     *)
(***************************************************************************)
EXTENDS XiangqiCodec

\* Starts: records of fen, the plies played from it, and only: the moves they
\* are taken from, any legal one if it is empty.
CONSTANT Starts

ASSUME StartsAssumption ==
  \A s \in Starts : IsPosition(s.fen) /\ s.only \subseteq Square \X Square

VARIABLES start, pos, key, stack
vars == <<start, pos, key, stack>>

Init ==
  \E s \in Starts :
    /\ FromFen(s.fen) /\ IsLegal(s.fen)
    /\ start = s /\ pos = s.fen /\ key = PosKey(s.fen) /\ stack = <<>>

Make(m) ==
  /\ Len(stack) < start.plies
  /\ MoveIsPseudo(pos, m)
  /\ IF InCheck(pos, pos.turn) THEN PseudoIsLegalIncheck(pos, m) ELSE PseudoIsLegal(pos, m)
  /\ pos' = After(pos, m)
  /\ key' = Toggled(key, MoveToggles(pos, m))
  /\ stack' = Append(stack, Entry(pos, key, m))
  /\ UNCHANGED start

Undo ==
  /\ stack # <<>>
  /\ pos' = Undone(pos, Last(stack))
  /\ key' = Toggled(key, UndoToggles(pos, Last(stack)))
  /\ stack' = Front(stack)
  /\ UNCHANGED start

Moves == IF start.only = {} THEN GenMoves(pos) ELSE start.only

Next == (\E m \in Moves : Make(m)) \/ Undo

Spec == Init /\ [][Next]_vars

-----------------------------------------------------------------------------
(* Properties *)

\* The moves of the rules: one of the piece that does not leave its king in
\* check or facing the other.
Rules(p) ==
  {m \in Us(p, p.turn) \X Square :
     MoveIsPseudo(p, m) /\ ~InCheck(After(p, m), p.turn) /\ ~KingsFace(After(p, m))}

\* gen_legals, with its two tests, gives the moves of the rules, and a position
\* that is played stays a legal one.
LegalExact == GenLegals(pos) = Rules(pos) /\ IsLegal(pos) /\ FromFen(pos)

\* The key kept up move by move, made and taken back, is the key of the position;
\* every position is looked up and every repetition is found by it.
KeyExact == key = PosKey(pos)

\* The flag on the stack says whether the last move gave check.
CheckKept == stack # <<>> => Last(stack).check = InCheck(pos, pos.turn)

\* move_undo brings back the position that was left, captured piece and all, and
\* with it the key it had.
TakesBack == [][Len(stack') < Len(stack) => pos' = Last(stack).pos /\ key' = Last(stack).lock]_vars

Verdict(p, k, entries) == RepCheck(p, k, entries, 1)

\* The positions of the cycle that ends in the present one, by the entry before them.
Later(j) == IF j = Len(stack) THEN pos ELSE stack[j + 1].pos

\* A capture worth making: of a rook by a lesser piece, or one nobody can answer.
Wins(p, m) ==
  \/ TypeOf(p.board[To(m)]) = "r" /\ TypeOf(p.board[From(m)]) # "r"
  \/ \A answer \in GenLegals(After(p, m)) : To(answer) # To(m)

\* The side that made the moves at the indices in moves threatened, each time, to
\* win the one piece the others moved, or one that stood still.
Threatens(moves, where(_)) ==
  LET wins(j, s) == LET p == [Later(j) EXCEPT !.turn = Opp(@)]
                    IN s \in Occ(p) /\ \E m \in GenLegals(p) : To(m) = s /\ Wins(p, m)
  IN \/ \A j \in moves : wins(j, where(j))
     \/ \E s \in Square : \A j \in moves : wins(j, s)

\* The verdict on a repetition is a just one.  A side that gave check with every
\* move while the other did not is the one banned; a side banned for another
\* reason gave no check and threatened to win one and the same piece with every move;
\* and nobody is judged while no position has recurred.
VerdictJust ==
  LET recurs == {j \in Mine(stack, 1) : stack[j].pos = pos /\
                   \A i \in j..Len(stack) : stack[i].cap = None}
      mine == Mine(stack, Max(recurs))
      theirs == Theirs(stack, Max(recurs))
      checks(moves) == \A j \in moves : InCheck(Later(j), Later(j).turn)
      threatens(side) ==
        IF side = "me" THEN Threatens(mine, LAMBDA j : From(stack[j + 1].move))
        ELSE Threatens(theirs, LAMBDA j : To(stack[j - 1].move))
      just(verdict) ==
        IF recurs = {} THEN verdict = "none"
        ELSE CASE checks(mine) /\ checks(theirs) -> verdict = "draw"
               [] checks(mine) /\ ~checks(theirs) -> verdict = "me"
               [] ~checks(mine) /\ checks(theirs) -> verdict = "opp"
               [] OTHER -> verdict = "draw" \/ (verdict \in {"me", "opp"} /\ threatens(verdict))
  IN just(Verdict(pos, key, stack))

MirrorMove(m, Sq(_)) == <<Sq(From(m)), Sq(To(m))>>
MirrorPos(p, Sq(_), Col(_)) ==
  [board |-> [s \in {Sq(s) : s \in Occ(p)} |->
                LET piece == p.board[CHOOSE t \in Occ(p) : Sq(t) = s] IN <<Col(piece[1]), piece[2]>>],
   turn |-> Col(p.turn)]
MirrorView(Sq(_), Col(_)) ==
  LET image(p) == MirrorPos(p, Sq, Col)
      entry(e) == Entry(image(e.pos), PosKey(image(e.pos)), MirrorMove(e.move, Sq))
  IN [pos |-> image(pos), key |-> PosKey(image(pos)),
      stack |-> [i \in DOMAIN stack |-> entry(stack[i])], swap |-> FALSE]

\* The same game one ply earlier, if the ply before the cycle ended it as well.
EarlierViews ==
  LET begin == Start(key, stack)
      same == begin > 1 /\ stack[begin - 1].pos = Last(stack).pos
                        /\ stack[begin - 1].move = Last(stack).move
  IN IF same THEN {[pos |-> Last(stack).pos, key |-> Last(stack).lock, stack |-> Front(stack), swap |-> TRUE]}
     ELSE {}

Swap(verdict) == CASE verdict = "me" -> "opp" [] verdict = "opp" -> "me" [] OTHER -> verdict

\* The verdict does not depend on how one looks at the game: it is the same seen
\* in a mirror, with the colors exchanged, and one ply earlier in the cycle, where
\* the other side is to move.  Nor does it that the last move begins a chase.
VerdictImpartial ==
  LET views == {[pos |-> pos, key |-> key, stack |-> stack, swap |-> FALSE],
                MirrorView(FileMirror, LAMBDA c : c), MirrorView(RankMirror, Opp)}
      chase(e) == IsChase(e.pos, e.move)
      swapped(view, verdict) == IF view.swap THEN Swap(verdict) ELSE verdict
  IN /\ stack # <<>> => Cardinality({chase(Last(view.stack)) : view \in views}) = 1
     /\ (\E j \in Mine(stack, 1) : stack[j].lock = key) =>
          Cardinality({swapped(view, Verdict(view.pos, view.key, view.stack)) : view \in views \cup EarlierViews}) = 1

\* Nothing is lost between a FEN and the key it is stored under; a mirrored
\* position mirrors back, is as legal, and has the mirrored moves.
CodecsExact ==
  LET fen == ToFen(pos)
      moves(p) == {MoveToString(m) : m \in GenLegals(p)}
      stored(f) == HexFen2Fen(Fen2HexFen(f)) = f
      twin(f, back, strings) ==
        back = fen /\ stored(f) /\ IsLegal(ReadFen(f)) /\ moves(ReadFen(f)) = strings
      mirrored(Fen(_), Str(_)) == <<Fen(fen), Fen(Fen(fen)), {Str(str) : str \in moves(pos)}>>
      twins == {mirrored(GetLRFen, GetLRMove), mirrored(GetBWFen, GetBWMove), mirrored(GetLRBWFen, GetLRBWMove)}
  IN /\ ReadFen(fen) = pos
     /\ stored(fen)
     /\ \A t \in twins : twin(t[1], t[2], t[3])
     /\ \A m \in GenLegals(pos) : MoveFromString(MoveToString(m)) = m
=============================================================================
