----------------------------- MODULE XiangqiPlay -----------------------------
(***************************************************************************)
(* Making and taking back moves: the incremental key, the flag that says a  *)
(* move gave check, and the moves on the board alone that the repetition    *)
(* rules use.                                                               *)
(*                                                                         *)
(* A key, the exclusive or of random numbers, is the set of what they stand *)
(* for: the pieces on their squares and, with White to move, the turn.      *)
(***************************************************************************)
EXTENDS XiangqiMoves

None == <<>>

TurnKey == {<<"turn">>}
PosKey(p) == {<<p.board[s], s>> : s \in Occ(p)} \cup (IF p.turn = White THEN TurnKey ELSE {})
Toggled(key, features) == (key \ features) \cup (features \ key)

Sides == {RankSteps, FileSteps}
On(line, a, b) == IF line = RankSteps THEN SameRank(a, b) ELSE SameFile(a, b)

-----------------------------------------------------------------------------

RepDo(board, m) ==
  [s \in (DOMAIN board \ {From(m)}) \cup {To(m)} |-> IF s = To(m) THEN board[From(m)] ELSE board[s]]
RepUndo(board, m) == RepDo(board, <<To(m), From(m)>>)

After(p, m) == [board |-> RepDo(p.board, m), turn |-> Opp(p.turn)]
Captured(p, m) == IF To(m) \in Occ(p) THEN p.board[To(m)] ELSE None

\* Mutant: the piece that is taken stays in the key.
MoveTogglesOnly(p, m) ==
  {<<p.board[From(m)], From(m)>>, <<p.board[From(m)], To(m)>>} \cup TurnKey

MoveToggles(p, m) ==
  LET piece == p.board[From(m)]
  IN {<<piece, From(m)>>, <<piece, To(m)>>} \cup TurnKey
     \cup (IF To(m) \in Occ(p) THEN {<<p.board[To(m)], To(m)>>} ELSE {})

\* Mutant: only the piece that moves may give check.
GivesCheckDirectly(p, m) ==
  KingSq(p, Opp(p.turn)) \in Reach(After(p, m), To(m))

\* The check of a move is found from the lines and legs it touches; the position
\* before it is not one in which the opponent is in check.
GivesCheck(p, m) ==
  LET me == p.turn
      from == From(m)
      to == To(m)
      type == TypeOf(p.board[from])
      cap == to \in Occ(p)
      q == After(p, m)
      k == KingSq(p, Opp(me))
      rook(line) == RookLine(k, line, Occ(q)) \cap Pieces(q, me, {"r"}) # {}
      cannon(line) == CannonLine(k, line, Occ(q)) \cap Pieces(q, me, {"c"}) # {}
      pawn == PawnAttd[me][k] \cap Pieces(q, me, {"p"}) # {}
      along(line) ==
        \/ type = "p" /\ pawn
        \/ cap /\ type = "r" /\ Screens(q, to, k) = 0
        \/ cap /\ type \in {"p", "c"} /\ cannon(line)
        \/ cap /\ type = "c" /\ rook(line)
      leaves(line) == On(line, from, k) /\ (cannon(line) \/ rook(line))
      enters(line) ==
        /\ On(line, to, k)
        /\ \/ type = "r" /\ Screens(q, to, k) = 0
           \/ type = "p" /\ pawn
           \/ type = "c" /\ Screens(q, to, k) = 1
           \/ type # "r" /\ ~cap /\ cannon(line)
      unblocks == IsLegPos(from, k) /\ KnightAttd(k, Occ(q)) \cap Pieces(q, me, {"n"}) # {}
      jumps == type = "n" /\ to \in KnightAttNoMask[k] /\ LegalLeg(to, k) \notin Occ(q)
  IN CASE type = "k" -> SameFile(from, k) /\ SameRank(from, to) /\ cannon(FileSteps)
       [] type # "k" /\ \E line \in Sides : On(line, from, k) /\ On(line, to, k) ->
            \E line \in Sides : On(line, from, k) /\ On(line, to, k) /\ along(line)
       [] OTHER -> unblocks \/ jumps \/ \E line \in Sides : leaves(line) \/ enters(line)

\* An entry of the stack; pos, the position before the move, is there to state
\* properties with.
Entry(p, key, m) ==
  [lock |-> key, move |-> m, cap |-> Captured(p, m), check |-> GivesCheck(p, m), pos |-> p]

\* Mutant: the captured piece is forgotten.
UndoneBare(p, e) == [board |-> RepUndo(p.board, e.move), turn |-> Opp(p.turn)]

\* move_undo, from the position after the move of entry e.
Undone(p, e) ==
  LET back == RepUndo(p.board, e.move)
      to == To(e.move)
      restored == [s \in DOMAIN back \cup {to} |-> IF s = to THEN e.cap ELSE back[s]]
  IN [board |-> IF e.cap = None THEN back ELSE restored, turn |-> Opp(p.turn)]

UndoToggles(p, e) ==
  LET piece == p.board[To(e.move)]
  IN {<<piece, From(e.move)>>, <<piece, To(e.move)>>} \cup TurnKey
     \cup (IF e.cap = None THEN {} ELSE {<<e.cap, To(e.move)>>})
=============================================================================
