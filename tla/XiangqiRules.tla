---------------------------- MODULE XiangqiRules ----------------------------
(***************************************************************************)
(* The repetition rules: who, if anyone, must not repeat (rep_check).  A     *)
(* perpetual check loses, then a perpetual chase: of a piece that moves, or *)
(* of one that stands still; everything else draws.                        *)
(*                                                                         *)
(* Below, p is a position or a board with a turn, block the squares taken   *)
(* as occupied (blockers, or blockers without a capturing piece).           *)
(***************************************************************************)
EXTENDS XiangqiPlay

-----------------------------------------------------------------------------
(* Pins *)

Guard(p, s) == KingSq(p, ColorOf(p.board[s]))
Enemies(p, s, types) == Pieces(p, Opp(ColorOf(p.board[s])), types)
Count(a, b, block) == Cardinality(Between(a, b) \cap block)

\* The piece on s is all that stands between its king and a rook, or one of the
\* two screens of a cannon.
LinePinned(p, s, block, line, sliders) ==
  LET k == Guard(p, s)
      pins(types, n) == \E a \in Enemies(p, s, types) \cap block :
                          On(line, a, k) /\ Mid(s, k, a) /\ Count(a, k, block) = n
  IN On(line, s, k) /\ (pins(sliders, 1) \/ pins({"c"}, 2))

RankPinned(p, s, block) == LinePinned(p, s, block, RankSteps, {"r"})
FilePinned(p, s, block) == LinePinned(p, s, block, FileSteps, {"r", "k"})

KnightPinnedBy(p, s, knights) ==
  LET k == Guard(p, s)
  IN IsLegPos(s, k) /\ \E n \in KnightAttNoMask[k] \cap knights : LegalLeg(n, k) = s
KnightPinned(p, s, block) == KnightPinnedBy(p, s, Enemies(p, s, {"n"}) \cap block)
OtherKnightPinned(p, s, knight) == KnightPinnedBy(p, s, Enemies(p, s, {"n"}) \ {knight})

Pinned(p, s, block) == KnightPinned(p, s, block) \/ RankPinned(p, s, block) \/ FilePinned(p, s, block)

-----------------------------------------------------------------------------
(* Protection *)

\* The pieces of color c and of the types that reach s and are not pinned.
Reaching(p, s, c, types, block) ==
  LET of(type) == IF type \in types THEN Pieces(p, c, {type}) \cap block ELSE {}
  IN {g \in (PawnAttd[c][s] \cap of("p"))
            \cup (RookAtt(s, block) \cap of("r"))
            \cup (CannonAtt(s, block) \cap of("c"))
            \cup (KnightAttd(s, block) \cap of("n"))
            \cup (IF s \in AdvisorPos(c) THEN AdvisorAtt[s] \cap of("a") ELSE {})
            \cup (IF s \in BishopPos(c) THEN BishopAtt(s, block) \cap of("b") ELSE {})
        : ~Pinned(p, g, block)}

\* The king may take back on s.
KingProtected(p, s, att) ==
  LET me == ColorOf(p.board[s])
      other == KingSq(p, Opp(me))
      block == Occ(p) \ {att}
  IN /\ s \in KingPos(me) /\ KingSq(p, me) \in KingAtt[s]
     /\ ~(SameFile(s, other) /\ Count(s, other, block) = 0)
     /\ Reaching(p, s, Opp(me), {"p", "n", "r", "c"}, block) = {}

\* The screen that a cannon would need to take the king takes back itself.
ScreenProtects(p, s, k, cannon, block) ==
  LET pin == Min(Between(cannon, k) \cap block)
      piece == p.board[pin]
  IN /\ ~Pinned(p, pin, block)
     /\ ColorOf(piece) = ColorOf(p.board[s])
     /\ CASE TypeOf(piece) = "n" -> s \in KnightAtt(pin, block)
          [] TypeOf(piece) = "a" -> s \in AdvisorAtt[pin]
          [] TypeOf(piece) = "r" -> s \in RookAtt(pin, block)
          [] TypeOf(piece) = "c" -> s \in CannonAtt(pin, block)
          [] OTHER -> FALSE

\* Mutant: only the king takes back.
ProtectedByKing(p, s, att) == KingProtected(p, s, att)

\* Whether a capture on s from att can be answered there.  A capture that leaves
\* the line or the leg of the king comes with a check that has to be answered.
Protected(p, s, att) ==
  LET me == ColorOf(p.board[s])
      k == KingSq(p, me)
      block == Occ(p) \ {att}
      lines == {line \in Sides : On(line, att, k)}
      rooks(line) == RookLine(k, line, block) \cap Pieces(p, Opp(me), {"r"})
      cannons(line) == CannonLine(k, line, block) \cap Pieces(p, Opp(me), {"c"})
      away(line) == ~On(line, s, att)
      discovers == \E line \in lines :
        rooks(line) # {} /\ (away(line) \/ s \notin Between(Min(rooks(line)), k))
      unblocks == lines = {} /\ IsLegPos(att, k)
                  /\ KnightAttd(k, block) \cap Pieces(p, Opp(me), {"n"}) # {}
      behind == {line \in lines : cannons(line) # {} /\
        (away(line) \/ Between(Min(cannons(line)), k) \cap Occ(p) = {s, att})}
  IN /\ ~discovers /\ ~unblocks
     /\ \/ behind = {} /\ Reaching(p, s, me, Type \ {"k"}, block) # {}
        \/ \E line \in behind : away(line) /\ ScreenProtects(p, s, k, Min(cannons(line)), block)
        \/ (behind = {} \/ \E line \in behind : ~away(line)) /\ KingProtected(p, s, att)

-----------------------------------------------------------------------------
(* What a move attacks *)

\* The move m, made in p, attacks the piece on s; a passive attack need not be
\* one that the move itself began.
Turned(p, m, s) ==
  \/ SameRank(From(m), To(m)) /\ SameFile(To(m), s) /\ ~RankPinned(p, To(m), Occ(p))
  \/ SameFile(From(m), To(m)) /\ SameRank(To(m), s) /\ ~FilePinned(p, To(m), Occ(p))

\* The pieces that attack s, each by the rules of its type; fresh: that of the
\* move counts as soon as it has turned.
RookAttacks(p, m, s, fresh) ==
  LET type == TypeOf(p.board[s])
      block == Occ(p)
  IN {a \in RookAtt(s, block) \cap Pieces(p, ColorOf(p.board[To(m)]), {"r"}) :
        /\ type # "r" \/ Pinned(p, s, block)
        /\ IF a = To(m) /\ fresh THEN Turned(p, m, s)
           ELSE /\ ~RankPinned(p, a, block) /\ ~FilePinned(p, a, block)
                /\ (type = "n" /\ ~OtherKnightPinned(p, a, s)) \/ ~KnightPinned(p, a, block)}

CannonAttacks(p, m, s, fresh, passive) ==
  LET type == TypeOf(p.board[s])
      block == Occ(p)
      before == [p EXCEPT !.board = RepUndo(p.board, m)]
      free(a) ==
        IF type # "c" THEN ~Pinned(p, a, block)
        ELSE /\ ~KnightPinned(p, a, block)
             /\ IF SameRank(a, s) THEN ~FilePinned(p, a, block) ELSE ~RankPinned(p, a, block)
      began(a) == s \notin CannonAtt(a, Occ(before)) \/ Pinned(before, a, Occ(before))
  IN {a \in CannonAtt(s, block) \cap Pieces(p, ColorOf(p.board[To(m)]), {"c"}) :
        /\ type # "c" \/ Pinned(p, s, block)
        /\ IF a = To(m) /\ fresh THEN Turned(p, m, s)
           ELSE free(a) /\ (type # "r" \/ passive \/ began(a))}

KnightAttacks(p, m, s, fresh, passive) ==
  LET type == TypeOf(p.board[s])
      block == Occ(p)
      before == [p EXCEPT !.board = RepUndo(p.board, m)]
      began(a) == LegalLeg(a, s) \in Occ(before) \/ Pinned(before, a, Occ(before))
  IN {a \in KnightAttd(s, block) \cap Pieces(p, ColorOf(p.board[To(m)]), {"n"}) :
        /\ type # "n" \/ LegalLeg(s, a) \in block \/ Pinned(p, s, block)
        /\ ~Pinned(p, a, block)
        /\ (a = To(m) /\ fresh) \/ type # "r" \/ passive \/ began(a)}

GuardAttacks(p, m, s, passive) ==
  LET c == ColorOf(p.board[To(m)])
      before == [p EXCEPT !.board = RepUndo(p.board, m)]
      bishops == IF s \in BishopPos(c) THEN BishopAtt(s, Occ(p)) \cap Pieces(p, c, {"b"}) ELSE {}
      advisors == IF s \in AdvisorPos(c) THEN AdvisorAtt[s] \cap Pieces(p, c, {"a"}) ELSE {}
      opened(a) == a \in bishops /\ (a + s) \div 2 \in Occ(before)
  IN {a \in bishops \cup advisors :
        /\ ~Pinned(p, a, Occ(p))
        /\ passive \/ a = To(m) \/ opened(a) \/ Pinned(before, a, Occ(before))}

\* A cannon or a knight attacks a rook even if it is protected.
Attackers(p, m, s, passive) ==
  LET rook == TypeOf(p.board[s]) = "r"
      fresh == ~passive \/ (rook /\ KnightPinned(p, s, Occ(p)))
  IN {a \in RookAttacks(p, m, s, fresh) \cup CannonAttacks(p, m, s, fresh, passive)
            \cup KnightAttacks(p, m, s, fresh, passive) \cup GuardAttacks(p, m, s, passive) :
        (rook /\ TypeOf(p.board[a]) \in {"c", "n"}) \/ ~Protected(p, s, a)}

\* Mutant: the river is crossed towards White's side, whoever attacks.
MoveAttackSqBelow(p, m, s, passive) ==
  (TypeOf(p.board[s]) = "p" => HalfOf(s) = White) /\ Attackers(p, m, s, passive) # {}

\* A pawn that has not crossed the river may be attacked.
MoveAttackSq(p, m, s, passive) ==
  /\ TypeOf(p.board[s]) = "p" => HalfOf(s) = ColorOf(p.board[To(m)])
  /\ Attackers(p, m, s, passive) # {}

\* No capture on s was there for the taking.
AllProtected(p, s) == \A m \in GenChaseLegals(p) : To(m) = s => Protected(p, s, From(m))

IsChase(p, m) ==
  /\ To(m) \notin Occ(p)
  /\ \E target \in Us(p, Opp(p.turn)) :
       MoveAttackSq([p EXCEPT !.board = RepDo(p.board, m)], m, target, FALSE) /\ AllProtected(p, target)

-----------------------------------------------------------------------------
(* The cycle that led back to the position *)

\* The moves of the side to move at i, i + 2, ..., the last but one of the stack.
Mine(stack, i) == {j \in i..(Len(stack) - 1) : (Len(stack) - j) % 2 = 1}
Theirs(stack, i) == {j + 1 : j \in Mine(stack, i)}

\* Where the cycle begins: the latest occurrence of the position.
Start(key, stack) == Max({j \in Mine(stack, 1) : stack[j].lock = key})

\* Position(p, stack)[i] is the one before the i-th move of the cycle.
Positions(p, stack) ==
  LET n == Len(stack)
      board[i \in 1..(n + 1)] == IF i = n + 1 THEN p.board ELSE RepUndo(board[i + 1], stack[i].move)
  IN [i \in 1..(n + 1) |-> [board |-> board[i], turn |-> IF (n + 1 - i) % 2 = 0 THEN p.turn ELSE Opp(p.turn)]]

\* The moves of one side, at the indices of moves, chase the piece that was, or
\* will be, on target[j].
Chases(pos, stack, moves, target) ==
  /\ \A j \in moves : ~stack[j].check
  /\ \A j \in moves : MoveAttackSq(pos[j + 1], stack[j].move, target[j], FALSE)
  /\ \A j \in moves : AllProtected(pos[j], target[j])

\* One piece makes all the moves at the given indices.
OnePiece(stack, moves) ==
  \A j \in moves : j + 2 \in moves => From(stack[j + 2].move) = To(stack[j].move)

CheckMoveCatch(p, key, stack) ==
  LET mine == Mine(stack, Start(key, stack))
      theirs == Theirs(stack, Start(key, stack))
      moves(side) == IF side = "me" THEN mine ELSE theirs
      others(side) == IF side = "me" THEN theirs ELSE mine
      target(side) ==
        [j \in moves(side) |-> IF side = "me" THEN From(stack[j + 1].move) ELSE To(stack[j - 1].move)]
  IN {side \in {"me", "opp"} :
        /\ OnePiece(stack, others(side))
        /\ Chases(Positions(p, stack), stack, moves(side), target(side))}

-----------------------------------------------------------------------------
(* The chase of a piece that stands still *)

GenStaticCap(p, c) ==
  {t \in Us(p, Opp(c)) : \E s \in Pieces(p, c, Type \ {"k", "p"}) : t \in Reach(p, s)}

\* 0: not caught, 1: caught, 2: a rook that a knight pins is caught.
StaticCatch(pos, stack, moves, s) ==
  LET rook == TypeOf(pos[Max(moves)].board[s]) = "r"
      free(p) == \E m \in GenChaseLegals(p) :
        /\ To(m) = s
        /\ \/ InCheck(p, p.turn)
           \/ rook /\ TypeOf(p.board[From(m)]) \notin {"r", "b", "a"}
           \/ ~Protected(p, s, From(m))
  IN IF \E j \in moves : ~MoveAttackSq(pos[j + 1], stack[j].move, s, TRUE) \/ free(pos[j]) THEN 0
     ELSE IF rook /\ \E j \in moves : KnightPinned(pos[j], s, Occ(pos[j])) THEN 2
     ELSE 1

\* What the side c catches: the verdict on the first square that has one.
Caught(pos, stack, moves, others, c, last) ==
  LET touched == {From(stack[j].move) : j \in others} \cup {To(stack[j].move) : j \in others}
      pawns == {s \in Pieces(last, Opp(c), {"p"}) : HalfOf(s) = Opp(c)}
      verdicts == {<<s, StaticCatch(pos, stack, moves, s)>> : s \in GenStaticCap(last, c) \ (touched \cup pawns)}
      first(found) == IF found = {} THEN 0 ELSE (CHOOSE v \in found : \A w \in found : v[1] <= w[1])[2]
  IN IF \E j \in moves : stack[j].check THEN 0 ELSE first({v \in verdicts : v[2] > 0})

\* Of two that catch, the one that catches a rook a knight pins is banned alone.
Weighed(flag, caught) ==
  LET both == flag \cup {side \in {"me", "opp"} : caught[side] > 0}
      pinned == {side \in {"me", "opp"} : caught[side] = 2}
  IN CASE both # {"me", "opp"} \/ pinned = {} -> both
       [] "me" \in pinned -> {"me"}
       [] OTHER -> {"opp"}

CheckStaticCatch(p, key, stack, flag) ==
  LET n == Len(stack)
      pos == Positions(p, stack)
      mine == Mine(stack, Start(key, stack))
      theirs == Theirs(stack, Start(key, stack))
      moves(side) == IF side = "me" THEN mine ELSE theirs
      others(side) == IF side = "me" THEN theirs ELSE mine
  IN Weighed(flag, [side \in {"me", "opp"} |->
       Caught(pos, stack, moves(side), others(side), IF side = "me" THEN p.turn ELSE Opp(p.turn),
              pos[IF side = "me" THEN n ELSE n + 1])])

-----------------------------------------------------------------------------

ChaseVerdict(p, key, stack, moving) ==
  LET ban(flag) == IF moving = {"me", "opp"} \/ Cardinality(flag) # 1 THEN "draw"
                   ELSE CHOOSE side \in flag : TRUE
  IN ban(CheckStaticCatch(p, key, stack, moving))

\* "me" must not repeat, "opp" must not, "draw", or "none": no such repetition.
RepCheck(p, key, stack, times) ==
  LET n == Len(stack)
      quiet(i) == \A j \in i..n : stack[j].cap = None
      recurs == {i \in Mine(stack, 1) : quiet(i) /\ stack[i].lock = key}
      nth == {i \in recurs : Cardinality({r \in recurs : r >= i}) = times}
      first == CHOOSE i \in nth : TRUE
      meCheck == \A j \in Mine(stack, first) : stack[j].check
      oppCheck == \A j \in Theirs(stack, first) : stack[j].check
  IN IF n < 4 * times \/ nth = {} THEN "none"
     ELSE CASE meCheck /\ ~oppCheck -> "me"
            [] ~meCheck /\ oppCheck -> "opp"
            [] meCheck /\ oppCheck -> "draw"
            [] OTHER -> ChaseVerdict(p, key, stack, CheckMoveCatch(p, key, stack))
=============================================================================
