---------------------------- MODULE XiangqiMoves ----------------------------
(***************************************************************************)
(* Move generation and the two legality tests of xiangqi.cpp: one for a     *)
(* side in check, which looks at the position after the move, and one for a *)
(* side that is not, which looks only at the lines the move touches.        *)
(* A move is the pair of its squares.                                       *)
(***************************************************************************)
EXTENDS XiangqiBoard

From(m) == m[1]
To(m) == m[2]

-----------------------------------------------------------------------------
(* gen_moves and its counterpart move_is_pseudo *)

Reach(p, s) ==
  LET c == ColorOf(p.board[s])
      type == TypeOf(p.board[s])
  IN CASE type = "k" -> KingAtt[s]
       [] type = "a" -> AdvisorAtt[s]
       [] type = "b" -> BishopAtt(s, Occ(p))
       [] type = "n" -> KnightAtt(s, Occ(p))
       [] type = "r" -> RookAtt(s, Occ(p))
       [] type = "c" -> (RookAtt(s, Occ(p)) \ Occ(p)) \cup (CannonAtt(s, Occ(p)) \cap Us(p, Opp(c)))
       [] type = "p" -> PawnAtt[c][s]

GenMoves(p) == UNION {{s} \X (Reach(p, s) \ Us(p, p.turn)) : s \in Us(p, p.turn)}

OnLine(a, b) == SameRank(a, b) \/ SameFile(a, b)
Screens(p, a, b) == Cardinality(Between(a, b) \cap Occ(p))

MoveIsPseudo(p, m) ==
  LET from == From(m)
      to == To(m)
      type == TypeOf(p.board[from])
  IN /\ from # to /\ from \in Us(p, p.turn) /\ to \notin Us(p, p.turn)
     /\ CASE type = "r" -> OnLine(from, to) /\ Screens(p, from, to) = 0
          [] type = "c" -> OnLine(from, to) /\ Screens(p, from, to) = IF to \in Occ(p) THEN 1 ELSE 0
          [] type = "n" -> to \in KnightAttNoMask[from] /\ LegalLeg(from, to) \notin Occ(p)
          [] type = "b" -> to \in BishopAttNoMask[from] /\ (from + to) \div 2 \notin Occ(p)
          [] type = "a" -> to \in AdvisorAtt[from]
          [] type = "p" -> to \in PawnAtt[p.turn][from]
          [] type = "k" -> to \in KingAtt[from]

-----------------------------------------------------------------------------
(* The test of a side in check *)

\* What attacks the king on k, with the pieces of occ on the board and those of
\* the opponent on gone no longer.
Attacked(p, k, opp, occ, gone) ==
  LET of(type) == Pieces(p, opp, {type}) \ gone
  IN \/ RookAtt(k, occ) \cap of("r") # {}
     \/ CannonAtt(k, occ) \cap of("c") # {}
     \/ KnightAttd(k, occ) \cap of("n") # {}
     \/ PawnAttd[opp][k] \cap of("p") # {}
     \/ SameFile(k, KingSq(p, opp)) /\ Between(k, KingSq(p, opp)) \cap occ = {}

PseudoIsLegalIncheck(p, m) ==
  LET me == ColorOf(p.board[From(m)])
      king == TypeOf(p.board[From(m)]) = "k"
      block == Occ(p) \ {From(m)}
  IN IF king THEN ~Attacked(p, To(m), Opp(me), block, {})
     ELSE ~Attacked(p, KingSq(p, me), Opp(me), block \cup {To(m)}, {To(m)} \cap Us(p, Opp(me)))

-----------------------------------------------------------------------------
(* The test of a side not in check *)

OnSame(line, a, b) == IF line = FileSteps THEN SameFile(a, b) ELSE SameRank(a, b)

\* The second move, a capture of the king, became possible by the first one: its
\* piece left the line or the leg, or came to stand in it as a screen.
LineConnects(line, first, second, isCap) ==
  LET f1 == From(first)
      t1 == To(first)
      f2 == From(second)
      t2 == To(second)
  IN /\ OnSame(line, f2, t2)
     /\ IF OnSame(line, f1, t1)
        THEN OnSame(line, f2, f1) /\ Mid(f1, f2, t2) /\ (~Mid(t1, f2, t2) \/ isCap)
        ELSE \/ OnSame(line, f2, f1) /\ Mid(f1, f2, t2)
             \/ OnSame(line, f2, t1) /\ Mid(t1, f2, t2)

MoveConnect(first, second, isCap) ==
  LET f2 == From(second)
      t2 == To(second)
  IN \/ \E line \in {FileSteps, RankSteps} : LineConnects(line, first, second, isCap)
     \/ t2 \in KnightAttNoMask[f2] /\ LegalLeg(f2, t2) = From(first)
     \/ f2 \in Bishop_Pos /\ t2 \in BishopAttNoMask[f2] /\ (f2 + t2) \div 2 = From(first)

\* A king that goes along a rank meets new attackers on the file, and along the
\* rank only if it takes a piece there; and the other way round.
KingSafe(p, m) ==
  LET me == ColorOf(p.board[From(m)])
      to == To(m)
      of(types) == Pieces(p, Opp(me), types)
      along == IF SameFile(From(m), to) THEN FileSteps ELSE RankSteps
      across == IF SameFile(From(m), to) THEN RankSteps ELSE FileSteps
      slides(line) == of(IF line = FileSteps THEN {"r", "k"} ELSE {"r"})
  IN /\ RookLine(to, across, Occ(p)) \cap slides(across) = {}
     /\ CannonLine(to, across, Occ(p)) \cap of({"c"}) = {}
     /\ KnightAttd(to, Occ(p)) \cap of({"n"}) = {}
     /\ PawnAttd[Opp(me)][to] \cap of({"p"}) = {}
     /\ to \in Occ(p) =>
          /\ RookLine(to, along, Occ(p)) \cap slides(along) = {}
          /\ CannonLine(to, along, Occ(p) \ {From(m)}) \cap of({"c"}) = {}

\* A piece on a line of its king at k stays between, or does not uncover it.
PinKept(p, m, k, line) ==
  LET opp == Opp(ColorOf(p.board[From(m)]))
      block == Occ(p) \ {From(m)}
      slides == Pieces(p, opp, IF line = FileSteps THEN {"r", "k"} ELSE {"r"})
      rooks == RookLine(k, line, block) \cap slides
      cannons == CannonLine(k, line, block) \cap Pieces(p, opp, {"c"})
      attackers ==
        IF ~OnSame(line, From(m), To(m)) THEN rooks \cup cannons
        ELSE IF To(m) \notin Occ(p) THEN {}
        ELSE (cannons \ {To(m)}) \cup IF TypeOf(p.board[From(m)]) = "c" THEN rooks ELSE {}
  IN \A s \in attackers : ~MoveConnect(m, <<s, k>>, OnSame(line, From(m), To(m)))

\* Mutant: the screens are counted before the move.
NoScreenBefore(p, m, k) ==
  LET line == IF SameRank(To(m), k) THEN RankSteps ELSE FileSteps
      cannons == CannonLine(k, line, Occ(p)) \cap Pieces(p, Opp(ColorOf(p.board[From(m)])), {"c"})
  IN To(m) \notin Occ(p) /\ OnLine(To(m), k) => ~\E s \in cannons : MoveConnect(m, <<s, k>>, FALSE)

\* A piece that moves to an empty square may become the screen of a cannon.
NoScreen(p, m, k) ==
  LET block == Occ(p) \cup {To(m)}
      line == IF SameRank(To(m), k) THEN RankSteps ELSE FileSteps
      cannons == CannonLine(k, line, block) \cap Pieces(p, Opp(ColorOf(p.board[From(m)])), {"c"})
  IN To(m) \notin Occ(p) /\ OnLine(To(m), k) => ~\E s \in cannons : MoveConnect(m, <<s, k>>, FALSE)

PieceSafe(p, m) ==
  LET me == ColorOf(p.board[From(m)])
      from == From(m)
      k == KingSq(p, me)
      quiet == To(m) \notin Occ(p)
      knights == KnightAttNoMask[k] \cap Pieces(p, Opp(me), {"n"})
      line == IF SameRank(from, k) THEN RankSteps ELSE FileSteps
  IN /\ OnSame(line, from, k) => PinKept(p, m, k, line)
     /\ IsLegPos(from, k) => \A s \in knights : from = LegalLeg(s, k) => To(m) = s
     /\ \/ quiet /\ SameRank(from, k) /\ SameRank(from, To(m))
        \/ quiet /\ SameFile(from, k) /\ SameFile(from, To(m))
        \/ NoScreen(p, m, k)

PseudoIsLegal(p, m) ==
  IF TypeOf(p.board[From(m)]) = "k" THEN KingSafe(p, m) ELSE PieceSafe(p, m)

-----------------------------------------------------------------------------

\* The moves that can be made, and those the chase rules look at.
GenLegals(p) ==
  {m \in GenMoves(p) : IF InCheck(p, p.turn) THEN PseudoIsLegalIncheck(p, m) ELSE PseudoIsLegal(p, m)}
GenChaseLegals(p) == {m \in GenMoves(p) : PseudoIsLegal(p, m)}
=============================================================================
