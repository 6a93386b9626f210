------------------------------ MODULE MCXiangqi ------------------------------
(* Positions for XiangqiGame: some with all their moves, some with the moves of *)
(* a cycle.                                                                   *)
EXTENDS XiangqiGame

At(man) == SquareAt(man[2], man[3])

\* The pieces of one color, each as type, file and rank.
Men(c, men) == [s \in {At(man) : man \in men} |-> <<c, (CHOOSE man \in men : At(man) = s)[1]>>]

Fen(white, black, turn) == [board |-> Men(White, white) @@ Men(Black, black), turn |-> turn]

\* To and fro between two squares, given as file and rank.
ToAndFro(a, b) == {<<SquareAt(a[1], a[2]), SquareAt(b[1], b[2])>>, <<SquareAt(b[1], b[2]), SquareAt(a[1], a[2])>>}

All(fen, plies) == [fen |-> fen, plies |-> plies, only |-> {}]
Cycle(fen, moves) == [fen |-> fen, plies |-> 6, only |-> moves]

-----------------------------------------------------------------------------

Opening ==
  LET row == <<"r", "n", "b", "a", "k", "a", "b", "n", "r">>
      side(r(_)) == {<<row[f + 1], f, r(0)>> : f \in 0..8} \cup {<<"c", f, r(2)>> : f \in {1, 7}}
                 \cup {<<"p", f, r(3)>> : f \in {0, 2, 4, 6, 8}}
  IN Fen(side(LAMBDA r : r), side(LAMBDA r : 9 - r), White)

\* Lines, legs and eyes: a screen that may step out, a knight whose leg is freed,
\* a pawn beside the king, a cannon behind two pieces.
Lines ==
  Fen({<<"k", 4, 0>>, <<"a", 4, 1>>, <<"b", 2, 0>>, <<"c", 4, 5>>, <<"n", 5, 1>>, <<"r", 0, 0>>, <<"p", 3, 8>>},
      {<<"k", 4, 9>>, <<"c", 4, 7>>, <<"a", 4, 8>>, <<"r", 8, 4>>, <<"n", 6, 2>>}, White)

\* The kings on one file with a pawn between; cannons and rooks on the king's rank.
Facing ==
  Fen({<<"k", 4, 1>>, <<"p", 4, 4>>, <<"c", 2, 1>>, <<"n", 3, 3>>, <<"p", 6, 6>>},
      {<<"k", 4, 8>>, <<"c", 0, 1>>, <<"r", 7, 1>>, <<"p", 5, 2>>, <<"n", 5, 3>>, <<"p", 8, 6>>}, White)

\* Black is in check and may block, take or go away.
Checked ==
  Fen({<<"k", 3, 0>>, <<"c", 4, 2>>, <<"r", 5, 5>>, <<"p", 4, 4>>},
      {<<"k", 4, 9>>, <<"a", 3, 9>>, <<"b", 2, 9>>, <<"n", 2, 5>>, <<"r", 8, 8>>}, Black)

\* The rook checks the king wherever it goes.
Checking ==
  Cycle(Fen({<<"k", 3, 0>>, <<"r", 4, 5>>}, {<<"k", 4, 9>>, <<"a", 3, 7>>}, Black),
        ToAndFro(<<4, 5>>, <<5, 5>>) \cup ToAndFro(<<4, 9>>, <<5, 9>>))

\* The rook runs after a cannon that nothing protects, or that a rook protects.
Chasing(guards) ==
  Cycle(Fen({<<"k", 3, 0>>, <<"r", 0, 7>>}, {<<"k", 5, 9>>, <<"c", 2, 7>>} \cup guards, Black),
        ToAndFro(<<0, 7>>, <<0, 5>>) \cup ToAndFro(<<2, 7>>, <<2, 5>>)
        \cup ToAndFro(<<3, 0>>, <<3, 1>>))

\* A cannon runs after a rook, from behind a pawn on either file.
CannonAfterRook ==
  Cycle(Fen({<<"k", 4, 0>>, <<"c", 2, 2>>, <<"p", 4, 4>>}, {<<"k", 5, 9>>, <<"r", 2, 7>>, <<"p", 2, 4>>, <<"p", 3, 4>>}, Black),
        ToAndFro(<<2, 2>>, <<3, 2>>) \cup ToAndFro(<<2, 7>>, <<3, 7>>))

\* A knight runs after a cannon.
KnightAfterCannon ==
  Cycle(Fen({<<"k", 3, 0>>, <<"n", 4, 3>>}, {<<"k", 5, 9>>, <<"c", 3, 5>>}, Black),
        ToAndFro(<<4, 3>>, <<5, 5>>) \cup ToAndFro(<<3, 5>>, <<3, 6>>) \cup ToAndFro(<<3, 0>>, <<3, 1>>))

\* A piece that stands still on rank r is protected by a cannon that needs one
\* screen; a white knight makes it two or none, and a black one puts it right.
Standing(type, r) ==
  Cycle(Fen({<<"k", 3, 0>>, <<"r", 6, r - 2>>, <<"n", 1, r - 2>>},
            {<<"k", 5, 9>>, <<type, 6, r>>, <<"n", 3, r>>, <<"c", 0, r>>}, White),
        ToAndFro(<<1, r - 2>>, <<2, r>>) \cup ToAndFro(<<3, r>>, <<4, r + 2>>))

\* Two that stand still, on either side of a rook, each with its cannon: the knights
\* undo and restore the protection of both, which a guard may keep for one of them.
TwoStanding(guards) ==
  Cycle(Fen({<<"k", 3, 0>>, <<"r", 6, 4>>, <<"n", 1, 3>>},
            {<<"k", 5, 9>>, <<"n", 6, 5>>, <<"p", 6, 3>>, <<"n", 3, 5>>, <<"c", 0, 5>>, <<"c", 0, 3>>} \cup guards, White),
        ToAndFro(<<1, 3>>, <<2, 5>>) \cup ToAndFro(<<3, 5>>, <<4, 3>>))

\* Neither side wants anything.
Idle ==
  Cycle(Fen({<<"k", 3, 0>>, <<"a", 4, 1>>}, {<<"k", 5, 9>>, <<"a", 4, 8>>}, White),
        ToAndFro(<<3, 0>>, <<3, 1>>) \cup ToAndFro(<<5, 9>>, <<5, 8>>))

MCStarts ==
  {All(Opening, 1), All(Lines, 2), All(Facing, 2), All(Checked, 2), Checking, Chasing({}), Chasing({<<"r", 2, 9>>}),
   CannonAfterRook, KnightAfterCannon, Standing("n", 5), Standing("p", 4),
   TwoStanding({}), TwoStanding({<<"r", 6, 9>>}), TwoStanding({<<"p", 7, 3>>}), Idle}
=============================================================================
