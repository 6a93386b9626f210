------------------------------- MODULE MCChess -------------------------------
(* Positions for ChessGame, each with the plies played from it. *)
EXTENDS ChessGame

Files == [a |-> 0, b |-> 1, c |-> 2, d |-> 3, e |-> 4, f |-> 5, g |-> 6, h |-> 7]
Sq(file, rank) == SquareAt(Files[file], rank - 1)

\* The pieces of one color, each as type, file and rank.
Set(c, men) == [s \in {Sq(m[2], m[3]) : m \in men} |->
                  <<c, (CHOOSE m \in men : Sq(m[2], m[3]) = s)[1]>>]

Fen(white, black, stm, cr, ep) ==
  [board |-> Set(White, white) @@ Set(Black, black), stm |-> stm, cr |-> cr, ep |-> ep]

\* Both sides may castle both ways, and each can take the other's rooks.
Castlers ==
  Fen({<<"k", "e", 1>>, <<"r", "a", 1>>, <<"r", "h", 1>>},
      {<<"k", "e", 8>>, <<"r", "a", 8>>, <<"r", "h", 8>>}, White, Right, NoSq)

\* After e7e5 only the pawn on f5 may take: the other is pinned.
EnPassant ==
  Fen({<<"k", "e", 4>>, <<"p", "d", 5>>, <<"p", "f", 5>>},
      {<<"k", "g", 8>>, <<"p", "e", 7>>, <<"b", "b", 7>>}, Black, {}, NoSq)

\* After e7e5 taking would uncover the king along the rank.
Uncovered ==
  Fen({<<"k", "c", 5>>, <<"p", "d", 5>>}, {<<"k", "h", 8>>, <<"p", "e", 7>>, <<"r", "h", 5>>},
      Black, {}, NoSq)

\* The pawn promotes on two squares, with check, mate or neither.
Promoting ==
  Fen({<<"k", "g", 6>>, <<"p", "f", 7>>, <<"p", "c", 7>>},
      {<<"k", "h", 8>>, <<"r", "e", 8>>, <<"p", "b", 2>>}, White, {}, NoSq)

\* A pawn that takes opens its file and gives a second check from beside the king.
TwoChecks ==
  Fen({<<"k", "g", 1>>, <<"r", "d", 1>>, <<"p", "d", 7>>},
      {<<"k", "d", 8>>, <<"b", "c", 8>>, <<"n", "e", 8>>}, White, {}, NoSq)

\* Two rooks on one file, three knights for one square, pins on line and diagonal.
Crowded ==
  Fen({<<"k", "e", 1>>, <<"n", "e", 4>>, <<"n", "c", 4>>, <<"n", "c", 2>>,
       <<"r", "a", 1>>, <<"r", "a", 5>>},
      {<<"k", "e", 8>>, <<"r", "e", 6>>, <<"b", "a", 4>>}, White, {}, NoSq)

\* Fischer random: rooks inside the corners, one of them pinned on its rank.
Fischer ==
  Fen({<<"k", "d", 1>>, <<"r", "b", 1>>, <<"r", "g", 1>>},
      {<<"k", "f", 8>>, <<"r", "e", 8>>, <<"r", "a", 1>>}, White,
      {<<White, "king">>, <<White, "queen">>, <<Black, "queen">>}, NoSq)

\* The right of the inner rook, and one for which there is no rook.
Inner ==
  Fen({<<"k", "c", 1>>, <<"r", "e", 1>>, <<"r", "h", 1>>}, {<<"k", "c", 8>>, <<"p", "c", 7>>},
      White, {Letter(White, 4), Letter(Black, 3)}, NoSq)
NoRook == Fen({<<"k", "c", 1>>, <<"p", "c", 2>>}, {<<"k", "c", 8>>}, White, {Letter(White, 3)}, NoSq)

\* Both rights are there, one rook's way is taken by a bishop, the other's by a knight.
Blocked ==
  Fen({<<"k", "e", 1>>, <<"r", "a", 1>>, <<"r", "h", 1>>, <<"b", "f", 1>>},
      {<<"k", "e", 8>>, <<"n", "b", 1>>, <<"r", "h", 8>>, <<"n", "g", 8>>},
      White, {<<White, "king">>, <<White, "queen">>, <<Black, "king">>}, NoSq)

\* Each side has one move at a time, its king to and fro: every position comes
\* back after four plies, and again after eight.
Shuttle ==
  Fen({<<"k", "a", 1>>, <<"b", "d", 1>>, <<"p", "a", 2>>, <<"p", "c", 2>>, <<"p", "e", 2>>,
       <<"p", "h", 6>>, <<"p", "f", 6>>, <<"p", "d", 6>>, <<"p", "e", 7>>},
      {<<"k", "h", 8>>, <<"b", "e", 8>>, <<"p", "h", 7>>, <<"p", "f", 7>>, <<"p", "d", 7>>,
       <<"p", "a", 3>>, <<"p", "c", 3>>, <<"p", "e", 3>>, <<"p", "d", 2>>},
      White, {}, NoSq)

MCStarts == {<<Castlers, 1>>, <<EnPassant, 2>>, <<Uncovered, 2>>, <<Promoting, 1>>, <<TwoChecks, 1>>, <<Crowded, 1>>,
             <<Fischer, 1>>, <<Inner, 1>>, <<NoRook, 1>>, <<Blocked, 1>>,
             <<Shuttle, 8>>}

ASSUME StartsExplained
=============================================================================
