---------------------------- MODULE XiangqiCodec ----------------------------
(***************************************************************************)
(* The texts of a xiangqi position and of a move, the hexadecimal key the    *)
(* database stores a position under, and the mirrors that let four          *)
(* positions share one entry (xiangqi.cpp and ccboard.cpp).                  *)
(*                                                                         *)
(* A text is its ten rows, from the top, and the turn; a row is a sequence   *)
(* of symbols: a piece or a run of empty squares.  A nibble is a number.     *)
(***************************************************************************)
EXTENDS XiangqiRules, SequencesExt

Run(n) == <<2, n>>
IsRun(symbol) == symbol[1] = 2

-----------------------------------------------------------------------------
(* to_fen and from_fen: files go from the ninth to the first *)

RunFrom(board, s) == Min({n \in 1..9 : n = FileOf(s) + 1 \/ s - n \in DOMAIN board})
Symbol(board, s) ==
  CASE s \in DOMAIN board -> <<board[s]>>
    [] s \notin DOMAIN board /\ (FileOf(s) = 8 \/ s + 1 \in DOMAIN board) -> <<Run(RunFrom(board, s))>>
    [] OTHER -> <<>>

Row(board, r) == FlattenSeq([i \in 1..9 |-> Symbol(board, SquareAt(9 - i, r))])
ToFen(p) == [rows |-> [i \in 1..10 |-> Row(p.board, 10 - i)], turn |-> p.turn]

Cells(row) ==
  FlattenSeq([i \in DOMAIN row |-> IF IsRun(row[i]) THEN [n \in 1..row[i][2] |-> None] ELSE <<row[i]>>])

ReadFen(text) ==
  LET cell == [s \in Square |-> Cells(text.rows[10 - RankOf(s)])[9 - FileOf(s)]]
  IN [board |-> [s \in {s \in Square : cell[s] \in Piece} |-> cell[s]], turn |-> text.turn]

-----------------------------------------------------------------------------
(* The key of the database *)

PieceNibble(piece) ==
  (IF ColorOf(piece) = White THEN 8 ELSE 0)
  + CASE TypeOf(piece) = "p" -> 1 [] TypeOf(piece) = "a" -> 2 [] TypeOf(piece) = "b" -> 3
      [] TypeOf(piece) = "c" -> 4 [] TypeOf(piece) = "n" -> 5 [] TypeOf(piece) = "r" -> 6
      [] TypeOf(piece) = "k" -> 7

Char2BitHex(symbol) ==
  CASE symbol = Run(1) -> <<0>>
    [] IsRun(symbol) /\ symbol # Run(1) -> <<8, symbol[2] - 1>>
    [] OTHER -> <<PieceNibble(symbol)>>

\* Mutant: the last nibble goes whatever it is.
Shortened(nibbles) == IF Len(nibbles) % 2 = 0 THEN nibbles ELSE Front(nibbles)

\* A whole number of bytes: a last 0 goes, or one is added.
Padded(nibbles) ==
  CASE Len(nibbles) % 2 = 0 -> nibbles
    [] Len(nibbles) % 2 = 1 /\ Last(nibbles) = 0 -> Front(nibbles)
    [] OTHER -> Append(nibbles, 0)

Fen2HexFen(text) ==
  LET row(symbols) == FlattenSeq([i \in DOMAIN symbols |-> Char2BitHex(symbols[i])])
  IN Padded(FlattenSeq([i \in DOMAIN text.rows |-> row(text.rows[i])])
            \o (IF text.turn = Black THEN <<1>> ELSE <<>>))

BitHex2Char(n) == IF n = 0 THEN Run(1) ELSE CHOOSE piece \in Piece : PieceNibble(piece) = n

\* One symbol of the key read: the rows are filled from the first open square sq; an
\* 8 and the nibble after it are a run.  A key that has ended goes on with zeros.
ReadSymbol(reader) ==
  LET hex == reader.hex
      n == IF hex = <<>> THEN 0 ELSE hex[1]
      symbol == IF n = 8 THEN Run(hex[2] + 1) ELSE BitHex2Char(n)
  IN [rows |-> [reader.rows EXCEPT ![reader.sq \div 9 + 1] = Append(@, symbol)],
      sq |-> reader.sq + Len(Cells(<<symbol>>)),
      hex |-> SubSeq(hex, IF n = 8 THEN 3 ELSE 2, Len(hex))]

\* The symbols fill the squares; the turn follows them.
HexFen2Fen(hex) ==
  LET reader[n \in 0..90] ==
        IF n = 0 THEN [rows |-> [i \in 1..10 |-> <<>>], sq |-> 0, hex |-> hex]
        ELSE LET before == reader[n - 1] IN IF before.sq = 90 THEN before ELSE ReadSymbol(before)
      end == reader[90]
  IN [rows |-> end.rows, turn |-> IF end.hex = <<>> \/ end.hex[1] = 0 THEN White ELSE Black]

-----------------------------------------------------------------------------
(* The mirrors: left and right, the colors, and both *)

Recolored(row) == [i \in DOMAIN row |-> IF IsRun(row[i]) THEN row[i] ELSE <<Opp(row[i][1]), row[i][2]>>]

GetLRFen(text) == [text EXCEPT !.rows = [i \in 1..10 |-> Reverse(@[i])]]
GetBWFen(text) == [rows |-> [i \in 1..10 |-> Recolored(text.rows[11 - i])], turn |-> Opp(text.turn)]
GetLRBWFen(text) ==
  [rows |-> [i \in 1..10 |-> Reverse(Recolored(text.rows[11 - i]))], turn |-> Opp(text.turn)]

\* The text of a move: twice a letter, of which 0 is an a, and a digit.
MoveToString(m) == [i \in 1..2 |-> <<8 - FileOf(m[i]), RankOf(m[i])>>]
MoveFromString(str) == [i \in 1..2 |-> SquareAt(8 - str[i][1], str[i][2])]

GetLRMove(str) == [i \in 1..2 |-> <<8 - str[i][1], str[i][2]>>]
GetBWMove(str) == [i \in 1..2 |-> <<str[i][1], 9 - str[i][2]>>]
GetLRBWMove(str) == [i \in 1..2 |-> <<8 - str[i][1], 9 - str[i][2]>>]
=============================================================================
