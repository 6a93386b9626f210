----------------------------- MODULE ChessCodec -----------------------------
(***************************************************************************)
(* The forms a position is stored under: the hexadecimal key of the         *)
(* database and its colour mirror (src/extensions/cboard/cboard.cpp), and    *)
(* the 24 bytes of Board::Compact (chess.hpp).                               *)
(*                                                                         *)
(* A text is a sequence of symbols: a piece, a run of empty squares, a       *)
(* slash, a castling token or a dash; a nibble is a number below 16.         *)
(***************************************************************************)
EXTENDS ChessSanitizer, SequencesExt

Run(n) == <<2, n>>
Slash == <<3>>
Dash == <<4>>

-----------------------------------------------------------------------------
(* The text of a FEN *)

\* A run of empty squares stands where it begins.
RunFrom(board, s) == Min({n \in 1..8 : FileOf(s) + n = 8 \/ s + n \in DOMAIN board})
Symbol(board, s) ==
  CASE s \in DOMAIN board -> <<board[s]>>
    [] s \notin DOMAIN board /\ (FileOf(s) = 0 \/ s - 1 \in DOMAIN board) -> <<Run(RunFrom(board, s))>>
    [] OTHER -> <<>>

\* The squares in the order of a FEN: from a8 to h1.
FromTop(i) == RelSquare(i, Black)

Placement(board) ==
  FlattenSeq([i \in 1..64 |->
    (IF i > 1 /\ i % 8 = 1 THEN <<Slash>> ELSE <<>>) \o Symbol(board, FromTop(i - 1))])

\* The castling tokens in the order the sanitizer writes them.
CastleText(fen) ==
  LET Of(c, side) == {token \in fen.cr :
        \/ token = <<c, side>>
        \/ token[1] = c /\ IsLetter(token) /\ ClosestSide(token[3], HomeFile(fen, c)) = side}
      Written(c, side) == SetToSeq(Of(c, side))
  IN IF fen.cr = {} THEN <<Dash>>
     ELSE Written(White, "king") \o Written(White, "queen")
          \o Written(Black, "king") \o Written(Black, "queen")

EpText(ep) == IF ep = NoSq THEN <<Dash>> ELSE <<FileOf(ep), RankOf(ep) + 1>>

TextOf(fen) ==
  [placement |-> Placement(fen.board), stm |-> fen.stm, cr |-> CastleText(fen), ep |-> EpText(fen.ep)]

-----------------------------------------------------------------------------
(* The key of the database *)

PieceNibble(piece) ==
  (IF piece[1] = White THEN 10 ELSE 3)
  + CASE piece[2] = "p" -> 0 [] piece[2] = "n" -> 1 [] piece[2] = "b" -> 2 [] piece[2] = "r" -> 3
      [] piece[2] = "q" -> 4 [] OTHER -> IF piece[1] = White THEN 5 ELSE 6

Char2BitHex(symbol) ==
  CASE symbol = Slash -> <<>>
    [] symbol[1] = 2 -> IF symbol[2] <= 3 THEN <<symbol[2] - 1>> ELSE <<8, symbol[2] - 4>>
    [] symbol[1] \in Color -> <<PieceNibble(symbol)>>

TokenNibble(right) == 10 + 2 * right[1] + IF right[2] = "king" THEN 0 ELSE 1

\* Mutant: the letters of the two colours get the same nibble.
ExtraUnmarked(token) ==
  CASE token = Dash -> <<0>>
    [] Len(token) = 2 -> <<TokenNibble(token)>>
    [] Len(token) = 3 -> <<token[3] + 1>>

Extra2BitHex(token) ==
  CASE token = Dash -> <<0>>
    [] Len(token) = 2 -> <<TokenNibble(token)>>
    [] Len(token) = 3 -> (IF token[1] = White THEN <<14>> ELSE <<>>) \o <<token[3] + 1>>

\* A whole number of bytes: a last 0 goes, or one is added.
Padded(nibbles) ==
  CASE Len(nibbles) % 2 = 0 -> nibbles
    [] Len(nibbles) % 2 = 1 /\ Last(nibbles) = 0 -> Front(nibbles)
    [] OTHER -> Append(nibbles, 0)

Fen2HexFen(text) ==
  LET coded(Code(_), symbols) == FlattenSeq([i \in DOMAIN symbols |-> Code(symbols[i])])
      ep == IF text.ep = <<Dash>> THEN <<0>> ELSE <<text.ep[1] + 1, text.ep[2]>>
  IN Padded(coded(Char2BitHex, text.placement) \o <<text.stm>>
            \o coded(Extra2BitHex, text.cr) \o <<9>> \o ep)

BitHex2Char(n) ==
  CASE n \in 0..2 -> Run(n + 1)
    [] OTHER -> CHOOSE piece \in Piece : PieceNibble(piece) = n

BitHex2Extra(n) ==
  CASE n = 0 -> Dash
    [] n \in 1..8 -> Letter(Black, n - 1)
    [] OTHER -> CHOOSE right \in Right : TokenNibble(right) = n

\* The symbols of the squares, read from hex[i] on when the squares before number
\* sq are filled; a key that ends early goes on with single empty squares.
ReadCells(hex) ==
  LET from[i \in 1..(Len(hex) + 65), sq \in 0..71] ==
        LET n == IF i <= Len(hex) THEN hex[i] ELSE 0
            slash == IF sq # 0 /\ sq % 8 = 0 THEN <<Slash>> ELSE <<>>
            run == CASE n = 8 -> hex[i + 1] + 4 [] n \in {1, 2} -> n + 1 [] OTHER -> 1
            symbol == IF n = 8 THEN Run(run) ELSE BitHex2Char(n)
            rest == from[i + (IF n = 8 THEN 2 ELSE 1), sq + run]
        IN IF sq >= 64 THEN [symbols |-> <<>>, next |-> i]
           ELSE [rest EXCEPT !.symbols = slash \o <<symbol>> \o @]
  IN from[1, 0]

ReadTokens(hex, start) ==
  LET from[i \in start..Len(hex)] ==
        LET white == hex[i] = 14
            token == IF white THEN Letter(White, hex[i + 1] - 1) ELSE BitHex2Extra(hex[i])
        IN IF hex[i] = 9 THEN [tokens |-> <<>>, next |-> i + 1]
           ELSE [from[i + (IF white THEN 2 ELSE 1)] EXCEPT !.tokens = <<token>> \o @]
  IN from[start]

HexFen2Fen(hex) ==
  LET cells == ReadCells(hex)
      castling == ReadTokens(hex, cells.next + 1)
      i == castling.next
  IN [placement |-> cells.symbols,
      stm |-> IF hex[cells.next] # 0 THEN Black ELSE White,
      cr |-> castling.tokens,
      ep |-> IF i > Len(hex) \/ hex[i] = 0 THEN <<Dash>> ELSE <<hex[i] - 1, hex[i + 1]>>]

-----------------------------------------------------------------------------
(* The mirror: the same position with colours and ranks exchanged *)

Mirrored(s) == RelSquare(s, Black)

BWFen(fen) ==
  [board |-> [s \in {Mirrored(s) : s \in Occ(fen)} |->
                <<Other(ColorOf(fen.board[Mirrored(s)])), TypeOf(fen.board[Mirrored(s)])>>],
   stm |-> Other(fen.stm),
   cr |-> {[token EXCEPT ![1] = Other(@)] : token \in fen.cr},
   ep |-> IF fen.ep = NoSq THEN NoSq ELSE Mirrored(fen.ep)]

\* A move keeps its files and its promotion.
BWMove(uci) == [uci EXCEPT !.from = Mirrored(@), !.to = Mirrored(@)]

-----------------------------------------------------------------------------
(* Board::Compact *)

\* The nibbles above those of the pieces.
PassedPawn == <<2, "p">>
CastlingRook(c) == <<3 + c, "r">>
BlackToMove == <<5, "k">>

Meaning(cr, stm, ep, s, piece) ==
  CASE TypeOf(piece) = "p" /\ ep # NoSq /\ EpSquare(s) = ep -> PassedPawn
    [] TypeOf(piece) = "r" /\ BackRank(s, ColorOf(piece))
       /\ \E side \in Side : cr[<<ColorOf(piece), side>>] = FileOf(s) ->
         CastlingRook(ColorOf(piece))
    [] piece = <<Black, "k">> /\ stm = Black -> BlackToMove
    [] OTHER -> piece

Encode(p) == [s \in Occ(p) |-> Meaning(p.cr, p.stm, p.ep, s, p.board[s])]

\* Straight from a FEN of classical chess.
EncodeFen(fen) ==
  LET cr == [right \in Right |-> IF right \in fen.cr THEN Corner(right[2]) ELSE NoFile]
  IN [s \in DOMAIN fen.board |-> Meaning(cr, fen.stm, fen.ep, s, fen.board[s])]

\* castling_path stays empty.
Decode(packed, frc) ==
  LET Where(nibble) == {s \in DOMAIN packed : packed[s] = nibble}
      pieceAt(s) ==
        CASE packed[s] = PassedPawn -> <<IF RankOf(s) = 3 THEN White ELSE Black, "p">>
          [] \E c \in Color : packed[s] = CastlingRook(c) -> <<packed[s][1] - 3, "r">>
          [] packed[s] = BlackToMove -> <<Black, "k">>
          [] OTHER -> packed[s]
      board == [s \in DOMAIN packed |-> pieceAt(s)]
      king(c) == CHOOSE s \in DOMAIN board : board[s] = <<c, "k">>
      rooks(c) == Where(CastlingRook(c))
      rook(right) == {s \in rooks(right[1]) : ClosestSide(FileOf(s), FileOf(king(right[1]))) = right[2]}
  IN [board |-> board, frc |-> frc, path |-> NoPath,
      stm |-> IF Where(BlackToMove) = {} THEN White ELSE Black,
      ep |-> IF Where(PassedPawn) = {} THEN NoSq ELSE EpSquare(Min(Where(PassedPawn))),
      cr |-> [right \in Right |-> IF rook(right) = {} THEN NoFile ELSE FileOf(Max(rook(right)))]]
=============================================================================
