---------------------------- MODULE MCFlexStore ----------------------------
(* FlexStore on small instances: keys, moves and reactors are model values,  *)
(* interchangeable among themselves.                                         *)
EXTENDS FlexStore, TLC

Interchangeable == Permutations(Key) \cup Permutations(Move) \cup Permutations(Reactor)
=============================================================================
