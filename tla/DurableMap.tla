------------------------------ MODULE DurableMap ------------------------------
(***************************************************************************)
(* What a queue with a --base-dir owes its clients: a map of which a crash  *)
(* takes the latest changes at most, and those in order.  live is what the  *)
(* running process answers from, kept is what its files would give it back, *)
(* pending the changes between the two.  Housekeeping changes none of them, *)
(* or makes pending changes kept.                                           *)
(***************************************************************************)
EXTENDS Naturals, SequencesExt

CONSTANTS Key, Val, None

VARIABLES live, kept, pending

Change == [key : Key, val : Val \cup {None}]

\* The changes made in turn: the last one of a key stays.
Applied(m, changes) ==
  [k \in Key |-> LET last == SelectLastInSeq(changes, LAMBDA ch : ch.key = k)
                 IN IF last = 0 THEN m[k] ELSE changes[last].val]

First(n) == SubSeq(pending, 1, n)
After(n) == SubSeq(pending, n + 1, Len(pending))

Init ==
  /\ live = [k \in Key |-> None]
  /\ kept = live
  /\ pending = <<>>

\* A change; earlier ones may be kept on the way.
Write(ch) ==
  \E n \in 0..Len(pending) :
    /\ live' = [live EXCEPT ![ch.key] = ch.val]
    /\ kept' = Applied(kept, First(n))
    /\ pending' = Append(After(n), ch)

Keep ==
  \E n \in 0..Len(pending) :
    /\ kept' = Applied(kept, First(n))
    /\ pending' = After(n)
    /\ live' = live

\* A crash may still keep some of the pending changes; the others are gone.
Crash ==
  \E n \in 0..Len(pending) :
    /\ kept' = Applied(kept, First(n))
    /\ pending' = <<>>
    /\ live' = kept'

Next == (\E ch \in Change : Write(ch)) \/ Keep \/ Crash

Step == [Next]_<<live, kept, pending>>

Spec == Init /\ [][Next]_<<live, kept, pending>>
=============================================================================
