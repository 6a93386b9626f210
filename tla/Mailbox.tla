------------------------------- MODULE Mailbox -------------------------------
(***************************************************************************)
(* What fqdb's lock-free ring promises the threads around it: messages are  *)
(* handed out in the order in which their places were reserved, each once   *)
(* and unchanged; a pop comes back empty only when, at some moment of the   *)
(* call, the first place held no published message.  A message may reserve  *)
(* its place long before it is published, and hides those behind it.        *)
(***************************************************************************)
EXTENDS Naturals, Sequences

CONSTANTS Producer, Consumer, Nothing

VARIABLES
  places,   \* the reserved places, in order: whose message each one is for
  sent,     \* how many messages a producer has reserved a place for
  open,     \* the producers whose last message is not published yet
  got       \* the result of each consumer's last pop

Message(p, n) == [from |-> p, number |-> n]

Init ==
  /\ places = <<>>
  /\ sent = [p \in Producer |-> 0]
  /\ open = {}
  /\ got = [c \in Consumer |-> Nothing]

Reserve(p) ==
  /\ p \notin open
  /\ places' = Append(places, Message(p, sent[p] + 1))
  /\ sent' = [sent EXCEPT ![p] = @ + 1]
  /\ open' = open \cup {p}
  /\ UNCHANGED got

Publish(p) ==
  /\ p \in open
  /\ open' = open \ {p}
  /\ UNCHANGED <<places, sent, got>>

Published(m) == m.from \in open => m.number # sent[m.from]

HeadPublished == places # <<>> /\ Published(Head(places))

Take(c) ==
  /\ HeadPublished
  /\ got' = [got EXCEPT ![c] = Head(places)]
  /\ places' = Tail(places)
  /\ UNCHANGED <<sent, open>>

FindEmpty(c) ==
  /\ ~HeadPublished
  /\ got' = [got EXCEPT ![c] = Nothing]
  /\ UNCHANGED <<places, sent, open>>

Next ==
  \/ \E p \in Producer : Reserve(p) \/ Publish(p)
  \/ \E c \in Consumer : Take(c) \/ FindEmpty(c)

Spec == Init /\ [][Next]_<<places, sent, open, got>>
=============================================================================
