\* Two slots, four messages: the ring wraps and is over-full.
SPECIFICATION Spec
CONSTANTS
  Producer = {p1, p2}
  Consumer = {c1, c2}
  Nothing = Nothing
  CAP = 2
  MaxPush = 2
INVARIANTS TypeOK SlotOwned
PROPERTIES KeepsPromise EveryPushLands
