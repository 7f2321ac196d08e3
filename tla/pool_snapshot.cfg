\* The pool as the runtime builds it: five slots, the pusher thread, one
\* presenter and one thread that dumps frames.
CONSTANTS
  NSlots = 5
  Presenters = {p1}
  Borrowers = {b1}
  Producer = pusher
  Geoms <- MCGeoms
  Bytes <- MCBytes
  AnyCaller = FALSE
  MaxFrames = 5

SPECIFICATION Spec

INVARIANTS
  TypeOK
  HeldFrameWhole
  RefCountExact
  SlotForNextFrame

PROPERTIES
  HeldFrameFrozen
  NeverShowsOlder

