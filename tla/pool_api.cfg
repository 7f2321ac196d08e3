\* Three slots, so that the producer drops frames, and callers that publish at
\* a geometry they did not begin with or abandon a frame: the storage covers
\* every frame handed out and the pool is still a register of the latest one.
CONSTANTS
  NSlots = 3
  Presenters = {p1}
  Borrowers = {b1}
  Producer = pusher
  Geoms <- MCGeoms
  Bytes <- MCBytes
  AnyCaller = TRUE
  MaxFrames = 4

SPECIFICATION Spec

INVARIANTS
  HeldStorageCovers

PROPERTIES
  ImplementsLatestFrame
