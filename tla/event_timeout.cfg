SPECIFICATION Spec

CONSTANTS
  t1 = t1
  t2 = t2
  t3 = t3
  vblank = vblank
  ready = ready
  sound = sound
  NoEvent = NoEvent
  Threads = {t1, t2, t3}
  Events = {vblank}
  Notification = {vblank}
  GenSlots = 1
  Probe <- Collide
  Waits <- Pumps
  Sets <- Device
  Pumped <- Nothing
  Clears <- Pumps
  Finite = {t1}
  MaxSets = 1
  MaxWaits = 1
  MaxNudges = 1

INVARIANTS
  SatisfiedIfMoved
