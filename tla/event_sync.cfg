SPECIFICATION Spec

CONSTANTS
  t1 = t1
  t2 = t2
  t3 = t3
  vblank = vblank
  ready = ready
  sound = sound
  NoEvent = NoEvent
  Threads = {t1, t2, t3}
  Events = {ready}
  Notification = {}
  GenSlots = 1
  Probe <- Collide
  Waits <- Mixed
  Sets <- Device
  Pumped <- Nothing
  Clears <- Nothing
  Finite = {t1}
  MaxSets = 2
  MaxWaits = 1
  MaxNudges = 1

INVARIANTS
  ConsumedByOne
