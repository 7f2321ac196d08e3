SPECIFICATION FairSpec

CONSTANTS
  t1 = t1
  t2 = t2
  t3 = t3
  vblank = vblank
  ready = ready
  sound = sound
  NoEvent = NoEvent
  Threads = {t1, t2, t3}
  Events = {vblank, ready, sound}
  Notification = {vblank, sound}
  GenSlots = 2
  Probe <- Collide
  Waits <- Mixed
  Sets <- Device
  Pumped <- Own
  Clears <- Pumps
  Finite = {t1}
  MaxSets = 2
  MaxWaits = 1
  MaxNudges = 1

INVARIANTS
  TypeOK
  OneCounter
  NoSetSleptThrough
PROPERTIES
  NotificationArrives
