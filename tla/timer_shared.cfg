SPECIFICATION Spec

CONSTANTS
  t1 = t1
  t2 = t2
  k1 = k1
  k2 = k2
  NoTimer = NoTimer
  Threads = {t1, t2}
  Timers = {k1, k2}
  Pollers = {t2}
  NSlots = 2
  Setters <- OneSetter
  Cancels <- Nobody
  Rearmed = {k1}
  Delays = {0}
  Periods = {0, 1}
  Word = 16
  Start = 14
  MaxTicks = 1
  MaxSets = 2

INVARIANTS
  TypeOK
  TakenOnce

CHECK_DEADLOCK TRUE
