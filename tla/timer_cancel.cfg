SPECIFICATION Spec

CONSTANTS
  t1 = t1
  t2 = t2
  k1 = k1
  k2 = k2
  NoTimer = NoTimer
  Threads = {t1, t2}
  Timers = {k1}
  Pollers = {t2}
  NSlots = 1
  Setters <- OneTimer
  Cancels <- OneTimer
  Rearmed = {}
  Delays = {0, 2}
  Periods = {0}
  Word = 16
  Start = 14
  MaxTicks = 2
  MaxSets = 2

INVARIANTS
  CancelledNeverRuns

CHECK_DEADLOCK TRUE
