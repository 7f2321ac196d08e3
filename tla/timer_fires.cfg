SPECIFICATION FairSpec

CONSTANTS
  t1 = t1
  t2 = t2
  k1 = k1
  k2 = k2
  NoTimer = NoTimer
  Threads = {t1, t2}
  Timers = {k1, k2}
  Pollers = {t1, t2}
  NSlots = 1
  Setters <- OneSetter
  Cancels <- OneTimer
  Rearmed = {}
  Delays = {0, 1}
  Periods = {0}
  Word = 16
  Start = 15
  MaxTicks = 1
  MaxSets = 2

INVARIANTS
  SnapshotWhole
PROPERTIES
  UndisturbedIsKept
  ArmedFires

CHECK_DEADLOCK TRUE
