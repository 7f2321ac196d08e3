SPECIFICATION Spec

CHECK_DEADLOCK FALSE

CONSTANTS
  w1 = w1
  w2 = w2
  gpu = gpu
  usb = usb
  IrqThreads = {w1, w2}
  HostThreads = {w2}
  Ints = {gpu, usb}
  NoInt = NoInt
  VectorOf <- MCVector
  MaxInterrupts = 2
  GpuVector = 1
  GivenIrql <- MCGiven
  LevelsOf <- MCLevels
  Connectors = {w1}
  Dpcs = {d1}
  NoDpc = NoDpc
  IrqSwitches <- MCSwitches
  HeapBase = 4
  HeapTop = 11
  MaxBlocks = 5
  SplitMin = 4
  Page = 4
  Mirror = 32
  Sizes = {1, 5}
  StackMin = 2
  StackMax = 8
  MaxStacks = 1
  ApcMax = 2
  MaxIo = 6
  MaxNest = 5
  VoiceMax = 3
  Handles = {b1, b2, b3, b4}
  HashOf <- MCHash
  Empty = Empty
  Tomb = Tomb
  Ringers = {w1}
  Submitters = {w2}
  Tick = Tick
  NoWalker = NoWalker
  MaxControl = 2
  MaxPeriodic = 1
  b1 = b1
  b2 = b2
  b3 = b3
  b4 = b4

PROPERTIES
  QueueNotReplaced
