--------------------------- MODULE Interrupts_proof ---------------------------
(***************************************************************************)
(* Delivery of interrupts for any threads, interrupts, vectors, table and  *)
(* switches: types, one service routine of a vector at a time, what the    *)
(* delivery interlock excludes, and that connected interrupts stay in the  *)
(* table.  A step is of one thread (Only); what it may do to the flags is  *)
(* told by where that thread was and is.                                   *)
(***************************************************************************)
EXTENDS Interrupts, FiniteSetTheorems, TLAPS

Serving(r) == r.pc \in {"isr", "dpc", "clear", "release"}
Holding(r) == r.held \/ r.pc \in {"take", "scan", "decide", "defer", "claim", "isr", "dpc",
                                  "clear", "release", "done"}

\* A thread past the scan is at a slot of the table and has its interrupt, and
\* only a synchronized routine remembers that it holds the interlock.
Placed(r) ==
  /\ r.pc \in {"test", "store", "decide", "defer", "claim", "isr", "dpc", "clear",
               "release"} => r.iv \in Ints
  /\ r.pc \in {"store", "decide", "defer", "claim", "isr", "dpc", "clear", "release"}
       => r.at < MaxInterrupts
  /\ r.held => r.pc = "sync"
Places == \A t \in IrqThreads : Placed(irq[t])

\* One thread at a time serves a tracked vector, with its flag up.
Serves(r, v) == Serving(r) /\ VectorOf[r.iv] = v
ServedOnce(v) ==
  /\ \A t, u \in IrqThreads : Serves(irq[t], v) /\ Serves(irq[u], v) => t = u
  /\ \A t \in IrqThreads : Serves(irq[t], v) => inService[v] = 1
  /\ inService[v] = 1 => \E t \in IrqThreads : Serves(irq[t], v)
Served1 == \A v \in Vectors : Tracked(v) => ServedOnce(v)

\* Whoever is past the interlock, when it is on, has it.
Locked ==
  "legacy" \in irqOn =>
    /\ \A t, u \in IrqThreads : Holding(irq[t]) /\ Holding(irq[u]) => t = u
    /\ \A t \in IrqThreads : Holding(irq[t]) => interlock = 1

IrqInv == IrqTypeOK /\ Places /\ Served1 /\ Locked

\* KeConnectInterrupt with one thread that connects.  Only it writes the
\* table, so what it has read of it still stands when it stores: the slots
\* before its own are taken, by other interrupts, and the one it stores to is
\* the first hole.
Connecting(r) == r.pc \in {"test", "store"}
NoHoleBefore == \A i, j \in Table : j =< i /\ slots[i] # NoInt => slots[j] # NoInt
OncePerInt == \A i, j \in Table : slots[i] = slots[j] /\ slots[i] # NoInt => i = j
Passed(s, r) ==
  Connecting(r) =>
    /\ \A j \in Table : j < r.at => s[j] # NoInt /\ s[j] # r.iv
    /\ r.pc = "store" => s[r.at] = NoInt
Looking == \A t \in IrqThreads : Connecting(irq[t]) => t \in Connectors /\ Passed(slots, irq[t])
AllRecorded == \A iv \in connected : \E i \in Table : slots[i] = iv

TableInv == NoHoleBefore /\ OncePerInt /\ Looking /\ AllRecorded

\* The types of everything but the threads.
FlagsTyped ==
  /\ irqOn \in IrqSwitches
  /\ slots \in [Table -> Ints \cup {NoInt}]
  /\ inService \in [Vectors -> {0, 1}]
  /\ vecPending \in [Vectors -> {0, 1}]
  /\ interlock \in {0, 1}
  /\ due \in BOOLEAN
  /\ connected \subseteq Ints

Only(t) ==
  /\ irq' \in [IrqThreads -> IrqRec]
  /\ \A u \in IrqThreads \ {t} : irq'[u] = irq[u]

-----------------------------------------------------------------------------
(* What a step of one thread leaves as it was.                             *)

LEMMA Typed == IrqTypeOK <=> FlagsTyped /\ irq \in [IrqThreads -> IrqRec]
BY DEF IrqTypeOK, FlagsTyped

LEMMA KeepsPlaces ==
  ASSUME IrqInv, NEW t \in IrqThreads, Only(t), Placed(irq'[t])
  PROVE  Places'
BY DEF IrqInv, Places, Placed, Only

\* A thread that serves the same tracked vectors after as before.
LEMMA KeepsServedOnce ==
  ASSUME IrqInv, NEW t \in IrqThreads, Only(t), NEW v \in Vectors, Tracked(v),
         inService'[v] = inService[v], Serves(irq'[t], v) <=> Serves(irq[t], v)
  PROVE  ServedOnce(v)'
<1>1. \A u \in IrqThreads : Serves(irq'[u], v) <=> Serves(irq[u], v)
  BY DEF Only
<1>2. ServedOnce(v)
  BY DEF IrqInv, Served1
<1>3. \A u \in IrqThreads : Serves(irq[u], v)' <=> Serves(irq'[u], v)
  BY DEF Serves, Serving
<1> HIDE DEF Serves
<1> QED
  BY <1>1, <1>2, <1>3 DEF ServedOnce

LEMMA KeepsService ==
  ASSUME IrqInv, NEW t \in IrqThreads, Only(t), UNCHANGED inService,
         \A v \in Vectors : Tracked(v) => (Serves(irq'[t], v) <=> Serves(irq[t], v))
  PROVE  Served1'
BY KeepsServedOnce DEF Served1, Tracked

LEMMA KeepsLock ==
  ASSUME IrqInv, NEW t \in IrqThreads, Only(t), UNCHANGED <<irqOn, interlock>>,
         Holding(irq'[t]) => Holding(irq[t])
  PROVE  Locked'
BY DEF IrqInv, Locked, Only, Holding

-----------------------------------------------------------------------------
(* Where the helpers of the actions take a thread.                         *)

LEMMA Going ==
  ASSUME IrqInv, NEW t \in IrqThreads, NEW p \in Pcs, Goto(t, p)
  PROVE  /\ Only(t)
         /\ irq'[t].pc = p /\ irq'[t].iv = irq[t].iv /\ irq'[t].at = irq[t].at
         /\ irq'[t].held = irq[t].held
<1>1. irq \in [IrqThreads -> IrqRec] /\ irq[t] \in IrqRec
  BY DEF IrqInv, IrqTypeOK
<1>2. [irq[t] EXCEPT !.pc = p] \in IrqRec
  BY <1>1 DEF IrqRec
<1>3. irq' = [irq EXCEPT ![t] = [irq[t] EXCEPT !.pc = p]]
  BY DEF Goto
<1>4. Only(t) /\ irq'[t] = [irq[t] EXCEPT !.pc = p]
  BY <1>1, <1>2, <1>3 DEF Only
<1> QED
  BY <1>1, <1>4 DEF IrqRec

LEMMA Skipping ==
  ASSUME IrqInv, IrqAssumption, NEW t \in IrqThreads, irq[t].at < MaxInterrupts, Skip(t)
  PROVE  Only(t) /\ irq'[t].pc = "scan" /\ irq'[t].held = irq[t].held
<1>1. irq \in [IrqThreads -> IrqRec] /\ irq[t] \in IrqRec
  BY DEF IrqInv, IrqTypeOK
<1>2. irq[t].at + 1 \in 0..MaxInterrupts
  BY <1>1 DEF IrqRec, IrqAssumption
<1>3. Skipped(t) \in IrqRec
  BY <1>1, <1>2 DEF Skipped, IrqRec, Pcs
<1>4. Only(t) /\ irq'[t] = Skipped(t)
  BY <1>1, <1>3 DEF Only, Skip
<1> QED
  BY <1>1, <1>4 DEF Skipped, IrqRec

LEMMA Idling ==
  ASSUME IrqInv, IrqAssumption, NEW t \in IrqThreads, irq' = [irq EXCEPT ![t] = IdleIrq]
  PROVE  Only(t) /\ irq'[t].pc = "idle" /\ irq'[t].held = FALSE
<1>1. IdleIrq \in IrqRec
  BY DEF IdleIrq, IrqRec, Pcs, Passive, IrqAssumption
<1>2. Only(t) /\ irq'[t] = IdleIrq
  BY <1>1 DEF Only, IrqInv, IrqTypeOK
<1> QED
  BY <1>2 DEF IdleIrq

LEMMA Vectored ==
  ASSUME IrqAssumption
  PROVE  \A i \in Ints : VectorOf[i] \in Vectors /\ VectorOf[i] \in Nat
BY DEF IrqAssumption, Vectors

-----------------------------------------------------------------------------
(* One lemma per action: where it takes the thread, then each part.        *)

LEMMA ConnectHolds ==
  ASSUME IrqInv, NEW t \in IrqThreads, NEW iv \in Ints, Connect(t, iv)
  PROVE  IrqInv'
<1> USE IrqAssumption
<1>a. FlagsTyped /\ irq \in [IrqThreads -> IrqRec] /\ irq[t] \in IrqRec /\ Placed(irq[t])
  BY Typed DEF IrqInv, Places
<1>1. /\ Only(t) /\ irq[t].pc = "idle" /\ irq'[t].pc = "test" /\ irq'[t].iv = iv
      /\ irq'[t].held = irq[t].held
  <2>1. [irq[t] EXCEPT !.pc = "test", !.at = 0, !.iv = iv] \in IrqRec
    <3>1. 0 \in 0..MaxInterrupts
      BY DEF IrqAssumption
    <3> QED
      BY <1>a, <3>1 DEF IrqRec, Pcs
  <2>2. Only(t) /\ irq'[t] = [irq[t] EXCEPT !.pc = "test", !.at = 0, !.iv = iv]
    BY <1>a, <2>1 DEF Connect, Only, At
  <2> QED
    BY <1>a, <2>2 DEF Connect, IrqRec, At
<1>2. FlagsTyped'
  BY <1>a DEF Connect, FlagsTyped, At, ConnectReturn, NextPump, Unwind
<1>3. IrqTypeOK' /\ Places'
  <2>1. Placed(irq'[t])
    BY <1>a, <1>1 DEF Placed, IrqRec
  <2> QED
    BY <2>1, <1>1, <1>2, KeepsPlaces DEF Only, IrqTypeOK, FlagsTyped
<1>4. Served1'
  <2>1. UNCHANGED inService
    BY DEF Connect
  <2> QED
    BY <1>a, <1>1, <2>1, KeepsService DEF Serves, Serving
<1>5. Locked'
  <2>1. UNCHANGED <<irqOn, interlock>>
    BY DEF Connect
  <2> QED
    BY <1>a, <1>1, <2>1, KeepsLock DEF Holding, Placed
<1> QED
  BY <1>3, <1>4, <1>5 DEF IrqInv

LEMMA ConnectTestHolds ==
  ASSUME IrqInv, NEW t \in IrqThreads, ConnectTest(t)
  PROVE  IrqInv'
<1> USE IrqAssumption
<1>a. FlagsTyped /\ irq \in [IrqThreads -> IrqRec] /\ irq[t] \in IrqRec /\ Placed(irq[t])
  BY Typed DEF IrqInv, Places
<1>1. Only(t) /\ irq[t].pc = "test" /\ ~ irq'[t].held /\ irq[t].iv \in Ints
      /\ \/ irq'[t].pc = "idle"
         \/ irq'[t].pc \in {"test", "store"} /\ irq'[t].iv = irq[t].iv
            /\ (irq'[t].pc = "store" => irq'[t].at < MaxInterrupts)
  <2>0. irq[t].pc = "test" /\ irq[t].iv \in Ints /\ ~ irq[t].held
    BY <1>a DEF ConnectTest, At, Placed
  <2>1. CASE irq' = [irq EXCEPT ![t] = IdleIrq]
    BY <2>0, <2>1, Idling
  <2>2. CASE Goto(t, "store") /\ irq[t].at < MaxInterrupts
    BY <2>0, <2>2, Going DEF Pcs
  <2>3. CASE irq[t].at < MaxInterrupts /\ irq' = [irq EXCEPT ![t].at = irq[t].at + 1]
    <3>1. [irq[t] EXCEPT !.at = irq[t].at + 1] \in IrqRec
      <4>1. irq[t].at + 1 \in 0..MaxInterrupts
        BY <1>a, <2>3 DEF IrqRec, IrqAssumption
      <4> QED
        BY <1>a, <4>1 DEF IrqRec
    <3>2. Only(t) /\ irq'[t] = [irq[t] EXCEPT !.at = irq[t].at + 1]
      BY <1>a, <2>3, <3>1 DEF Only
    <3> QED
      BY <1>a, <2>0, <3>2 DEF IrqRec
  <2> QED
    BY <2>1, <2>2, <2>3 DEF ConnectTest, ConnectReturn
<1>2. FlagsTyped'
  BY <1>a, <1>1 DEF ConnectTest, FlagsTyped, At, ConnectReturn, NextPump, Unwind
<1>3. IrqTypeOK' /\ Places'
  <2>1. Placed(irq'[t])
    BY <1>a, <1>1 DEF Placed, IrqRec
  <2> QED
    BY <2>1, <1>1, <1>2, KeepsPlaces DEF Only, IrqTypeOK, FlagsTyped
<1>4. Served1'
  <2>1. UNCHANGED inService
    BY DEF ConnectTest
  <2> QED
    BY <1>a, <1>1, <2>1, KeepsService DEF Serves, Serving
<1>5. Locked'
  <2>1. UNCHANGED <<irqOn, interlock>>
    BY DEF ConnectTest
  <2> QED
    BY <1>a, <1>1, <2>1, KeepsLock DEF Holding, Placed
<1> QED
  BY <1>3, <1>4, <1>5 DEF IrqInv

LEMMA ConnectStoreHolds ==
  ASSUME IrqInv, NEW t \in IrqThreads, ConnectStore(t)
  PROVE  IrqInv'
<1> USE IrqAssumption
<1>a. FlagsTyped /\ irq \in [IrqThreads -> IrqRec] /\ irq[t] \in IrqRec /\ Placed(irq[t])
  BY Typed DEF IrqInv, Places
<1>1. Only(t) /\ irq[t].pc = "store" /\ irq'[t].pc = "idle" /\ ~ irq'[t].held
      /\ irq[t].iv \in Ints
  BY <1>a, Idling DEF ConnectStore, ConnectReturn, At, Placed
<1>6. irq[t].at \in Table
  <2>1. irq[t].at \in 0..MaxInterrupts /\ irq[t].at < MaxInterrupts
    BY <1>a, <1>1 DEF IrqRec, Placed
  <2> QED
    BY <2>1 DEF Table, IrqAssumption
<1>2. FlagsTyped'
  BY <1>a, <1>1, <1>6 DEF ConnectStore, FlagsTyped, At, ConnectReturn, NextPump, Unwind
<1>3. IrqTypeOK' /\ Places'
  <2>1. Placed(irq'[t])
    BY <1>a, <1>1 DEF Placed, IrqRec
  <2> QED
    BY <2>1, <1>1, <1>2, KeepsPlaces DEF Only, IrqTypeOK, FlagsTyped
<1>4. Served1'
  <2>1. UNCHANGED inService
    BY DEF ConnectStore
  <2> QED
    BY <1>a, <1>1, <2>1, KeepsService DEF Serves, Serving
<1>5. Locked'
  <2>1. UNCHANGED <<irqOn, interlock>>
    BY DEF ConnectStore
  <2> QED
    BY <1>a, <1>1, <2>1, KeepsLock DEF Holding, Placed
<1> QED
  BY <1>3, <1>4, <1>5 DEF IrqInv

LEMMA PollHolds ==
  ASSUME IrqInv, NEW t \in IrqThreads, Poll(t)
  PROVE  IrqInv'
<1> USE IrqAssumption
<1>a. FlagsTyped /\ irq \in [IrqThreads -> IrqRec] /\ irq[t] \in IrqRec /\ Placed(irq[t])
  BY Typed DEF IrqInv, Places
<1>1. Only(t) /\ irq[t].pc = "idle" /\ irq'[t].pc = "enter" /\ irq'[t].held = irq[t].held
  <2>1. PICK l \in LevelsOf[t] :
          irq' = [irq EXCEPT ![t].pc = "enter", ![t].level = l,
                             ![t].want = IF t \in HostThreads THEN "device" ELSE "gpu"]
    BY DEF Poll
  <2> DEFINE w == IF t \in HostThreads THEN "device" ELSE "gpu"
             r == [irq[t] EXCEPT !.pc = "enter", !.level = l, !.want = w]
  <2>2. l \in Nat /\ w \in {"gpu", "device"}
    BY DEF IrqAssumption
  <2>3. r \in IrqRec
    BY <1>a, <2>2 DEF IrqRec, Pcs
  <2>4. Only(t) /\ irq'[t] = r
    BY <1>a, <2>1, <2>3 DEF Only
  <2> QED
    BY <1>a, <2>4 DEF IrqRec, Poll, At
<1>2. FlagsTyped'
  BY <1>a DEF Poll, FlagsTyped, At, ConnectReturn, NextPump, Unwind
<1>3. IrqTypeOK' /\ Places'
  <2>1. Placed(irq'[t])
    BY <1>a, <1>1 DEF Placed, IrqRec
  <2> QED
    BY <2>1, <1>1, <1>2, KeepsPlaces DEF Only, IrqTypeOK, FlagsTyped
<1>4. Served1'
  <2>1. UNCHANGED inService
    BY DEF Poll
  <2> QED
    BY <1>a, <1>1, <2>1, KeepsService DEF Serves, Serving
<1>5. Locked'
  <2>1. UNCHANGED <<irqOn, interlock>>
    BY DEF Poll
  <2> QED
    BY <1>a, <1>1, <2>1, KeepsLock DEF Holding, Placed
<1> QED
  BY <1>3, <1>4, <1>5 DEF IrqInv

LEMMA TakeHolds ==
  ASSUME IrqInv, NEW t \in IrqThreads, Take(t)
  PROVE  IrqInv'
<1> USE IrqAssumption
<1>a. FlagsTyped /\ irq \in [IrqThreads -> IrqRec] /\ irq[t] \in IrqRec /\ Placed(irq[t])
  BY Typed DEF IrqInv, Places
<1>1. /\ Only(t) /\ irq[t].pc = "take" /\ irq'[t].pc = "scan" /\ irq'[t].iv = irq[t].iv
      /\ irq'[t].at = irq[t].at /\ irq'[t].held = irq[t].held
  BY Going DEF Take, At, Pcs
<1>2. FlagsTyped'
  BY <1>a DEF Take, FlagsTyped, At, ConnectReturn, NextPump, Unwind
<1>3. IrqTypeOK' /\ Places'
  <2>1. Placed(irq'[t])
    BY <1>a, <1>1 DEF Placed, IrqRec
  <2> QED
    BY <2>1, <1>1, <1>2, KeepsPlaces DEF Only, IrqTypeOK, FlagsTyped
<1>4. Served1'
  <2>1. UNCHANGED inService
    BY DEF Take
  <2> QED
    BY <1>a, <1>1, <2>1, KeepsService DEF Serves, Serving
<1>5. Locked'
  <2>1. UNCHANGED <<irqOn, interlock>>
    BY DEF Take
  <2> QED
    BY <1>a, <1>1, <2>1, KeepsLock DEF Holding, Placed
<1> QED
  BY <1>3, <1>4, <1>5 DEF IrqInv

LEMMA ScanHolds ==
  ASSUME IrqInv, NEW t \in IrqThreads, Scan(t)
  PROVE  IrqInv'
<1> USE IrqAssumption
<1>a. FlagsTyped /\ irq \in [IrqThreads -> IrqRec] /\ irq[t] \in IrqRec /\ Placed(irq[t])
  BY Typed DEF IrqInv, Places
<1>1. Only(t) /\ irq[t].pc = "scan" /\ ~ irq'[t].held
      /\ \/ irq'[t].pc \in {"scan", "done"}
         \/ irq'[t].pc = "decide" /\ irq'[t].iv \in Ints /\ irq'[t].at < MaxInterrupts
  <2>0. irq[t].pc = "scan" /\ ~ irq[t].held
    BY <1>a DEF Scan, At, Placed
  <2>1. CASE Goto(t, "done")
    BY <2>0, <2>1, Going DEF Pcs
  <2>2. CASE irq[t].at # MaxInterrupts
    <3>0. irq[t].at \in Table /\ irq[t].at < MaxInterrupts
      <4>1. irq[t].at \in 0..MaxInterrupts
      BY <1>a DEF IrqRec
    <4> QED
      BY <4>1, <2>2 DEF Table, IrqAssumption
    <3> DEFINE iv == slots[irq[t].at]
    <3>1. CASE Skip(t)
      BY <2>0, <3>0, <3>1, Skipping
    <3>2. CASE iv # NoInt /\ irq' = [irq EXCEPT ![t].pc = "decide", ![t].iv = iv]
      <4>1. iv \in Ints
        BY <1>a, <3>0, <3>2 DEF FlagsTyped
      <4> HIDE DEF iv
      <4>2. [irq[t] EXCEPT !.pc = "decide", !.iv = iv] \in IrqRec
        BY <1>a, <4>1 DEF IrqRec, Pcs
      <4>3. Only(t) /\ irq'[t] = [irq[t] EXCEPT !.pc = "decide", !.iv = iv]
        BY <1>a, <3>2, <4>2 DEF Only
      <4> QED
        BY <1>a, <2>0, <3>0, <4>1, <4>3 DEF IrqRec
    <3> QED
      BY <2>1, <2>2, <3>1, <3>2 DEF Scan
  <2> QED
    BY <2>1, <2>2 DEF Scan
<1>2. FlagsTyped'
  BY <1>a DEF Scan, FlagsTyped, At, ConnectReturn, NextPump, Unwind
<1>3. IrqTypeOK' /\ Places'
  <2>1. Placed(irq'[t])
    BY <1>a, <1>1 DEF Placed, IrqRec
  <2> QED
    BY <2>1, <1>1, <1>2, KeepsPlaces DEF Only, IrqTypeOK, FlagsTyped
<1>4. Served1'
  <2>1. UNCHANGED inService
    BY DEF Scan
  <2> QED
    BY <1>a, <1>1, <2>1, KeepsService DEF Serves, Serving
<1>5. Locked'
  <2>1. UNCHANGED <<irqOn, interlock>>
    BY DEF Scan
  <2> QED
    BY <1>a, <1>1, <2>1, KeepsLock DEF Holding, Placed
<1> QED
  BY <1>3, <1>4, <1>5 DEF IrqInv

LEMMA DecideHolds ==
  ASSUME IrqInv, NEW t \in IrqThreads, Decide(t)
  PROVE  IrqInv'
<1> USE IrqAssumption
<1>a. FlagsTyped /\ irq \in [IrqThreads -> IrqRec] /\ irq[t] \in IrqRec /\ Placed(irq[t])
  BY Typed DEF IrqInv, Places
<1>1. Only(t) /\ irq[t].pc = "decide" /\ ~ irq'[t].held /\ irq[t].iv \in Ints
      /\ \/ irq'[t].pc = "scan"
         \/ irq'[t].pc \in {"isr", "claim", "defer"} /\ irq'[t].iv = irq[t].iv
            /\ irq'[t].at < MaxInterrupts
            /\ (irq'[t].pc = "isr" => ~ Tracked(VectorOf[irq[t].iv]))
  <2>0. irq[t].pc = "decide" /\ ~ irq[t].held /\ irq[t].iv \in Ints /\ irq[t].at < MaxInterrupts
    BY <1>a DEF Decide, At, Placed
  <2>1. CASE Skip(t)
    BY <2>0, <2>1, Skipping
  <2>2. ASSUME NEW p \in {"isr", "claim", "defer"}, Goto(t, p), p = "isr" => ~ Tracked(Vec(t))
        PROVE  Only(t) /\ irq'[t].pc = p /\ irq'[t].iv = irq[t].iv /\ ~ irq'[t].held
               /\ irq'[t].at < MaxInterrupts
    BY <2>0, <2>2, Going DEF Pcs
  <2> QED
    BY <2>0, <2>1, <2>2 DEF Decide, Vec
<1>2. FlagsTyped'
  BY <1>a, Vectored, <1>1 DEF Decide, FlagsTyped, At, ConnectReturn, NextPump, Unwind
<1>3. IrqTypeOK' /\ Places'
  <2>1. Placed(irq'[t])
    BY <1>a, <1>1 DEF Placed, IrqRec
  <2> QED
    BY <2>1, <1>1, <1>2, KeepsPlaces DEF Only, IrqTypeOK, FlagsTyped
<1>4. Served1'
  <2>1. UNCHANGED inService
    BY DEF Decide
  <2> QED
    BY <1>a, <1>1, <2>1, KeepsService DEF Serves, Serving
<1>5. Locked'
  <2>1. UNCHANGED <<irqOn, interlock>>
    BY DEF Decide
  <2> QED
    BY <1>a, <1>1, <2>1, KeepsLock DEF Holding, Placed
<1> QED
  BY <1>3, <1>4, <1>5 DEF IrqInv

LEMMA DeferHolds ==
  ASSUME IrqInv, NEW t \in IrqThreads, Defer(t)
  PROVE  IrqInv'
<1> USE IrqAssumption
<1>a. FlagsTyped /\ irq \in [IrqThreads -> IrqRec] /\ irq[t] \in IrqRec /\ Placed(irq[t])
  BY Typed DEF IrqInv, Places
<1>1. Only(t) /\ irq[t].pc = "defer" /\ irq'[t].pc = "scan" /\ irq'[t].held = irq[t].held
      /\ irq[t].iv \in Ints
  BY <1>a, Skipping DEF Defer, At, Placed
<1>2. FlagsTyped'
  BY <1>a, Vectored, <1>1 DEF Defer, FlagsTyped, At, ConnectReturn, NextPump, Unwind
<1>3. IrqTypeOK' /\ Places'
  <2>1. Placed(irq'[t])
    BY <1>a, <1>1 DEF Placed, IrqRec
  <2> QED
    BY <2>1, <1>1, <1>2, KeepsPlaces DEF Only, IrqTypeOK, FlagsTyped
<1>4. Served1'
  <2>1. UNCHANGED inService
    BY DEF Defer
  <2> QED
    BY <1>a, <1>1, <2>1, KeepsService DEF Serves, Serving
<1>5. Locked'
  <2>1. UNCHANGED <<irqOn, interlock>>
    BY DEF Defer
  <2> QED
    BY <1>a, <1>1, <2>1, KeepsLock DEF Holding, Placed
<1> QED
  BY <1>3, <1>4, <1>5 DEF IrqInv

LEMMA IsrReturnHolds ==
  ASSUME IrqInv, NEW t \in IrqThreads, IsrReturn(t)
  PROVE  IrqInv'
<1> USE IrqAssumption
<1>a. FlagsTyped /\ irq \in [IrqThreads -> IrqRec] /\ irq[t] \in IrqRec /\ Placed(irq[t])
  BY Typed DEF IrqInv, Places
<1>1. Only(t) /\ irq[t].pc = "isr" /\ ~ irq'[t].held /\ irq[t].iv \in Ints
      /\ \/ irq'[t].pc \in {"dpc", "clear"} /\ irq'[t].iv = irq[t].iv
            /\ irq'[t].at < MaxInterrupts
         \/ irq'[t].pc = "scan" /\ ~ Tracked(VectorOf[irq[t].iv])
  <2>0. irq[t].pc = "isr" /\ ~ irq[t].held /\ irq[t].iv \in Ints /\ irq[t].at < MaxInterrupts
    BY <1>a DEF IsrReturn, At, Placed
  <2>1. CASE Goto(t, "dpc")
    BY <2>0, <2>1, Going DEF Pcs
  <2>2. CASE Goto(t, "clear")
    BY <2>0, <2>2, Going DEF Pcs
  <2>3. CASE Skip(t) /\ ~ Tracked(Vec(t))
    BY <2>0, <2>3, Skipping DEF Vec
  <2> QED
    BY <2>1, <2>2, <2>3 DEF IsrReturn, Unwind
<1>2. FlagsTyped'
  BY <1>a DEF IsrReturn, FlagsTyped, At, ConnectReturn, NextPump, Unwind
<1>3. IrqTypeOK' /\ Places'
  <2>1. Placed(irq'[t])
    BY <1>a, <1>1 DEF Placed, IrqRec
  <2> QED
    BY <2>1, <1>1, <1>2, KeepsPlaces DEF Only, IrqTypeOK, FlagsTyped
<1>4. Served1'
  <2>1. UNCHANGED inService
    BY DEF IsrReturn
  <2> QED
    BY <1>a, <1>1, <2>1, KeepsService DEF Serves, Serving
<1>5. Locked'
  <2>1. UNCHANGED <<irqOn, interlock>>
    BY DEF IsrReturn
  <2> QED
    BY <1>a, <1>1, <2>1, KeepsLock DEF Holding, Placed
<1> QED
  BY <1>3, <1>4, <1>5 DEF IrqInv

LEMMA DpcReturnHolds ==
  ASSUME IrqInv, NEW t \in IrqThreads, DpcReturn(t)
  PROVE  IrqInv'
<1> USE IrqAssumption
<1>a. FlagsTyped /\ irq \in [IrqThreads -> IrqRec] /\ irq[t] \in IrqRec /\ Placed(irq[t])
  BY Typed DEF IrqInv, Places
<1>1. Only(t) /\ ~ irq'[t].held
      /\ \/ irq[t].pc = "syncdpc" /\ irq'[t].pc = "idle"
         \/ irq[t].pc = "dpc" /\ irq'[t].pc = "clear" /\ irq'[t].iv = irq[t].iv
            /\ irq'[t].at < MaxInterrupts /\ irq[t].iv \in Ints
         \/ irq[t].pc = "dpc" /\ irq'[t].pc = "scan" /\ ~ Tracked(VectorOf[irq[t].iv])
  <2>0. irq[t].pc \in {"dpc", "syncdpc"} /\ ~ irq[t].held
    BY <1>a DEF DpcReturn, Placed
  <2>1. CASE irq[t].pc = "syncdpc"
    BY <2>0, <2>1, Idling DEF DpcReturn, At
  <2>2. CASE irq[t].pc = "dpc" /\ Tracked(Vec(t))
    <3>1. irq' = [irq EXCEPT ![t] = [irq[t] EXCEPT !.pc = "clear", !.dpc = NoDpc]]
      BY <2>2 DEF DpcReturn, At
    <3>2. [irq[t] EXCEPT !.pc = "clear", !.dpc = NoDpc] \in IrqRec
      BY <1>a DEF IrqRec, Pcs
    <3>3. Only(t) /\ irq'[t] = [irq[t] EXCEPT !.pc = "clear", !.dpc = NoDpc]
      BY <1>a, <3>1, <3>2 DEF Only
    <3> QED
      BY <1>a, <2>0, <2>2, <3>3 DEF IrqRec, Placed
  <2>3. CASE irq[t].pc = "dpc" /\ ~ Tracked(Vec(t))
    <3>1. Skip(t) /\ irq[t].at < MaxInterrupts
      BY <1>a, <2>3 DEF DpcReturn, At, Skip, Placed
    <3> QED
      BY <2>0, <2>3, <3>1, Skipping DEF Vec
  <2> QED
    BY <2>0, <2>1, <2>2, <2>3
<1>2. FlagsTyped'
  BY <1>a DEF DpcReturn, FlagsTyped, At, ConnectReturn, NextPump, Unwind
<1>3. IrqTypeOK' /\ Places'
  <2>1. Placed(irq'[t])
    BY <1>a, <1>1 DEF Placed, IrqRec
  <2> QED
    BY <2>1, <1>1, <1>2, KeepsPlaces DEF Only, IrqTypeOK, FlagsTyped
<1>4. Served1'
  <2>1. UNCHANGED inService
    BY DEF DpcReturn
  <2> QED
    BY <1>a, <1>1, <2>1, KeepsService DEF Serves, Serving
<1>5. Locked'
  <2>1. UNCHANGED <<irqOn, interlock>>
    BY DEF DpcReturn
  <2> QED
    BY <1>a, <1>1, <2>1, KeepsLock DEF Holding, Placed
<1> QED
  BY <1>3, <1>4, <1>5 DEF IrqInv

LEMMA ClearHolds ==
  ASSUME IrqInv, NEW t \in IrqThreads, Clear(t)
  PROVE  IrqInv'
<1> USE IrqAssumption
<1>a. FlagsTyped /\ irq \in [IrqThreads -> IrqRec] /\ irq[t] \in IrqRec /\ Placed(irq[t])
  BY Typed DEF IrqInv, Places
<1>1. /\ Only(t) /\ irq[t].pc = "clear" /\ irq'[t].pc = "release" /\ irq'[t].iv = irq[t].iv
      /\ irq'[t].at = irq[t].at /\ irq'[t].held = irq[t].held
  <2>1. [irq[t] EXCEPT !.pc = "release", !.queued = vecPending[Vec(t)]] \in IrqRec
    BY <1>a, Vectored DEF Clear, IrqRec, Pcs, At, Placed, FlagsTyped, Vec
  <2>2. Only(t) /\ irq'[t] = [irq[t] EXCEPT !.pc = "release", !.queued = vecPending[Vec(t)]]
    BY <1>a, <2>1 DEF Clear, Only, At
  <2> QED
    BY <1>a, <2>2 DEF Clear, IrqRec, At
<1>2. FlagsTyped'
  BY <1>a, Vectored DEF Clear, FlagsTyped, At, ConnectReturn, NextPump, Unwind
<1>3. IrqTypeOK' /\ Places'
  <2>1. Placed(irq'[t])
    BY <1>a, <1>1 DEF Placed, IrqRec
  <2> QED
    BY <2>1, <1>1, <1>2, KeepsPlaces DEF Only, IrqTypeOK, FlagsTyped
<1>4. Served1'
  <2>1. UNCHANGED inService
    BY DEF Clear
  <2> QED
    BY <1>a, <1>1, <2>1, KeepsService DEF Serves, Serving
<1>5. Locked'
  <2>1. UNCHANGED <<irqOn, interlock>>
    BY DEF Clear
  <2> QED
    BY <1>a, <1>1, <2>1, KeepsLock DEF Holding, Placed
<1> QED
  BY <1>3, <1>4, <1>5 DEF IrqInv

LEMMA QueueDpcHolds ==
  ASSUME IrqInv, NEW t \in IrqThreads, NEW d \in Dpcs, QueueDpc(t, d)
  PROVE  IrqInv'
<1> USE IrqAssumption
<1>a. FlagsTyped /\ irq \in [IrqThreads -> IrqRec] /\ irq[t] \in IrqRec /\ Placed(irq[t])
  BY Typed DEF IrqInv, Places
<1>1. /\ Only(t) /\ irq[t].pc \in {"isr", "sync"} /\ irq'[t].pc = irq[t].pc
      /\ irq'[t].iv = irq[t].iv /\ irq'[t].at = irq[t].at /\ irq'[t].held = irq[t].held
  <2>1. [irq[t] EXCEPT !.dpc = d] \in IrqRec
    BY <1>a DEF QueueDpc, IrqRec, Pcs, At, Placed
  <2>2. Only(t) /\ irq'[t] = [irq[t] EXCEPT !.dpc = d]
    BY <1>a, <2>1 DEF QueueDpc, Only, At
  <2> QED
    BY <1>a, <2>2 DEF QueueDpc, IrqRec, At
<1>2. FlagsTyped'
  BY <1>a DEF QueueDpc, FlagsTyped, At, ConnectReturn, NextPump, Unwind
<1>3. IrqTypeOK' /\ Places'
  <2>1. Placed(irq'[t])
    BY <1>a, <1>1 DEF Placed, IrqRec
  <2> QED
    BY <2>1, <1>1, <1>2, KeepsPlaces DEF Only, IrqTypeOK, FlagsTyped
<1>4. Served1'
  <2>1. UNCHANGED inService
    BY DEF QueueDpc
  <2> QED
    BY <1>a, <1>1, <2>1, KeepsService DEF Serves, Serving
<1>5. Locked'
  <2>1. UNCHANGED <<irqOn, interlock>>
    BY DEF QueueDpc
  <2> QED
    BY <1>a, <1>1, <2>1, KeepsLock DEF Holding, Placed
<1> QED
  BY <1>3, <1>4, <1>5 DEF IrqInv

LEMMA ClaimHolds ==
  ASSUME IrqInv, NEW t \in IrqThreads, Claim(t)
  PROVE  IrqInv'
<1> USE IrqAssumption
<1>a. FlagsTyped /\ irq \in [IrqThreads -> IrqRec] /\ irq[t] \in IrqRec /\ Placed(irq[t])
  BY Typed DEF IrqInv, Places
<1>1. Only(t) /\ irq[t].pc = "claim" /\ irq[t].iv \in Ints /\ ~ irq'[t].held
      /\ irq'[t].iv = irq[t].iv /\ irq'[t].at < MaxInterrupts
      /\ irq'[t].pc = IF inService[Vec(t)] = 0 THEN "isr" ELSE "defer"
  BY <1>a, Going DEF Claim, At, Placed, Pcs
<1> DEFINE w == Vec(t)
<1>b. w \in Vectors /\ w = VectorOf[irq[t].iv]
  BY <1>1, Vectored DEF Vec
<1> HIDE DEF w
<1>c. inService' = [inService EXCEPT ![w] = 1]
  BY DEF Claim, w
<1>d. irq'[t].pc = IF inService[w] = 0 THEN "isr" ELSE "defer"
  BY <1>1 DEF w
<1>2. FlagsTyped'
  <2>1. inService' \in [Vectors -> {0, 1}]
    BY <1>a, <1>b, <1>c DEF FlagsTyped
  <2> QED
    BY <1>a, <2>1 DEF Claim, FlagsTyped
<1>3. IrqTypeOK' /\ Places'
  <2>1. Placed(irq'[t])
    BY <1>a, <1>1 DEF Placed, IrqRec
  <2> QED
    BY <2>1, <1>1, <1>2, KeepsPlaces DEF Only, IrqTypeOK, FlagsTyped
<1>4. Served1'
  <2>1. ASSUME NEW v \in Vectors, Tracked(v), v # w \/ inService[w] # 0
        PROVE  ServedOnce(v)'
    <3>1. inService'[v] = inService[v]
      BY <1>a, <1>b, <1>c, <2>1 DEF FlagsTyped
    <3>2. Serves(irq'[t], v) <=> Serves(irq[t], v)
      BY <1>1, <1>b, <1>d, <2>1 DEF Serves, Serving
    <3> QED
      BY <1>1, <2>1, <3>1, <3>2, KeepsServedOnce
  <2>2. ASSUME Tracked(w), inService[w] = 0
        PROVE  ServedOnce(w)'
    <3>1. inService'[w] = 1
      BY <1>a, <1>b, <1>c DEF FlagsTyped
    <3>2. \A u \in IrqThreads : ~ Serves(irq[u], w)
      BY <1>b, <2>2 DEF IrqInv, Served1, ServedOnce
    <3>3. \A u \in IrqThreads : Serves(irq'[u], w) <=> u = t
      BY <1>1, <1>b, <1>d, <2>2, <3>2 DEF Only, Serves, Serving
    <3>4. \A u \in IrqThreads : Serves(irq[u], w)' <=> Serves(irq'[u], w')
      BY DEF Serves, Serving
    <3>5. w' = w
      BY <1>1 DEF w, Vec
    <3> HIDE DEF Serves
    <3> QED
      BY <3>1, <3>3, <3>4, <3>5 DEF ServedOnce
  <2>3. w' = w
    BY <1>1 DEF w, Vec
  <2>4. \A v \in Vectors : Tracked(v)' <=> Tracked(v)
    BY DEF Tracked
  <2>5. \A v \in Vectors : Tracked(v) => ServedOnce(v)'
    <3> SUFFICES ASSUME NEW v \in Vectors, Tracked(v) PROVE ServedOnce(v)'
      OBVIOUS
    <3>1. CASE v # w \/ inService[w] # 0
      BY <2>1, <3>1
    <3>2. CASE v = w /\ inService[w] = 0
      BY <2>2, <2>3, <3>2 DEF ServedOnce, Serves
    <3> QED
      BY <3>1, <3>2
  <2> QED
    BY <2>4, <2>5 DEF Served1
<1>5. Locked'
  <2>1. UNCHANGED <<irqOn, interlock>>
    BY DEF Claim
  <2> QED
    BY <1>a, <1>1, <2>1, KeepsLock DEF Holding, Placed
<1> QED
  BY <1>3, <1>4, <1>5 DEF IrqInv

LEMMA ReleaseVectorHolds ==
  ASSUME IrqInv, NEW t \in IrqThreads, ReleaseVector(t)
  PROVE  IrqInv'
<1> USE IrqAssumption
<1>a. FlagsTyped /\ irq \in [IrqThreads -> IrqRec] /\ irq[t] \in IrqRec /\ Placed(irq[t])
  BY Typed DEF IrqInv, Places
<1>0. irq[t].pc = "release" /\ irq[t].iv \in Ints /\ ~ irq[t].held /\ irq[t].at < MaxInterrupts
  BY <1>a DEF ReleaseVector, At, Placed
<1>1. Only(t) /\ ~ irq'[t].held
      /\ \/ irq'[t].pc = "scan"
         \/ irq'[t].pc = "decide" /\ irq'[t].iv = irq[t].iv /\ irq'[t].at < MaxInterrupts
  <2>1. CASE Skip(t)
    BY <1>0, <2>1, Skipping
  <2>2. CASE irq' = [irq EXCEPT ![t] = [irq[t] EXCEPT !.pc = "decide", !.queued = 0]]
    <3>1. [irq[t] EXCEPT !.pc = "decide", !.queued = 0] \in IrqRec
      BY <1>a DEF IrqRec, Pcs
    <3>2. Only(t) /\ irq'[t] = [irq[t] EXCEPT !.pc = "decide", !.queued = 0]
      BY <1>a, <2>2, <3>1 DEF Only
    <3> QED
      BY <1>a, <1>0, <3>2 DEF IrqRec
  <2> QED
    BY <2>1, <2>2 DEF ReleaseVector
<1> DEFINE w == VectorOf[irq[t].iv]
<1>b. w \in Vectors
  BY <1>0, Vectored
<1>c. inService' = [inService EXCEPT ![w] = 0]
  BY DEF ReleaseVector, Vec
<1>2. FlagsTyped'
  <2>1. inService' \in [Vectors -> {0, 1}]
    BY <1>a, <1>b, <1>c DEF FlagsTyped
  <2> QED
    BY <1>a, <2>1 DEF ReleaseVector, FlagsTyped
<1>3. IrqTypeOK' /\ Places'
  <2>1. Placed(irq'[t])
    BY <1>a, <1>0, <1>1 DEF Placed, IrqRec
  <2> QED
    BY <2>1, <1>1, <1>2, KeepsPlaces DEF Only, IrqTypeOK, FlagsTyped
<1>4. Served1'
  <2>1. ASSUME NEW v \in Vectors, Tracked(v) PROVE ServedOnce(v)'
    <3>1. CASE v # w
      <4>1. inService'[v] = inService[v]
        BY <1>a, <1>b, <1>c, <2>1, <3>1 DEF FlagsTyped
      <4>2. Serves(irq'[t], v) <=> Serves(irq[t], v)
        BY <1>1, <3>1 DEF Serves, Serving
      <4> QED
        BY <1>1, <2>1, <4>1, <4>2, KeepsServedOnce
    <3>2. CASE v = w
      <4>1. inService'[v] = 0
        BY <1>a, <1>b, <1>c, <3>2 DEF FlagsTyped
      <4>2. Serves(irq[t], v)
        BY <1>0, <3>2 DEF Serves, Serving
      <4>3. \A u \in IrqThreads : Serves(irq[u], v) => u = t
        BY <2>1, <4>2 DEF IrqInv, Served1, ServedOnce
      <4>4. \A u \in IrqThreads : ~ Serves(irq'[u], v)
        BY <1>1, <4>3 DEF Only, Serves, Serving
      <4>5. \A u \in IrqThreads : Serves(irq[u], v)' <=> Serves(irq'[u], v)
        BY DEF Serves, Serving
      <4> HIDE DEF Serves
      <4> QED
        BY <4>1, <4>4, <4>5 DEF ServedOnce
    <3> QED
      BY <3>1, <3>2
  <2> QED
    BY <2>1 DEF Served1, Tracked
<1>5. Locked'
  <2>1. UNCHANGED <<irqOn, interlock>>
    BY DEF ReleaseVector
  <2> QED
    BY <1>a, <1>0, <1>1, <2>1, KeepsLock DEF Holding, Placed
<1> QED
  BY <1>3, <1>4, <1>5 DEF IrqInv

-----------------------------------------------------------------------------
(* The interlock changes hands.                                            *)

LEMMA LockFreed ==
  ASSUME IrqInv, NEW t \in IrqThreads, Only(t), UNCHANGED irqOn,
         Holding(irq[t]), ~ Holding(irq'[t])
  PROVE  Locked'
<1>1. "legacy" \in irqOn => \A u \in IrqThreads : ~ Holding(irq'[u])
  BY DEF IrqInv, Locked, Only
<1>2. \A u \in IrqThreads : Holding(irq[u])' <=> Holding(irq'[u])
  BY DEF Holding
<1> HIDE DEF Holding
<1> QED
  BY <1>1, <1>2 DEF Locked

LEMMA LockTaken ==
  ASSUME IrqInv, NEW t \in IrqThreads, Only(t), UNCHANGED irqOn, interlock = 0, interlock' = 1
  PROVE  Locked'
<1>1. "legacy" \in irqOn => \A u \in IrqThreads : Holding(irq'[u]) => u = t
  BY DEF IrqInv, Locked, Only
<1>2. \A u \in IrqThreads : Holding(irq[u])' <=> Holding(irq'[u])
  BY DEF Holding
<1> HIDE DEF Holding
<1> QED
  BY <1>1, <1>2 DEF Locked

LEMMA LockLeft ==
  ASSUME IrqInv, NEW t \in IrqThreads, Only(t), UNCHANGED irqOn, interlock' \in {interlock, 1},
         ~ Holding(irq'[t])
  PROVE  Locked'
<1>1. "legacy" \in irqOn =>
        /\ \A u \in IrqThreads : Holding(irq'[u]) => Holding(irq[u])
        /\ \A u \in IrqThreads : Holding(irq'[u]) => interlock' = 1
  BY DEF IrqInv, Locked, Only
<1>2. \A u \in IrqThreads : Holding(irq[u])' <=> Holding(irq'[u])
  BY DEF Holding
<1> HIDE DEF Holding
<1> QED
  BY <1>1, <1>2 DEF Locked, IrqInv

\* What follows a pump: the device pump, or the end of the wait.
LEMMA Pumping ==
  ASSUME IrqInv, IrqAssumption, NEW t \in IrqThreads, ~ irq[t].held, NextPump(t)
  PROVE  Only(t) /\ irq'[t].pc \in {"enter", "idle"} /\ ~ irq'[t].held
<1>1. irq \in [IrqThreads -> IrqRec] /\ irq[t] \in IrqRec
  BY DEF IrqInv, IrqTypeOK
<1>2. CASE irq[t].want = "gpu"
  <2> DEFINE r == [irq[t] EXCEPT !.pc = "enter", !.want = "device", !.at = 0]
  <2>1. 0 \in 0..MaxInterrupts
    BY DEF IrqAssumption
  <2>2. r \in IrqRec
    BY <1>1, <2>1 DEF IrqRec, Pcs
  <2>3. Only(t) /\ irq'[t] = r
    BY <1>1, <1>2, <2>2 DEF Only, NextPump
  <2> QED
    BY <1>1, <2>3 DEF IrqRec
<1>3. CASE irq[t].want # "gpu"
  <2>1. irq' = [irq EXCEPT ![t] = IdleIrq]
    BY <1>3 DEF NextPump
  <2> QED
    BY <2>1, Idling
<1> QED
  BY <1>2, <1>3

LEMMA EnterHolds ==
  ASSUME IrqInv, NEW t \in IrqThreads, Enter(t)
  PROVE  IrqInv'
<1> USE IrqAssumption
<1>a. FlagsTyped /\ irq \in [IrqThreads -> IrqRec] /\ irq[t] \in IrqRec /\ Placed(irq[t])
  BY Typed DEF IrqInv, Places
<1>1. /\ Only(t) /\ irq[t].pc = "enter" /\ ~ irq'[t].held
      /\ irq'[t].pc \in {"enter", "idle", "scan", "take", "done"}
      /\ "legacy" \in irqOn /\ interlock = 1
           => irq'[t].pc \in {"enter", "idle"} /\ interlock' = interlock
      /\ "legacy" \in irqOn /\ interlock # 1 => interlock' = 1
  <2>0. irq[t].pc = "enter" /\ ~ irq[t].held
    BY <1>a DEF Enter, At, Placed
  <2>1. CASE "legacy" \in irqOn /\ interlock = 1
    BY <2>0, <2>1, Pumping DEF Enter
  <2>2. CASE ~ ("legacy" \in irqOn /\ interlock = 1)
    <3> DEFINE p == IF irq[t].want = "gpu" THEN "scan" ELSE IF due THEN "take" ELSE "done"
               r == [irq[t] EXCEPT !.at = 0, !.pc = p]
    <3>1. 0 \in 0..MaxInterrupts /\ p \in {"scan", "take", "done"}
      BY DEF IrqAssumption
    <3>2. irq' = [irq EXCEPT ![t] = r]
      BY <2>2 DEF Enter
    <3> HIDE DEF p
    <3>3. r \in IrqRec
      BY <1>a, <3>1 DEF IrqRec, Pcs
    <3>4. Only(t) /\ irq'[t] = r
      BY <1>a, <3>2, <3>3 DEF Only
    <3>5. irq'[t].pc = p /\ ~ irq'[t].held
      BY <1>a, <2>0, <3>4 DEF IrqRec
    <3> QED
      BY <2>0, <2>2, <3>1, <3>4, <3>5 DEF Enter
  <2> QED
    BY <2>1, <2>2
<1>2. FlagsTyped'
  BY <1>a DEF Enter, FlagsTyped
<1>3. IrqTypeOK' /\ Places'
  <2>1. Placed(irq'[t])
    BY <1>a, <1>1 DEF Placed
  <2> QED
    BY <2>1, <1>1, <1>2, KeepsPlaces DEF Only, IrqTypeOK, FlagsTyped
<1>4. Served1'
  <2>1. UNCHANGED inService
    BY DEF Enter
  <2> QED
    BY <1>a, <1>1, <2>1, KeepsService DEF Serves, Serving
<1>5. Locked'
  <2>1. UNCHANGED irqOn
    BY DEF Enter
  <2>2. CASE "legacy" \notin irqOn
    BY <2>1, <2>2 DEF Locked
  <2>3. CASE "legacy" \in irqOn /\ interlock = 1
    BY <1>1, <2>1, <2>3, LockLeft DEF Holding
  <2>4. CASE "legacy" \in irqOn /\ interlock = 0
    BY <1>1, <2>1, <2>4, LockTaken
  <2> QED
    BY <1>a, <2>2, <2>3, <2>4 DEF FlagsTyped
<1> QED
  BY <1>3, <1>4, <1>5 DEF IrqInv

LEMMA PollDoneHolds ==
  ASSUME IrqInv, NEW t \in IrqThreads, PollDone(t)
  PROVE  IrqInv'
<1> USE IrqAssumption
<1>a. FlagsTyped /\ irq \in [IrqThreads -> IrqRec] /\ irq[t] \in IrqRec /\ Placed(irq[t])
  BY Typed DEF IrqInv, Places
<1>1. Only(t) /\ irq[t].pc = "done" /\ irq'[t].pc \in {"enter", "idle"} /\ ~ irq'[t].held
  BY <1>a, Pumping DEF PollDone, At, Placed
<1>2. FlagsTyped'
  BY <1>a DEF PollDone, FlagsTyped
<1>3. IrqTypeOK' /\ Places'
  <2>1. Placed(irq'[t])
    BY <1>a, <1>1 DEF Placed
  <2> QED
    BY <2>1, <1>1, <1>2, KeepsPlaces DEF Only, IrqTypeOK, FlagsTyped
<1>4. Served1'
  <2>1. UNCHANGED inService
    BY DEF PollDone
  <2> QED
    BY <1>a, <1>1, <2>1, KeepsService DEF Serves, Serving
<1>5. Locked'
  <2>1. UNCHANGED irqOn
    BY DEF PollDone
  <2> QED
    BY <1>1, <2>1, LockFreed DEF Holding
<1> QED
  BY <1>3, <1>4, <1>5 DEF IrqInv

LEMMA SyncBeginHolds ==
  ASSUME IrqInv, NEW t \in IrqThreads, SyncBegin(t)
  PROVE  IrqInv'
<1> USE IrqAssumption
<1>a. FlagsTyped /\ irq \in [IrqThreads -> IrqRec] /\ irq[t] \in IrqRec /\ Placed(irq[t])
  BY Typed DEF IrqInv, Places
<1>1. Only(t) /\ irq[t].pc = "idle" /\ irq'[t].pc = "sync" /\ irq'[t].held = (interlock = 0)
  <2> DEFINE h == interlock = 0
             r == [irq[t] EXCEPT !.pc = "sync", !.held = h]
  <2>1. h \in BOOLEAN
    OBVIOUS
  <2>2. irq' = [irq EXCEPT ![t] = r] /\ irq[t].pc = "idle"
    BY DEF SyncBegin, At
  <2> HIDE DEF h
  <2>3. r \in IrqRec
    BY <1>a, <2>1 DEF IrqRec, Pcs
  <2>4. Only(t) /\ irq'[t] = r
    BY <1>a, <2>2, <2>3 DEF Only
  <2>5. irq'[t].pc = "sync" /\ irq'[t].held = h
    BY <1>a, <2>4 DEF IrqRec
  <2> QED
    BY <2>2, <2>4, <2>5 DEF h
<1>2. FlagsTyped'
  BY <1>a DEF SyncBegin, FlagsTyped
<1>3. IrqTypeOK' /\ Places'
  <2>1. Placed(irq'[t])
    BY <1>a, <1>1 DEF Placed
  <2> QED
    BY <2>1, <1>1, <1>2, KeepsPlaces DEF Only, IrqTypeOK, FlagsTyped
<1>4. Served1'
  <2>1. UNCHANGED inService
    BY DEF SyncBegin
  <2> QED
    BY <1>a, <1>1, <2>1, KeepsService DEF Serves, Serving
<1>5. Locked'
  <2>1. UNCHANGED irqOn /\ interlock' = 1
    BY DEF SyncBegin
  <2>2. CASE interlock = 0
    BY <1>1, <2>1, <2>2, LockTaken
  <2>3. CASE interlock # 0
    BY <1>1, <2>1, <2>3, LockLeft DEF Holding
  <2> QED
    BY <2>2, <2>3
<1> QED
  BY <1>3, <1>4, <1>5 DEF IrqInv

LEMMA SyncReturnHolds ==
  ASSUME IrqInv, NEW t \in IrqThreads, SyncReturn(t)
  PROVE  IrqInv'
<1> USE IrqAssumption
<1>a. FlagsTyped /\ irq \in [IrqThreads -> IrqRec] /\ irq[t] \in IrqRec /\ Placed(irq[t])
  BY Typed DEF IrqInv, Places
<1>1. Only(t) /\ irq[t].pc = "sync" /\ irq'[t].pc \in {"syncdpc", "idle"} /\ ~ irq'[t].held
  <2>0. irq[t].pc = "sync"
    BY DEF SyncReturn, At
  <2>1. CASE irq' = [irq EXCEPT ![t] = IdleIrq]
    BY <2>0, <2>1, Idling
  <2>2. CASE irq' = [irq EXCEPT ![t] = [irq[t] EXCEPT !.pc = "syncdpc", !.held = FALSE]]
    <3> DEFINE r == [irq[t] EXCEPT !.pc = "syncdpc", !.held = FALSE]
    <3>1. r \in IrqRec
      BY <1>a DEF IrqRec, Pcs
    <3>2. Only(t) /\ irq'[t] = r
      BY <1>a, <2>2, <3>1 DEF Only
    <3> QED
      BY <1>a, <2>0, <3>2 DEF IrqRec
  <2> QED
    BY <2>1, <2>2 DEF SyncReturn
<1>2. FlagsTyped'
  BY <1>a DEF SyncReturn, FlagsTyped
<1>3. IrqTypeOK' /\ Places'
  <2>1. Placed(irq'[t])
    BY <1>a, <1>1 DEF Placed
  <2> QED
    BY <2>1, <1>1, <1>2, KeepsPlaces DEF Only, IrqTypeOK, FlagsTyped
<1>4. Served1'
  <2>1. UNCHANGED inService
    BY DEF SyncReturn
  <2> QED
    BY <1>a, <1>1, <2>1, KeepsService DEF Serves, Serving
<1>5. Locked'
  <2>1. UNCHANGED irqOn /\ interlock' = (IF irq[t].held THEN 0 ELSE interlock)
    BY DEF SyncReturn
  <2>2. CASE irq[t].held
    BY <1>1, <2>1, <2>2, LockFreed DEF Holding
  <2>3. CASE ~ irq[t].held
    BY <1>1, <2>1, <2>3, LockLeft DEF Holding
  <2> QED
    BY <2>2, <2>3
<1> QED
  BY <1>3, <1>4, <1>5 DEF IrqInv

LEMMA DeviceDueHolds ==
  ASSUME IrqInv, DeviceDue
  PROVE  IrqInv'
BY DEF IrqInv, DeviceDue, IrqTypeOK, Places, Served1, ServedOnce, Tracked, Locked, Serves, Serving,
       Holding, Placed

LEMMA StutterHolds ==
  ASSUME IrqInv, UNCHANGED irqVars
  PROVE  IrqInv'
BY DEF IrqInv, irqVars, IrqTypeOK, Places, Served1, ServedOnce, Tracked, Locked, Serves, Serving,
       Holding, Placed

LEMMA StartHolds ==
  ASSUME IrqAssumption, IrqInit
  PROVE  IrqInv
<1>1. IdleIrq \in IrqRec
  BY DEF IdleIrq, IrqRec, Pcs, Passive, IrqAssumption
<1>2. IrqTypeOK
  BY <1>1 DEF IrqTypeOK, IrqInit
<1>3. \A t \in IrqThreads : irq[t].pc = "idle" /\ irq[t].held = FALSE
  BY DEF IrqInit, IdleIrq
<1>4. Places
  BY <1>3 DEF Places, Placed
<1>5. Served1
  BY <1>3 DEF Served1, ServedOnce, Serves, Serving, IrqInit
<1>6. Locked
  BY <1>3 DEF Locked, Holding
<1> QED
  BY <1>2, <1>4, <1>5, <1>6 DEF IrqInv

-----------------------------------------------------------------------------
(* The table of interrupts, with one thread that connects and no more      *)
(* interrupts than slots.                                                  *)

LEMMA Elsewhere ==
  ASSUME IrqTypeOK, NEW t \in IrqThreads,
         \/ Deliver(t) \/ (\E d \in Dpcs : QueueDpc(t, d)) \/ SyncBegin(t) \/ SyncReturn(t)
  PROVE  /\ UNCHANGED <<slots, connected>>
         /\ ~ Connecting(irq'[t])
         /\ \A u \in IrqThreads \ {t} : irq'[u] = irq[u]
<1>0. irq \in [IrqThreads -> IrqRec] /\ irq[t] \in IrqRec
  BY DEF IrqTypeOK
<1>1. UNCHANGED <<slots, connected>>
  BY DEF Deliver, Poll, Enter, Take, Scan, PollDone, Decide, Defer, Claim, IsrReturn, DpcReturn,
         Clear, ReleaseVector, QueueDpc, SyncBegin, SyncReturn
<1>2. ~ Connecting(irq'[t])
  <2>0. /\ \A p \in Pcs : Goto(t, p) => irq'[t].pc = p
        /\ Skip(t) => irq'[t].pc = "scan"
        /\ NextPump(t) => irq'[t].pc \in {"enter", "idle"}
    <3>1. ASSUME NEW p \in Pcs, Goto(t, p) PROVE irq'[t].pc = p
      BY <1>0, <3>1 DEF Goto, IrqRec
    <3>2. ASSUME Skip(t) PROVE irq'[t].pc = "scan"
      BY <1>0, <3>2 DEF Skip, Skipped, IrqRec
    <3>3. ASSUME NextPump(t) PROVE irq'[t].pc \in {"enter", "idle"}
      BY <1>0, <3>3 DEF NextPump, IdleIrq, IrqRec
    <3> QED
      BY <3>1, <3>2, <3>3
  <2>1. CASE Poll(t)
    BY <1>0, <2>1 DEF Poll, Connecting, IrqRec
  <2>2. CASE Enter(t)
    BY <1>0, <2>0, <2>2 DEF Enter, Connecting, IrqRec
  <2>3. CASE Take(t) \/ PollDone(t) \/ Decide(t) \/ Defer(t) \/ Claim(t) \/ IsrReturn(t)
    BY <2>0, <2>3 DEF Take, PollDone, Decide, Defer, Claim, IsrReturn, Unwind, Connecting, Pcs
  <2>5. CASE Scan(t)
    BY <1>0, <2>0, <2>5 DEF Scan, Connecting, IrqRec, Pcs
  <2>6. CASE DpcReturn(t)
    BY <1>0, <2>6 DEF DpcReturn, Skipped, IdleIrq, Connecting, IrqRec
  <2>7. CASE Clear(t)
    BY <1>0, <2>7 DEF Clear, Connecting, IrqRec
  <2>10. CASE ReleaseVector(t)
    BY <1>0, <2>0, <2>10 DEF ReleaseVector, Connecting, IrqRec
  <2>4. CASE \E d \in Dpcs : QueueDpc(t, d)
    <3>1. irq'[t].pc = irq[t].pc /\ irq[t].pc \in {"isr", "sync"}
      BY <1>0, <2>4 DEF QueueDpc, IrqRec
    <3> QED
      BY <3>1 DEF Connecting
  <2>8. CASE SyncBegin(t)
    BY <1>0, <2>8 DEF SyncBegin, Connecting, IrqRec
  <2>9. CASE SyncReturn(t)
    BY <1>0, <2>9 DEF SyncReturn, IdleIrq, Connecting, IrqRec
  <2> QED
    BY <2>1, <2>2, <2>3, <2>4, <2>5, <2>6, <2>7, <2>8, <2>9, <2>10 DEF Deliver
<1>3. \A u \in IrqThreads \ {t} : irq'[u] = irq[u]
  BY <1>0 DEF Deliver, Poll, Enter, Take, Scan, PollDone, Decide, Defer, Claim, IsrReturn,
     DpcReturn, Clear, ReleaseVector, QueueDpc, SyncBegin, SyncReturn, NextPump, Skip, Unwind, Goto
<1> QED
  BY <1>1, <1>2, <1>3

\* A step that leaves the table as it was.
LEMMA KeepsTable ==
  ASSUME TableInv, NEW t \in IrqThreads, UNCHANGED <<slots, connected>>,
         \A u \in IrqThreads \ {t} : irq'[u] = irq[u],
         Connecting(irq'[t]) => t \in Connectors /\ Passed(slots', irq'[t])
  PROVE  TableInv'
<1>1. NoHoleBefore' /\ OncePerInt' /\ AllRecorded'
  BY DEF TableInv, NoHoleBefore, OncePerInt, AllRecorded
<1>2. \A u \in IrqThreads \ {t} : Connecting(irq'[u]) => u \in Connectors /\ Passed(slots', irq'[u])
  BY DEF TableInv, Looking, Passed, Connecting
<1>3. Looking'
  BY <1>2 DEF Looking, Passed, Connecting
<1> QED
  BY <1>1, <1>3 DEF TableInv

LEMMA ConnectKeepsTable ==
  ASSUME IrqInv, TableInv, NEW t \in IrqThreads, NEW iv \in Ints, Connect(t, iv)
  PROVE  TableInv'
<1>1. irq \in [IrqThreads -> IrqRec] /\ irq[t] \in IrqRec
  BY DEF IrqInv, IrqTypeOK
<1>2. /\ t \in Connectors /\ irq'[t] = [irq[t] EXCEPT !.pc = "test", !.at = 0, !.iv = iv]
      /\ \A u \in IrqThreads \ {t} : irq'[u] = irq[u]
      /\ UNCHANGED <<slots, connected>>
  BY <1>1 DEF Connect
<1>3. irq'[t].pc = "test" /\ irq'[t].at = 0
  BY <1>1, <1>2 DEF IrqRec
<1>4. Passed(slots', irq'[t])
  BY <1>3, IrqAssumption DEF Passed, Table
<1> QED
  BY <1>2, <1>4, KeepsTable

\* The scan of KeConnectInterrupt never runs off a table that has room: every
\* slot would hold another interrupt than this one.
LEMMA RoomForOne ==
  ASSUME IrqInv, TableInv, NEW t \in IrqThreads, irq[t].pc = "test",
         IsFiniteSet(Ints), Cardinality(Ints) =< MaxInterrupts
  PROVE  irq[t].at < MaxInterrupts
<1>1. /\ irq[t] \in IrqRec /\ irq[t].iv \in Ints /\ slots \in [Table -> Ints \cup {NoInt}]
      /\ MaxInterrupts \in Nat \ {0} /\ irq[t].at \in 0..MaxInterrupts
  BY IrqAssumption DEF IrqInv, IrqTypeOK, Places, Placed, IrqRec
<1>2. SUFFICES ASSUME irq[t].at = MaxInterrupts PROVE FALSE
  BY <1>1
<1> DEFINE Others == Ints \ {irq[t].iv}
<1>3. \A j \in Table : slots[j] \in Others
  BY <1>1, <1>2 DEF TableInv, Looking, Passed, Connecting, Table
<1>4. slots \in [Table -> Others]
  BY <1>1, <1>3
<1>5. IsFiniteSet(Others) /\ Cardinality(Others) = Cardinality(Ints) - 1
  BY <1>1, FS_RemoveElement
<1>6. IsFiniteSet(Table) /\ Cardinality(Table) = MaxInterrupts
  BY <1>1, FS_Interval DEF Table
<1>7. Cardinality(Ints) \in Nat
  BY FS_CardinalityType
<1>8. PICK i, j \in Table : i # j /\ slots[i] = slots[j]
  BY <1>1, <1>4, <1>5, <1>6, <1>7, FS_PigeonHole
<1>9. slots[i] # NoInt
  BY <1>3, IrqAssumption
<1> QED
  BY <1>8, <1>9 DEF TableInv, OncePerInt

LEMMA ConnectTestKeepsTable ==
  ASSUME IrqInv, TableInv, NEW t \in IrqThreads, ConnectTest(t),
         IsFiniteSet(Ints), Cardinality(Ints) =< MaxInterrupts
  PROVE  TableInv'
<1>1. /\ irq \in [IrqThreads -> IrqRec] /\ irq[t] \in IrqRec /\ irq[t].iv \in Ints
      /\ slots \in [Table -> Ints \cup {NoInt}] /\ MaxInterrupts \in Nat \ {0}
  BY IrqAssumption DEF IrqInv, IrqTypeOK, Places, Placed, ConnectTest, At
<1>2. irq[t].pc = "test" /\ UNCHANGED slots
  BY DEF ConnectTest, At
<1>3. irq[t].at \in Table /\ irq[t].at < MaxInterrupts /\ irq[t].at # MaxInterrupts
  BY <1>1, <1>2, RoomForOne DEF IrqRec, Table
<1>4. t \in Connectors /\ \A j \in Table : j < irq[t].at => slots[j] # NoInt /\ slots[j] # irq[t].iv
  BY <1>2 DEF TableInv, Looking, Passed, Connecting
<1>5. CASE slots[irq[t].at] = irq[t].iv
  <2>1. irq' = [irq EXCEPT ![t] = IdleIrq] /\ connected' = connected \cup {irq[t].iv}
    BY <1>3, <1>5 DEF ConnectTest, ConnectReturn
  <2>2. \A u \in IrqThreads : Connecting(irq'[u]) => irq'[u] = irq[u] /\ u # t
    BY <1>1, <2>1 DEF Connecting, IdleIrq
  <2>3. Looking'
    BY <1>2, <2>2 DEF TableInv, Looking, Passed, Connecting
  <2>4. NoHoleBefore' /\ OncePerInt' /\ AllRecorded'
    BY <1>2, <1>3, <1>5, <2>1 DEF TableInv, NoHoleBefore, OncePerInt, AllRecorded
  <2> QED
    BY <2>3, <2>4 DEF TableInv
<1>6. CASE slots[irq[t].at] # irq[t].iv
  <2>1. /\ UNCHANGED connected
        /\ IF slots[irq[t].at] = NoInt THEN Goto(t, "store")
           ELSE irq' = [irq EXCEPT ![t].at = irq[t].at + 1]
    BY <1>3, <1>6 DEF ConnectTest
  <2>2. \A u \in IrqThreads \ {t} : irq'[u] = irq[u]
    BY <1>1, <2>1 DEF Goto
  <2>3. CASE slots[irq[t].at] = NoInt
    <3>1. irq'[t].pc = "store" /\ irq'[t].at = irq[t].at /\ irq'[t].iv = irq[t].iv
      BY <1>1, <2>1, <2>3 DEF Goto, IrqRec
    <3>2. Passed(slots', irq'[t])
      BY <1>2, <1>4, <2>3, <3>1 DEF Passed
    <3> QED
      BY <1>2, <1>4, <2>1, <2>2, <3>2, KeepsTable
  <2>4. CASE slots[irq[t].at] # NoInt
    <3>1. irq'[t].pc = "test" /\ irq'[t].at = irq[t].at + 1 /\ irq'[t].iv = irq[t].iv
      BY <1>1, <1>2, <2>1, <2>4 DEF IrqRec
    <3>2. \A j \in Table : j < irq[t].at + 1 => j < irq[t].at \/ j = irq[t].at
      BY <1>3 DEF Table
    <3>3. Passed(slots', irq'[t])
      BY <1>2, <1>4, <1>6, <2>4, <3>1, <3>2 DEF Passed
    <3> QED
      BY <1>2, <1>4, <2>1, <2>2, <3>3, KeepsTable
  <2> QED
    BY <2>3, <2>4
<1> QED
  BY <1>5, <1>6

\* The store fills the first hole: what it overwrites is nothing, since no
\* other thread connects.
LEMMA ConnectStoreKeepsTable ==
  ASSUME IrqInv, TableInv, NEW t \in IrqThreads, ConnectStore(t),
         \A u, w \in Connectors : u = w
  PROVE  TableInv'
<1> DEFINE k == irq[t].at
           iv == irq[t].iv
<1>1. /\ irq \in [IrqThreads -> IrqRec] /\ irq[t] \in IrqRec /\ iv \in Ints /\ iv # NoInt
      /\ slots \in [Table -> Ints \cup {NoInt}] /\ MaxInterrupts \in Nat \ {0}
      /\ irq[t].pc = "store" /\ k < MaxInterrupts
  BY IrqAssumption DEF IrqInv, IrqTypeOK, Places, Placed, ConnectStore, At
<1>2. k \in Table
  BY <1>1 DEF Table, IrqRec
<1>3. t \in Connectors /\ slots[k] = NoInt
      /\ \A j \in Table : j < k => slots[j] # NoInt /\ slots[j] # iv
  BY <1>1 DEF TableInv, Looking, Passed, Connecting
<1>4. /\ slots' = [slots EXCEPT ![k] = iv] /\ connected' = connected \cup {iv}
      /\ irq' = [irq EXCEPT ![t] = IdleIrq]
  BY DEF ConnectStore, ConnectReturn
<1>5. \A u \in IrqThreads : ~ Connecting(irq'[u])
  BY <1>1, <1>3, <1>4 DEF TableInv, Looking, Connecting, IdleIrq
<1>6. \A j \in Table : k < j => slots[j] = NoInt
  BY <1>2, <1>3 DEF TableInv, NoHoleBefore, Table
<1>7. slots'[k] = iv /\ \A j \in Table \ {k} : slots'[j] = slots[j] /\ slots[j] # iv
  BY <1>1, <1>2, <1>3, <1>4, <1>6 DEF Table
<1> HIDE DEF k, iv
<1>8. NoHoleBefore'
  <2>1. ASSUME NEW i \in Table, NEW j \in Table, j =< i, slots'[i] # NoInt PROVE slots'[j] # NoInt
    <3>1. i =< k
      BY <1>2, <1>6, <1>7, <2>1 DEF Table
    <3>2. j = k \/ j < k
      BY <1>2, <2>1, <3>1 DEF Table
    <3> QED
      BY <1>1, <1>3, <1>7, <3>2
  <2> QED
    BY <2>1 DEF NoHoleBefore
<1>9. OncePerInt'
  BY <1>2, <1>7 DEF TableInv, OncePerInt
<1>10. AllRecorded'
  BY <1>2, <1>3, <1>4, <1>7, IrqAssumption DEF TableInv, AllRecorded, IrqInv, IrqTypeOK
<1>11. Looking'
  BY <1>5 DEF Looking, Connecting
<1> QED
  BY <1>8, <1>9, <1>10, <1>11 DEF TableInv

LEMMA StepKeepsTable ==
  ASSUME IrqInv, TableInv, [IrqNext]_irqVars, \A u, w \in Connectors : u = w,
         IsFiniteSet(Ints), Cardinality(Ints) =< MaxInterrupts
  PROVE  TableInv'
<1>1. CASE DeviceDue \/ UNCHANGED irqVars
  BY <1>1 DEF DeviceDue, irqVars, TableInv, NoHoleBefore, OncePerInt, Looking, Passed, Connecting,
              AllRecorded
<1>2. ASSUME NEW t \in IrqThreads, IrqStep(t) PROVE TableInv'
  <2>1. CASE \/ Deliver(t) \/ (\E d \in Dpcs : QueueDpc(t, d)) \/ SyncBegin(t) \/ SyncReturn(t)
    BY <2>1, Elsewhere, KeepsTable DEF IrqInv
  <2>2. CASE \E iv \in Ints : Connect(t, iv)
    BY <2>2, ConnectKeepsTable
  <2>3. CASE ConnectTest(t) \/ ConnectStore(t)
    BY <2>3, ConnectTestKeepsTable, ConnectStoreKeepsTable
  <2> QED
    BY <1>2, <2>1, <2>2, <2>3 DEF IrqStep
<1> QED
  BY <1>1, <1>2 DEF IrqNext

-----------------------------------------------------------------------------

\* The inductive invariant: every step of the pumps, of KeConnectInterrupt, of
\* KeInsertQueueDpc and of KeSynchronizeExecution keeps it.
THEOREM Invariance == IrqSpec => []IrqInv
<1>1. IrqInit => IrqInv
  BY IrqAssumption, StartHolds
<1>2. IrqInv /\ [IrqNext]_irqVars => IrqInv'
  <2> SUFFICES ASSUME IrqInv, [IrqNext]_irqVars PROVE IrqInv'
    OBVIOUS
  <2>1. CASE DeviceDue
    BY <2>1, DeviceDueHolds
  <2>2. ASSUME NEW t \in IrqThreads, IrqStep(t) PROVE IrqInv'
    <3>1. CASE Deliver(t)
      BY <3>1, PollHolds, EnterHolds, TakeHolds, ScanHolds, PollDoneHolds, DecideHolds,
         DeferHolds, ClaimHolds, IsrReturnHolds, DpcReturnHolds, ClearHolds,
         ReleaseVectorHolds DEF Deliver
    <3>2. CASE \E iv \in Ints : Connect(t, iv)
      BY <3>2, ConnectHolds
    <3>3. CASE ConnectTest(t) \/ ConnectStore(t)
      BY <3>3, ConnectTestHolds, ConnectStoreHolds
    <3>4. CASE \E d \in Dpcs : QueueDpc(t, d)
      BY <3>4, QueueDpcHolds
    <3>5. CASE SyncBegin(t) \/ SyncReturn(t)
      BY <3>5, SyncBeginHolds, SyncReturnHolds
    <3> QED
      BY <2>2, <3>1, <3>2, <3>3, <3>4, <3>5 DEF IrqStep
  <2>3. CASE UNCHANGED irqVars
    BY <2>3, StutterHolds
  <2> QED
    BY <2>1, <2>2, <2>3 DEF IrqNext
<1> QED
  BY <1>1, <1>2, PTL DEF IrqSpec

\* The table, the flags of the vectors, the interlock and what each thread is
\* doing stay in their types, and a pump never leaves the table.
THEOREM DeliveryTyped == IrqSpec => []IrqTypeOK
<1>1. IrqInv => IrqTypeOK
  BY DEF IrqInv
<1> QED
  BY <1>1, Invariance, PTL

\* "Per-vector non-reentrancy is enforced in bridge_deliver_isr": of all the
\* threads that pump, one at a time is between the claim of a vector and its
\* release, service routine and DPC included, and the flag says so.
THEOREM OneServiceAtATime == IrqSpec => []ServiceOnce
<1>1. IrqInv => ServiceOnce
  <2> SUFFICES ASSUME IrqInv, NEW v \in Vectors, Tracked(v)
               PROVE  /\ \A t, u \in InService(v) : t = u
                      /\ inService[v] = 1 <=> InService(v) # {}
    BY DEF ServiceOnce
  <2>1. ServedOnce(v)
    BY DEF IrqInv, Served1
  <2>2. InService(v) = {t \in IrqThreads : Serves(irq[t], v)}
    BY DEF InService, Serves, Serving, Vec
  <2> HIDE DEF Serves
  <2> QED
    BY <2>1, <2>2 DEF ServedOnce
<1> QED
  BY <1>1, Invariance, PTL

\* With the interlock on (RECOMP_LEGACY_IRQ_INTERLOCK), a pump and a routine of
\* KeSynchronizeExecution that got it are never both inside, for any threads.
THEOREM InterlockHolds == IrqSpec => []InterlockExcludes
<1>1. IrqInv => InterlockExcludes
  BY DEF IrqInv, Locked, Holding, InterlockExcludes, InterlockHolders
<1> QED
  BY <1>1, Invariance, PTL

\* KeConnectInterrupt "records every interrupt a title connects": with one
\* thread that connects and no more interrupts than slots, each whose connect
\* returned is in the table before the first hole, where the pumps stop.
THEOREM ConnectionsAreKept ==
  ASSUME IsFiniteSet(Ints), \A t, u \in Connectors : t = u
  PROVE  IrqSpec => []ConnectionsKept
<1>1. CASE Cardinality(Ints) =< MaxInterrupts
  <2>1. IrqInit => TableInv
    BY DEF IrqInit, IdleIrq, TableInv, NoHoleBefore, OncePerInt, Looking, Connecting, AllRecorded
  <2>2. IrqInv /\ TableInv /\ [IrqNext]_irqVars => TableInv'
    BY <1>1, StepKeepsTable
  <2>3. IrqInv /\ TableInv => ConnectionsKept
    <3> SUFFICES ASSUME IrqInv, TableInv, NEW iv \in connected
                 PROVE  \E i \in Table : slots[i] = iv /\ \A j \in 0..i : slots[j] # NoInt
      BY DEF ConnectionsKept
    <3>1. PICK i \in Table : slots[i] = iv
      BY DEF TableInv, AllRecorded
    <3>2. iv # NoInt
      BY IrqAssumption DEF IrqInv, IrqTypeOK
    <3>3. \A j \in 0..i : j \in Table /\ j =< i
      BY <3>1, IrqAssumption DEF Table
    <3> QED
      BY <3>1, <3>2, <3>3 DEF TableInv, NoHoleBefore
  <2> QED
    BY <2>1, <2>2, <2>3, Invariance, PTL DEF IrqSpec
<1>2. CASE ~ (Cardinality(Ints) =< MaxInterrupts)
  <2>1. ConnectionsKept
    BY <1>2 DEF ConnectionsKept
  <2> QED
    BY <2>1, PTL
<1> QED
  BY <1>1, <1>2

=============================================================================
