----------------------------- MODULE Interrupts -----------------------------
(***************************************************************************)
(* Delivery of guest interrupts (kernel_bridge.c).  Titles connect their   *)
(* interrupt objects to a table; every thread that blocks in a wait, and   *)
(* optionally a host thread, scans the table and runs the guest's service  *)
(* routine on its own stack, if its recursion depth, its IRQL and the      *)
(* in-service flag of the vector allow it.  One action per access to a     *)
(* shared word.  The switches read from the environment are chosen in the  *)
(* initial state: "retry" is RECOMP_IRQ_RETRY_PENDING, "legacy" is         *)
(* RECOMP_LEGACY_IRQ_INTERLOCK, "sync" is RECOMP_KE_SYNC_EXEC.             *)
(***************************************************************************)
EXTENDS Naturals, FiniteSets

CONSTANTS
  IrqThreads,      \* threads that pump
  HostThreads,     \* those that pump devices only (bridge_irq_thread)
  Ints, NoInt,     \* guest KINTERRUPT objects
  VectorOf,        \* their vectors
  MaxInterrupts,   \* BRIDGE_MAX_INTERRUPTS
  GpuVector,       \* BRIDGE_NV2A_VECTOR
  GivenIrql,       \* the IRQL KeInitializeInterrupt notes for a vector
  LevelsOf,        \* IRQLs at which a thread waits
  Connectors,      \* threads that connect
  Dpcs, NoDpc,     \* DPCs a service routine queues
  IrqSwitches      \* sets of switches to consider

Table   == 0..MaxInterrupts - 1
Vectors == {VectorOf[i] : i \in Ints}
Tracked(v) == v < MaxInterrupts     \* it has an in-service and a pending flag
Passive == 0                        \* PASSIVE_LEVEL
DispatchLevel == 2

ASSUME IrqAssumption ==
  /\ MaxInterrupts \in Nat \ {0}
  /\ NoInt \notin Ints /\ NoDpc \notin Dpcs
  /\ VectorOf \in [Ints -> Nat]
  /\ GivenIrql \in [Vectors -> Nat]
  /\ LevelsOf \in [IrqThreads -> SUBSET Nat]
  /\ HostThreads \subseteq IrqThreads /\ Connectors \subseteq IrqThreads

VARIABLES
  irqOn,       \* the switches that are on
  slots,       \* g_interrupts
  inService,   \* g_vector_in_service
  vecPending,  \* g_vector_pending
  interlock,   \* g_vblank_delivery_active
  due,         \* the device deadline has passed
  irq,         \* what each thread is doing
  connected    \* interrupts whose connect has returned

irqVars == <<irqOn, slots, inService, vecPending, interlock, due, irq, connected>>

IdleIrq == [pc |-> "idle", at |-> 0, iv |-> NoInt, want |-> "gpu",
            level |-> Passive, dpc |-> NoDpc, queued |-> 0, held |-> FALSE]

Pcs == {"idle", "test", "store", "enter", "take", "scan", "decide", "defer", "claim",
        "isr", "dpc", "clear", "release", "done", "sync", "syncdpc"}
IrqRec == [pc : Pcs, at : 0..MaxInterrupts, iv : Ints \cup {NoInt},
           want : {"gpu", "device"}, level : Nat, dpc : Dpcs \cup {NoDpc},
           queued : {0, 1}, held : BOOLEAN]

IrqInit ==
  /\ irqOn \in IrqSwitches
  /\ slots = [i \in Table |-> NoInt]
  /\ inService = [v \in Vectors |-> 0]
  /\ vecPending = [v \in Vectors |-> 0]
  /\ interlock = 0
  /\ due = FALSE
  /\ irq = [t \in IrqThreads |-> IdleIrq]
  /\ connected = {}

Vec(t) == VectorOf[irq[t].iv]
\* bridge_vector_irql: device interrupts are above DISPATCH_LEVEL.
VectorIrql(v) == IF GivenIrql[v] > DispatchLevel THEN GivenIrql[v] ELSE DispatchLevel + 1

At(t, p) == irq[t].pc = p
Goto(t, p) == irq' = [irq EXCEPT ![t].pc = p]
Skipped(t) == [irq[t] EXCEPT !.pc = "scan", !.at = irq[t].at + 1, !.iv = NoInt,
                             !.dpc = NoDpc, !.queued = 0]
Skip(t) == irq' = [irq EXCEPT ![t] = Skipped(t)]

-----------------------------------------------------------------------------
(* KeConnectInterrupt: the first slot that holds the object or nothing.    *)

Connect(t, iv) ==
  /\ t \in Connectors /\ At(t, "idle")
  /\ irq' = [irq EXCEPT ![t].pc = "test", ![t].at = 0, ![t].iv = iv]
  /\ UNCHANGED <<irqOn, slots, inService, vecPending, interlock, due, connected>>

ConnectReturn(t) ==
  /\ irq' = [irq EXCEPT ![t] = IdleIrq]
  /\ connected' = connected \cup {irq[t].iv}

ConnectTest_IgnoresUse(t) ==
  /\ At(t, "test")
  /\ \/ /\ irq[t].at = MaxInterrupts \/ slots[irq[t].at] = irq[t].iv
        /\ ConnectReturn(t)
     \/ /\ irq[t].at < MaxInterrupts /\ slots[irq[t].at] # irq[t].iv
        /\ Goto(t, "store")
        /\ UNCHANGED connected
  /\ UNCHANGED <<irqOn, slots, inService, vecPending, interlock, due>>

ConnectTest(t) ==
  /\ At(t, "test")
  /\ \/ /\ irq[t].at = MaxInterrupts \/ slots[irq[t].at] = irq[t].iv
        /\ ConnectReturn(t)
     \/ /\ irq[t].at < MaxInterrupts /\ slots[irq[t].at] # irq[t].iv
        /\ IF slots[irq[t].at] = NoInt
             THEN Goto(t, "store")
             ELSE irq' = [irq EXCEPT ![t].at = irq[t].at + 1]
        /\ UNCHANGED connected
  /\ UNCHANGED <<irqOn, slots, inService, vecPending, interlock, due>>

ConnectStore(t) ==
  /\ At(t, "store")
  /\ slots' = [slots EXCEPT ![irq[t].at] = irq[t].iv]
  /\ ConnectReturn(t)
  /\ UNCHANGED <<irqOn, inService, vecPending, interlock, due>>

-----------------------------------------------------------------------------
(* The pumps.  A wait runs bridge_vblank_poll, then bridge_device_irq_poll; *)
(* a thread inside a service routine or a DPC leaves both at once, which    *)
(* changes nothing.                                                         *)

DeviceDue ==
  /\ ~ due /\ due' = TRUE
  /\ UNCHANGED <<irqOn, slots, inService, vecPending, interlock, irq, connected>>

Poll(t) ==
  /\ At(t, "idle")
  /\ \E l \in LevelsOf[t] :
       irq' = [irq EXCEPT ![t].pc = "enter", ![t].level = l,
                          ![t].want = IF t \in HostThreads THEN "device" ELSE "gpu"]
  /\ UNCHANGED <<irqOn, slots, inService, vecPending, interlock, due, connected>>

NextPump(t) ==
  irq' = [irq EXCEPT ![t] =
    IF irq[t].want = "gpu" THEN [irq[t] EXCEPT !.pc = "enter", !.want = "device", !.at = 0] ELSE IdleIrq]

Enter_NoExchange(t) ==
  /\ At(t, "enter")
  /\ interlock' = IF "legacy" \in irqOn THEN 1 ELSE interlock
  /\ irq' = [irq EXCEPT ![t].at = 0,
       ![t].pc = IF irq[t].want = "gpu" THEN "scan" ELSE IF due THEN "take" ELSE "done"]
  /\ UNCHANGED <<irqOn, slots, inService, vecPending, due, connected>>

\* Past the interlock a device pump goes on if its deadline has passed.
Enter(t) ==
  /\ At(t, "enter")
  /\ IF "legacy" \in irqOn /\ interlock = 1
       THEN NextPump(t) /\ UNCHANGED interlock
       ELSE /\ interlock' = IF "legacy" \in irqOn THEN 1 ELSE interlock
            /\ irq' = [irq EXCEPT ![t].at = 0,
                 ![t].pc = IF irq[t].want = "gpu" THEN "scan"
                           ELSE IF due THEN "take" ELSE "done"]
  /\ UNCHANGED <<irqOn, slots, inService, vecPending, due, connected>>

Take(t) ==
  /\ At(t, "take")
  /\ due' = FALSE
  /\ Goto(t, "scan")
  /\ UNCHANGED <<irqOn, slots, inService, vecPending, interlock, connected>>

Served(t, iv) == (VectorOf[iv] = GpuVector) = (irq[t].want = "gpu")

Scan_PastEnd(t) ==
  /\ At(t, "scan")
  /\ IF irq[t].at = MaxInterrupts THEN Skip(t)
     ELSE LET iv == slots[irq[t].at] IN
       \/ iv = NoInt /\ Goto(t, "done")
       \/ iv # NoInt /\ (~ Served(t, iv) \/ irq[t].want = "gpu") /\ Skip(t)
       \/ /\ iv # NoInt /\ Served(t, iv)
          /\ irq' = [irq EXCEPT ![t].pc = "decide", ![t].iv = iv]
  /\ UNCHANGED <<irqOn, slots, inService, vecPending, interlock, due, connected>>

\* A GPU interrupt is delivered only if a vertical blank or a software method
\* is pending, which is left open here (NvInterrupts has it).
Scan(t) ==
  /\ At(t, "scan")
  /\ IF irq[t].at = MaxInterrupts THEN Goto(t, "done")
     ELSE LET iv == slots[irq[t].at] IN
       \/ iv = NoInt /\ Goto(t, "done")
       \/ iv # NoInt /\ (~ Served(t, iv) \/ irq[t].want = "gpu") /\ Skip(t)
       \/ /\ iv # NoInt /\ Served(t, iv)
          /\ irq' = [irq EXCEPT ![t].pc = "decide", ![t].iv = iv]
  /\ UNCHANGED <<irqOn, slots, inService, vecPending, interlock, due, connected>>

PollDone(t) ==
  /\ At(t, "done")
  /\ interlock' = IF "legacy" \in irqOn THEN 0 ELSE interlock
  /\ NextPump(t)
  /\ UNCHANGED <<irqOn, slots, inService, vecPending, due, connected>>

-----------------------------------------------------------------------------
(* bridge_deliver_isr_ex.                                                   *)

\* bridge_irq_decide: the IRQL is the thread's own, the in-service flag shared.
Decide(t) ==
  /\ At(t, "decide")
  /\ \/ /\ irq[t].level >= VectorIrql(Vec(t))
        /\ vecPending' = IF Tracked(Vec(t)) THEN [vecPending EXCEPT ![Vec(t)] = 1]
                         ELSE vecPending
        /\ Skip(t)
     \/ /\ irq[t].level < VectorIrql(Vec(t))
        /\ IF ~ Tracked(Vec(t)) THEN Goto(t, "isr")
           ELSE IF inService[Vec(t)] = 0 THEN Goto(t, "claim") ELSE Goto(t, "defer")
        /\ UNCHANGED vecPending
  /\ UNCHANGED <<irqOn, slots, inService, interlock, due, connected>>

Defer(t) ==
  /\ At(t, "defer")
  /\ vecPending' = IF "retry" \in irqOn THEN [vecPending EXCEPT ![Vec(t)] = 1] ELSE vecPending
  /\ Skip(t)
  /\ UNCHANGED <<irqOn, slots, inService, interlock, due, connected>>

Claim_TestOnly(t) ==
  /\ At(t, "claim")
  /\ inService' = [inService EXCEPT ![Vec(t)] = 1]
  /\ Goto(t, "isr")
  /\ UNCHANGED <<irqOn, slots, vecPending, interlock, due, connected>>

\* The exchange: another thread may have claimed the vector since.
Claim(t) ==
  /\ At(t, "claim")
  /\ inService' = [inService EXCEPT ![Vec(t)] = 1]
  /\ Goto(t, IF inService[Vec(t)] = 0 THEN "isr" ELSE "defer")
  /\ UNCHANGED <<irqOn, slots, vecPending, interlock, due, connected>>

\* KeInsertQueueDpc from a service routine or a synchronized one.
QueueDpc(t, d) ==
  /\ irq[t].pc \in {"isr", "sync"}
  /\ irq' = [irq EXCEPT ![t].dpc = d]
  /\ UNCHANGED <<irqOn, slots, inService, vecPending, interlock, due, connected>>

Unwind(t) == IF Tracked(Vec(t)) THEN Goto(t, "clear") ELSE Skip(t)

\* bridge_run_isr_ex runs what the routine queued, outside the routine.
IsrReturn(t) ==
  /\ At(t, "isr")
  /\ IF irq[t].dpc # NoDpc THEN Goto(t, "dpc") ELSE Unwind(t)
  /\ UNCHANGED <<irqOn, slots, inService, vecPending, interlock, due, connected>>

DpcReturn(t) ==
  /\ irq[t].pc \in {"dpc", "syncdpc"}
  /\ irq' = [irq EXCEPT ![t] =
       IF At(t, "syncdpc") THEN IdleIrq
       ELSE IF Tracked(Vec(t)) THEN [irq[t] EXCEPT !.pc = "clear", !.dpc = NoDpc]
       ELSE Skipped(t)]
  /\ UNCHANGED <<irqOn, slots, inService, vecPending, interlock, due, connected>>

Clear_KeepsPending(t) ==
  /\ At(t, "clear")
  /\ irq' = [irq EXCEPT ![t].pc = "release", ![t].queued = vecPending[Vec(t)]]
  /\ UNCHANGED <<irqOn, slots, inService, vecPending, interlock, due, connected>>

Clear(t) ==
  /\ At(t, "clear")
  /\ irq' = [irq EXCEPT ![t].pc = "release", ![t].queued = vecPending[Vec(t)]]
  /\ vecPending' = [vecPending EXCEPT ![Vec(t)] = 0]
  /\ UNCHANGED <<irqOn, slots, inService, interlock, due, connected>>

Release_KeepsVector(t) ==
  /\ At(t, "release") /\ Skip(t)
  /\ UNCHANGED <<irqOn, slots, inService, vecPending, interlock, due, connected>>

\* The recursive call is the last thing the routine does: it begins again.
ReleaseVector(t) ==
  /\ At(t, "release")
  /\ inService' = [inService EXCEPT ![Vec(t)] = 0]
  /\ IF irq[t].queued = 1 /\ "retry" \in irqOn THEN irq' = [irq EXCEPT ![t] = [irq[t] EXCEPT !.pc = "decide", !.queued = 0]]
     ELSE Skip(t)
  /\ UNCHANGED <<irqOn, slots, vecPending, interlock, due, connected>>

-----------------------------------------------------------------------------
(* KeSynchronizeExecution: a bounded spin for the interlock, and without it *)
(* if it does not come free.                                                *)

SyncBegin(t) ==
  /\ "sync" \in irqOn /\ At(t, "idle")
  /\ irq' = [irq EXCEPT ![t].pc = "sync", ![t].held = (interlock = 0)]
  /\ interlock' = 1
  /\ UNCHANGED <<irqOn, slots, inService, vecPending, due, connected>>

SyncReturn(t) ==
  /\ At(t, "sync")
  /\ interlock' = IF irq[t].held THEN 0 ELSE interlock
  /\ irq' = [irq EXCEPT ![t] = IF irq[t].dpc # NoDpc
               THEN [irq[t] EXCEPT !.pc = "syncdpc", !.held = FALSE] ELSE IdleIrq]
  /\ UNCHANGED <<irqOn, slots, inService, vecPending, due, connected>>

-----------------------------------------------------------------------------

Deliver(t) ==
  \/ Poll(t) \/ Enter(t) \/ Take(t) \/ Scan(t) \/ PollDone(t)
  \/ Decide(t) \/ Defer(t) \/ Claim(t) \/ IsrReturn(t) \/ DpcReturn(t)
  \/ Clear(t) \/ ReleaseVector(t)

IrqStep(t) ==
  \/ Deliver(t) \/ (\E iv \in Ints : Connect(t, iv)) \/ ConnectTest(t) \/ ConnectStore(t)
  \/ (\E d \in Dpcs : QueueDpc(t, d)) \/ SyncBegin(t) \/ SyncReturn(t)

IrqNext == DeviceDue \/ \E t \in IrqThreads : IrqStep(t)

IrqSpec == IrqInit /\ [][IrqNext]_irqVars

-----------------------------------------------------------------------------

\* Types of the delivery state.
IrqTypeOK ==
  /\ irqOn \in IrqSwitches
  /\ slots \in [Table -> Ints \cup {NoInt}]
  /\ inService \in [Vectors -> {0, 1}]
  /\ vecPending \in [Vectors -> {0, 1}]
  /\ interlock \in {0, 1}
  /\ due \in BOOLEAN
  /\ irq \in [IrqThreads -> IrqRec]
  /\ connected \subseteq Ints

\* Threads between the claim of a vector and its release.
InService(v) ==
  {t \in IrqThreads : irq[t].pc \in {"isr", "dpc", "clear", "release"} /\ Vec(t) = v}

\* A vector's service routine and the DPC it queues run on one thread at a
\* time, and the flag is up exactly while they do: "per-vector non-reentrancy
\* is enforced in bridge_deliver_isr".
ServiceOnce ==
  \A v \in Vectors : Tracked(v) =>
    /\ \A t, u \in InService(v) : t = u
    /\ inService[v] = 1 <=> InService(v) # {}

\* With one thread that connects, KeConnectInterrupt "records every interrupt
\* a title connects" as long as there is room, and the readers, who stop at
\* the first hole, reach every one of them.
ConnectionsKept ==
  \A iv \in connected : Cardinality(Ints) =< MaxInterrupts =>
    \E i \in Table : slots[i] = iv /\ \A j \in 0..i : slots[j] # NoInt

\* The delivery interlock when it is on: the pumps and a synchronized routine
\* that got it exclude each other.
InterlockHolders ==
  {t \in IrqThreads : \/ irq[t].held
                      \/ irq[t].pc \in {"take", "scan", "decide", "defer", "claim", "isr",
                                        "dpc", "clear", "release", "done"}}
InterlockExcludes ==
  "legacy" \in irqOn => \A t, u \in InterlockHolders : t = u

\* From some time on every wait is at PASSIVE_LEVEL.  A thread that waits at a
\* raised IRQL takes the deadline of the device pump, which all threads share,
\* and defers what it finds; and the interlock, when it is on, lets "an audio
\* DPC stop USB interrupts", so the two properties below are for it off.
IrqlDrops == <>[](\A t \in IrqThreads : irq[t].level = Passive)

\* A device interrupt that was connected is served again and again.
ConnectedServed ==
  "legacy" \notin irqOn /\ IrqlDrops => \A iv \in Ints : VectorOf[iv] # GpuVector =>
    [](iv \in connected => <>(\E t \in IrqThreads : At(t, "isr") /\ irq[t].iv = iv))

\* A device vector left pending is taken: "retried within one period once IRQL
\* drops".
PendingRetried ==
  "legacy" \notin irqOn /\ IrqlDrops =>
    \A v \in Vectors \ {GpuVector} : vecPending[v] = 1 ~> vecPending[v] = 0

=============================================================================
