----------------------------- MODULE EventWait -----------------------------
(***************************************************************************)
(* KeSetEvent and KeWaitForSingleObject on dispatcher objects in guest     *)
(* memory, in src/src/kernel/kernel_bridge.c.  A set stores SignalState,   *)
(* bumps the event's set generation and broadcasts a condition; a waiter   *)
(* polls SignalState and the generation, and sleeps on the condition for   *)
(* at most a poll period between two looks.  The generations are in an     *)
(* open-addressed table filled by compare-and-swap.                        *)
(*                                                                         *)
(* Each access to a shared word is one action; what is done under          *)
(* g_evwake_m is one action.  The value KeSetEvent returns, the APCs that  *)
(* end an alertable wait before it begins and the sources a waiter pumps   *)
(* are left out, except that a source may set an event on the waiting      *)
(* thread.                                                                 *)
(***************************************************************************)
EXTENDS Integers, Functions

CONSTANTS
  Threads,
  Events,         \* addresses of dispatcher objects
  NoEvent,        \* the null address
  Notification,   \* the events that stay set until reset; the others are consumed
  GenSlots,       \* EVGEN_SLOTS
  Probe,          \* per event: the slots in the order the table is searched
  Waits,          \* per thread: the events it waits on
  Sets,           \* per thread: the events it sets, between waits
  Pumped,         \* per thread: the events an interrupt sets while it waits
  Clears,         \* per thread: the events whose SignalState it writes 0 to
  Finite,         \* the threads whose waits have a timeout
  MaxSets,        \* bound on the calls that set an event
  MaxWaits,       \* bound on the waits of each thread
  MaxNudges       \* bound on the calls of xbox_bridge_wake_waiters

Slots == 0 .. GenSlots - 1
NoSlot == -1

\* The search visits every slot of the table once.
ASSUME EventAssumption ==
  /\ NoEvent \notin Events
  /\ Notification \subseteq Events
  /\ GenSlots \in Nat \ {0}
  /\ Probe \in [Events -> [Slots -> Slots]]
  /\ \A e \in Events : \A i, j \in Slots : Probe[e][i] = Probe[e][j] => i = j
  /\ Waits \in [Threads -> SUBSET Events] /\ Sets \in [Threads -> SUBSET Events]
  /\ Pumped \in [Threads -> SUBSET Events] /\ Clears \in [Threads -> SUBSET Events]
  /\ Finite \subseteq Threads
  /\ MaxSets \in Nat /\ MaxWaits \in Nat /\ MaxNudges \in Nat

VARIABLES
  signal,   \* per event: SignalState
  va,       \* per slot of the generation table: its event
  gen,      \* per slot: the set generation
  epoch,    \* g_evwake_epoch
  find,     \* per thread: where it is in evgen_slot
  set,      \* per thread: where it is in KeSetEvent
  wait,     \* per thread: where it is in KeWaitForSingleObject
  stores,   \* per event: how often it was set
  takes,    \* per event: how often a waiter consumed it
  waits,    \* per thread: waits so far
  nudges    \* calls of xbox_bridge_wake_waiters so far

counts == <<stores, takes, waits, nudges>>
vars == <<signal, va, gen, epoch, find, set, wait, counts>>

IdleFind == [pc |-> "idle", obj |-> NoEvent, i |-> 0, slot |-> NoSlot]
IdleSet  == [pc |-> "idle", obj |-> NoEvent]
IdleWait == [pc |-> "idle", obj |-> NoEvent, slot |-> NoSlot, gen0 |-> 0,
             seen |-> 0, due |-> FALSE]

Init ==
  /\ signal = [e \in Events |-> 0]
  /\ va = [k \in Slots |-> NoEvent]
  /\ gen = [k \in Slots |-> 0]
  /\ epoch = 0
  /\ find = [t \in Threads |-> IdleFind]
  /\ set = [t \in Threads |-> IdleSet]
  /\ wait = [t \in Threads |-> IdleWait]
  /\ stores = [e \in Events |-> 0]
  /\ takes = [e \in Events |-> 0]
  /\ waits = [t \in Threads |-> 0]
  /\ nudges = 0

-----------------------------------------------------------------------------
(* evgen_slot(va, 1): the event's slot, claimed if it has none.            *)

FindGoto(t, pc, e, i, k) ==
  find' = [find EXCEPT ![t] = [pc |-> pc, obj |-> e, i |-> i, slot |-> k]]

FindStart(t, e) == FindGoto(t, "load", e, 0, NoSlot)

FindEnd(t, k) == FindGoto(t, "done", find[t].obj, find[t].i, k)

\* Fault: one slot too many is tried.
FindNext_PastEnd(t) ==
  IF find[t].i < GenSlots
  THEN FindGoto(t, "load", find[t].obj, find[t].i + 1, NoSlot)
  ELSE FindEnd(t, NoSlot)

\* The next slot, or the overflow.
FindNext(t) ==
  IF find[t].i + 1 < GenSlots
  THEN FindGoto(t, "load", find[t].obj, find[t].i + 1, NoSlot)
  ELSE FindEnd(t, NoSlot)

AtFind(t, pc) == find[t].pc = pc

ProbeSlot(t) == Probe[find[t].obj][find[t].i]

FindLoad(t) ==
  /\ AtFind(t, "load")
  /\ LET cur == va[ProbeSlot(t)]
     IN  \/ cur = find[t].obj /\ FindEnd(t, ProbeSlot(t))
         \/ cur = NoEvent /\ FindGoto(t, "cas", find[t].obj, find[t].i, NoSlot)
         \/ cur \notin {find[t].obj, NoEvent} /\ FindNext(t)
  /\ UNCHANGED <<signal, va, gen, epoch, set, wait, counts>>

FindCas(t) ==
  /\ AtFind(t, "cas")
  /\ IF va[ProbeSlot(t)] = NoEvent
     THEN va' = [va EXCEPT ![ProbeSlot(t)] = find[t].obj] /\ FindEnd(t, ProbeSlot(t))
     ELSE FindGoto(t, "again", find[t].obj, find[t].i, NoSlot) /\ UNCHANGED va
  /\ UNCHANGED <<signal, gen, epoch, set, wait, counts>>

\* Fault: a lost exchange goes on to the next slot without looking who won.
FindAgain_Skips(t) ==
  /\ AtFind(t, "again")
  /\ FindNext(t)
  /\ UNCHANGED <<signal, va, gen, epoch, set, wait, counts>>

\* The exchange was lost: perhaps to a thread that wants the same event.
FindAgain(t) ==
  /\ AtFind(t, "again")
  /\ IF va[ProbeSlot(t)] = find[t].obj THEN FindEnd(t, ProbeSlot(t)) ELSE FindNext(t)
  /\ UNCHANGED <<signal, va, gen, epoch, set, wait, counts>>

-----------------------------------------------------------------------------
(* KeSetEvent.                                                             *)

TotalSets == FoldFunction(+, 0, stores)

\* A guest thread sets an event between its waits, or an interrupt that its wait
\* pumps does.
SetStore(t, e) ==
  /\ set[t].pc = "idle" /\ find[t].pc = "idle"
  /\ \/ wait[t].pc = "idle" /\ e \in Sets[t]
     \/ wait[t].pc = "pump" /\ e \in Pumped[t]
  /\ TotalSets < MaxSets
  /\ signal' = [signal EXCEPT ![e] = 1]
  /\ stores' = [stores EXCEPT ![e] = @ + 1]
  /\ set' = [set EXCEPT ![t] = [pc |-> "find", obj |-> e]]
  /\ FindStart(t, e)
  /\ UNCHANGED <<va, gen, epoch, wait, takes, waits, nudges>>

\* With the table full there is no generation to bump.
SetBump(t) ==
  /\ set[t].pc = "find" /\ AtFind(t, "done")
  /\ gen' = [k \in Slots |-> IF k = find[t].slot THEN gen[k] + 1 ELSE gen[k]]
  /\ find' = [find EXCEPT ![t] = IdleFind]
  /\ set' = [set EXCEPT ![t].pc = "wake"]
  /\ UNCHANGED <<signal, va, epoch, wait, counts>>

\* evwake_broadcast.
Broadcast ==
  /\ epoch' = epoch + 1
  /\ wait' = [t \in Threads |->
       IF wait[t].pc = "sleep" THEN [wait[t] EXCEPT !.pc = "epoch"] ELSE wait[t]]

SetWake(t) ==
  /\ set[t].pc = "wake"
  /\ Broadcast
  /\ set' = [set EXCEPT ![t] = IdleSet]
  /\ UNCHANGED <<signal, va, gen, find, counts>>

\* xbox_bridge_wake_waiters, called from the pusher's thread.
Nudge ==
  /\ nudges < MaxNudges
  /\ nudges' = nudges + 1
  /\ Broadcast
  /\ UNCHANGED <<signal, va, gen, find, set, stores, takes, waits>>

\* The guest writes 0 to SignalState, as D3D does before it waits.
GuestClear(t, e) ==
  /\ wait[t].pc = "idle" /\ set[t].pc = "idle"
  /\ e \in Clears[t]
  /\ signal' = [signal EXCEPT ![e] = 0]
  /\ UNCHANGED <<va, gen, epoch, find, set, wait, counts>>

-----------------------------------------------------------------------------
(* KeWaitForSingleObject.                                                  *)

AtWait(t, pc) == wait[t].pc = pc

WaitGoto(t, pc) == wait' = [wait EXCEPT ![t].pc = pc]

\* The event was set since the wait read its generation.
Moved(t) == wait[t].slot # NoSlot /\ gen[wait[t].slot] # wait[t].gen0

WaitBegin(t, e) ==
  /\ AtWait(t, "idle") /\ set[t].pc = "idle"
  /\ e \in Waits[t]
  /\ waits[t] < MaxWaits
  /\ waits' = [waits EXCEPT ![t] = @ + 1]
  /\ wait' = [wait EXCEPT ![t] = [IdleWait EXCEPT
       !.pc = IF e \in Notification THEN "find" ELSE "epoch",
       !.obj = e]]
  /\ IF e \in Notification THEN FindStart(t, e) ELSE UNCHANGED find
  /\ UNCHANGED <<signal, va, gen, epoch, set, stores, takes, nudges>>

WaitGen0(t) ==
  /\ AtWait(t, "find") /\ AtFind(t, "done")
  /\ wait' = [wait EXCEPT
       ![t].pc = "epoch",
       ![t].slot = find[t].slot,
       ![t].gen0 = IF find[t].slot = NoSlot THEN 0 ELSE gen[find[t].slot]]
  /\ find' = [find EXCEPT ![t] = IdleFind]
  /\ UNCHANGED <<signal, va, gen, epoch, set, counts>>

\* Fault: the generation is loaded again on every pass.
WaitEpoch_ReloadsGen(t) ==
  /\ AtWait(t, "epoch")
  /\ wait' = [wait EXCEPT
       ![t].pc = "look", ![t].seen = epoch, ![t].due = Moved(t),
       ![t].gen0 = IF wait[t].slot = NoSlot THEN 0 ELSE gen[wait[t].slot]]
  /\ UNCHANGED <<signal, va, gen, epoch, find, set, counts>>

\* `due' says whether the event had been set before this look.
WaitEpoch(t) ==
  /\ AtWait(t, "epoch")
  /\ wait' = [wait EXCEPT ![t].pc = "look", ![t].seen = epoch, ![t].due = Moved(t)]
  /\ UNCHANGED <<signal, va, gen, epoch, find, set, counts>>

WaitLook(t) ==
  /\ AtWait(t, "look")
  /\ WaitGoto(t, IF signal[wait[t].obj] = 0 /\ wait[t].slot # NoSlot THEN "gen" ELSE "signal")
  /\ UNCHANGED <<signal, va, gen, epoch, find, set, counts>>

WaitGen(t) ==
  /\ AtWait(t, "gen")
  /\ WaitGoto(t, IF Moved(t) THEN "rescued" ELSE "signal")
  /\ UNCHANGED <<signal, va, gen, epoch, find, set, counts>>

WaitSignal(t) ==
  /\ AtWait(t, "signal")
  /\ WaitGoto(t, IF signal[wait[t].obj] = 0 THEN "time"
                 ELSE IF wait[t].obj \in Notification THEN "done" ELSE "consume")
  /\ UNCHANGED <<signal, va, gen, epoch, find, set, counts>>

WaitConsume(t) ==
  /\ AtWait(t, "consume")
  /\ signal' = [signal EXCEPT ![wait[t].obj] = 0]
  /\ takes' = [takes EXCEPT ![wait[t].obj] = @ + 1]
  /\ WaitGoto(t, "done")
  /\ UNCHANGED <<va, gen, epoch, find, set, stores, waits, nudges>>

\* A wait with a timeout may find its deadline passed.
WaitTime(t) ==
  /\ AtWait(t, "time")
  /\ \/ WaitGoto(t, "pump")
     \/ t \in Finite /\ WaitGoto(t, "timeout")
  /\ UNCHANGED <<signal, va, gen, epoch, find, set, counts>>

\* Fault: sleeps without comparing the epoch with the one seen.
WaitSleep_Blind(t) ==
  /\ AtWait(t, "pump") /\ set[t].pc = "idle"
  /\ WaitGoto(t, "sleep")
  /\ UNCHANGED <<signal, va, gen, epoch, find, set, counts>>

\* evwake_wait: sleep unless something was set since the epoch was read.
WaitSleep(t) ==
  /\ AtWait(t, "pump") /\ set[t].pc = "idle"
  /\ WaitGoto(t, IF epoch = wait[t].seen THEN "sleep" ELSE "epoch")
  /\ UNCHANGED <<signal, va, gen, epoch, find, set, counts>>

\* The poll period is over.
WaitPoll(t) ==
  /\ AtWait(t, "sleep")
  /\ WaitGoto(t, "epoch")
  /\ UNCHANGED <<signal, va, gen, epoch, find, set, counts>>

WaitReturn(t) ==
  /\ wait[t].pc \in {"done", "rescued", "timeout"}
  /\ wait' = [wait EXCEPT ![t] = IdleWait]
  /\ UNCHANGED <<signal, va, gen, epoch, find, set, counts>>

-----------------------------------------------------------------------------
Step(t) ==
  \/ FindLoad(t) \/ FindCas(t) \/ FindAgain(t)
  \/ SetBump(t) \/ SetWake(t)
  \/ WaitGen0(t) \/ WaitEpoch(t) \/ WaitLook(t) \/ WaitGen(t) \/ WaitSignal(t)
  \/ WaitConsume(t) \/ WaitTime(t) \/ WaitSleep(t) \/ WaitPoll(t) \/ WaitReturn(t)

Next ==
  \/ Nudge
  \/ \E t \in Threads : Step(t)
  \/ \E t \in Threads, e \in Events : SetStore(t, e) \/ GuestClear(t, e) \/ WaitBegin(t, e)

Spec == Init /\ [][Next]_vars

\* No thread stops inside a call; the condition wait ends by its own timeout.
FairSpec == Spec /\ \A t \in Threads : WF_vars(Step(t))

-----------------------------------------------------------------------------
(* Properties.                                                             *)

FindRec == [pc : {"idle", "load", "cas", "again", "done"}, obj : Events \cup {NoEvent},
            i : Slots, slot : Slots \cup {NoSlot}]
WaitRec == [pc : {"idle", "find", "epoch", "look", "gen", "signal", "time",
                  "consume", "pump", "sleep", "done", "rescued", "timeout"},
            obj : Events \cup {NoEvent}, slot : Slots \cup {NoSlot},
            gen0 : Nat, seen : Nat, due : BOOLEAN]

TypeOK ==
  /\ signal \in [Events -> {0, 1}]
  /\ va \in [Slots -> Events \cup {NoEvent}]
  /\ gen \in [Slots -> Nat]
  /\ epoch \in Nat
  /\ find \in [Threads -> FindRec]
  /\ set \in [Threads -> [pc : {"idle", "find", "wake"}, obj : Events \cup {NoEvent}]]
  /\ wait \in [Threads -> WaitRec]
  /\ stores \in [Events -> Nat] /\ takes \in [Events -> Nat]
  /\ waits \in [Threads -> Nat] /\ nudges \in Nat

\* "two events never share a counter" nor does an event have two: a set bumps
\* the counter that every waiter on the event compares.
OneCounter ==
  \A j, k \in Slots : va[j] # NoEvent /\ va[j] = va[k] => j = k

\* A waiter does not sleep on an event that is signalled: the thread that set it
\* has yet to broadcast.  evwake_wait sleeps "until any event is set after `seen'
\* was read".
NoSetSleptThrough ==
  \A t \in Threads :
    AtWait(t, "sleep") /\ signal[wait[t].obj] = 1 =>
      \E u \in Threads : set[u].pc # "idle" /\ set[u].obj = wait[t].obj

\* Setting a notification event ends every wait on it, "whatever happens to the
\* state after": other threads clear it, and do so before the waiter looks.
NotificationArrives ==
  \A t \in Threads :
    (wait[t].pc \notin {"idle", "find"} /\ Moved(t)) ~> wait[t].pc = "idle"

\* "a synchronization event is consumed by one waiter".
ConsumedByOne ==
  \A e \in Events : takes[e] <= stores[e]

\* "A waiter on a notification event is satisfied if it moved during the wait,
\* even when the state was cleared since": a wait does not time out in a look that
\* began with the generation moved.
SatisfiedIfMoved ==
  \A t \in Threads : AtWait(t, "timeout") => ~wait[t].due

=============================================================================
