-------------------------- MODULE EventWait_proof --------------------------
(***************************************************************************)
(* That evgen_slot gives an event one counter, and that nobody sleeps      *)
(* through a set: for any threads and events, any size of the table and    *)
(* any order of the search.                                                *)
(***************************************************************************)
EXTENDS EventWait, TLAPS

Taken(k) == va[k] # NoEvent

\* The slots an event's search visits before the i-th hold other events.
PassedIn(table, e, i) ==
  \A j \in Slots : j < i => table[Probe[e][j]] \notin {NoEvent, e}

PassedOver(e, i) == PassedIn(va, e, i)

\* What holds of a search under way.
Searching ==
  \A t \in Threads : find[t].pc \in {"load", "cas", "again"} =>
    find[t].obj \in Events /\ PassedOver(find[t].obj, find[t].i)

\* An exchange is lost to an event that stays.
LostToOther ==
  \A t \in Threads : AtFind(t, "again") => Taken(ProbeSlot(t))

\* An event was put in the first slot its search found empty.
FirstEmpty ==
  \A k \in Slots : Taken(k) =>
    \E i \in Slots : Probe[va[k]][i] = k /\ PassedOver(va[k], i)

IInv ==
  /\ va \in [Slots -> Events \cup {NoEvent}]
  /\ find \in [Threads -> FindRec]
  /\ Searching
  /\ LostToOther
  /\ FirstEmpty

-----------------------------------------------------------------------------
LEMMA ProbeInSlots == ASSUME NEW e \in Events, NEW i \in Slots PROVE Probe[e][i] \in Slots
BY EventAssumption

\* No slot changes hands, and no search but an idle one starts.
LEMMA InitInv == Init => IInv
BY EventAssumption DEF Init, IInv, IdleFind, FindRec, Slots, NoSlot, Searching,
   LostToOther, FirstEmpty, Taken, AtFind

\* What a slot holds stays there, so what was passed over still is.
LEMMA StillPassedOver ==
  ASSUME NEW e \in Events, NEW i \in Slots, NEW old, NEW new, PassedIn(old, e, i),
         \A k \in Slots : old[k] # NoEvent => new[k] = old[k]
  PROVE  PassedIn(new, e, i)
BY ProbeInSlots DEF PassedIn

\* A step of a search that leaves the table alone: the thread's new place is
\* one from which the search may go on.
LEMMA SearchMoves ==
  ASSUME IInv, UNCHANGED va, NEW t \in Threads, NEW r \in FindRec,
         find' = [find EXCEPT ![t] = r],
         r.pc \in {"load", "cas", "again"} => r.obj \in Events /\ PassedOver(r.obj, r.i),
         r.pc = "again" => Taken(Probe[r.obj][r.i])
  PROVE  IInv'
BY DEF IInv, Searching, LostToOther, FirstEmpty, PassedOver, PassedIn, Taken, AtFind, ProbeSlot

\* The search has looked in one more slot, and another event is there.
LEMMA NextMoves ==
  ASSUME IInv, UNCHANGED va, NEW t \in Threads, FindNext(t),
         find[t].pc \in {"load", "again"},
         va[ProbeSlot(t)] \notin {find[t].obj, NoEvent}
  PROVE  IInv'
<1>0. find[t] \in FindRec /\ find[t].obj \in Events /\ PassedOver(find[t].obj, find[t].i)
  BY DEF IInv, Searching
<1>1. CASE find[t].i + 1 < GenSlots
  <2> DEFINE r == [pc |-> "load", obj |-> find[t].obj, i |-> find[t].i + 1, slot |-> NoSlot]
  <2>0. find[t].i \in Nat /\ find[t].i + 1 \in Slots
    <3>1. find[t].i \in Slots
      BY <1>0 DEF FindRec
    <3>2. \A n \in Slots : n \in Nat /\ (n + 1 < GenSlots => n + 1 \in Slots)
      BY EventAssumption DEF Slots
    <3> QED
      BY <3>1, <3>2, <1>1
  <2>1. r \in FindRec
    BY <1>0, <2>0 DEF FindRec
  <2>2. PassedOver(find[t].obj, find[t].i + 1)
    <3>1. ASSUME NEW j \in Slots, j < find[t].i + 1
          PROVE  va[Probe[find[t].obj][j]] \notin {NoEvent, find[t].obj}
      <4>1. CASE j = find[t].i
        BY <4>1 DEF ProbeSlot
      <4>2. CASE j < find[t].i
        BY <4>2, <1>0 DEF PassedOver, PassedIn
      <4> QED
        BY <4>1, <4>2, <3>1, <2>0, EventAssumption DEF Slots
    <3> QED
      BY <3>1 DEF PassedOver, PassedIn
  <2>3. find' = [find EXCEPT ![t] = r]
    BY <1>1 DEF FindNext, FindGoto
  <2> QED
    BY <1>0, <2>1, <2>2, <2>3, SearchMoves
<1>2. CASE ~(find[t].i + 1 < GenSlots)
  <2> DEFINE r == [pc |-> "done", obj |-> find[t].obj, i |-> find[t].i, slot |-> NoSlot]
  <2>1. r \in FindRec
    BY <1>0 DEF FindRec
  <2>2. find' = [find EXCEPT ![t] = r]
    BY <1>2 DEF FindNext, FindEnd, FindGoto
  <2> QED
    BY <2>1, <2>2, SearchMoves
<1> QED
  BY <1>1, <1>2

\* A search that wins the exchange gives its event the first empty slot.
LEMMA ClaimMoves ==
  ASSUME IInv, NEW t \in Threads, AtFind(t, "cas"), va[ProbeSlot(t)] = NoEvent,
         va' = [va EXCEPT ![ProbeSlot(t)] = find[t].obj], FindEnd(t, ProbeSlot(t))
  PROVE  IInv'
<1> DEFINE e == find[t].obj
           p == ProbeSlot(t)
           r == [pc |-> "done", obj |-> e, i |-> find[t].i, slot |-> p]
<1>1. find[t] \in FindRec /\ e \in Events /\ PassedOver(e, find[t].i)
  BY DEF IInv, Searching, AtFind
<1>2. p \in Slots /\ find[t].i \in Slots /\ r \in FindRec
  BY <1>1, ProbeInSlots DEF FindRec, ProbeSlot
<1>3. va' \in [Slots -> Events \cup {NoEvent}]
  BY <1>1, <1>2 DEF IInv
<1>4. find' = [find EXCEPT ![t] = r] /\ find' \in [Threads -> FindRec]
  BY <1>2 DEF IInv, FindEnd, FindGoto
<1>5. \A k \in Slots : Taken(k) => va'[k] = va[k]
  BY <1>2 DEF Taken, IInv
<1>6. Searching'
  <2> SUFFICES ASSUME NEW u \in Threads, find'[u].pc \in {"load", "cas", "again"}
               PROVE  find'[u].obj \in Events /\ PassedIn(va', find'[u].obj, find'[u].i)
    BY DEF Searching, PassedOver
  <2>1. u # t /\ find'[u] = find[u]
    BY <1>4 DEF IInv
  <2>2. find[u].obj \in Events /\ find[u].i \in Slots /\ PassedOver(find[u].obj, find[u].i)
    BY <2>1 DEF IInv, Searching, FindRec
  <2>3. PassedIn(va', find[u].obj, find[u].i)
    BY <2>2, <1>5, StillPassedOver DEF PassedOver, Taken
  <2> QED
    BY <2>1, <2>2, <2>3 DEF PassedOver, PassedIn
<1>7. LostToOther'
  <2> SUFFICES ASSUME NEW u \in Threads, AtFind(u, "again")'
               PROVE  Taken(ProbeSlot(u))'
    BY DEF LostToOther
  <2>1. u # t /\ find'[u] = find[u]
    BY <1>4 DEF IInv, AtFind
  <2>2. Taken(ProbeSlot(u)) /\ ProbeSlot(u) \in Slots /\ ProbeSlot(u)' = ProbeSlot(u)
    BY <2>1, ProbeInSlots DEF IInv, LostToOther, Searching, FindRec, AtFind, ProbeSlot
  <2> QED
    BY <2>2, <1>5 DEF Taken
<1>8. FirstEmpty'
  <2> SUFFICES ASSUME NEW k \in Slots, Taken(k)'
               PROVE  \E i \in Slots : Probe[va'[k]][i] = k /\ PassedIn(va', va'[k], i)
    BY DEF FirstEmpty, PassedOver, PassedIn
  <2>1. CASE k = p
    <3>1. va'[k] = e /\ Probe[e][find[t].i] = k
      BY <2>1, <1>2 DEF IInv, ProbeSlot
    <3>2. PassedIn(va', e, find[t].i)
      BY <1>1, <1>2, <1>5, StillPassedOver DEF PassedOver, Taken
    <3> QED
      BY <3>1, <3>2, <1>2 DEF PassedOver, PassedIn
  <2>2. CASE k # p
    <3>1. va'[k] = va[k] /\ Taken(k) /\ va[k] \in Events
      BY <2>2, <1>2 DEF IInv, Taken
    <3>2. PICK i \in Slots : Probe[va[k]][i] = k /\ PassedOver(va[k], i)
      BY <3>1 DEF IInv, FirstEmpty
    <3>3. PassedIn(va', va[k], i)
      BY <3>1, <3>2, <1>5, StillPassedOver DEF PassedOver, Taken
    <3> QED
      BY <3>1, <3>2, <3>3 DEF PassedOver, PassedIn
  <2> QED
    BY <2>1, <2>2
<1> QED
  BY <1>3, <1>4, <1>6, <1>7, <1>8 DEF IInv

\* Steps outside a search leave both variables alone, start a search or end one.
LEMMA OutsideSearch ==
  ASSUME IInv, UNCHANGED <<va, find>>
  PROVE  IInv'
BY DEF IInv, Searching, LostToOther, FirstEmpty, PassedOver, PassedIn, Taken, AtFind, ProbeSlot

LEMMA StartMoves ==
  ASSUME IInv, UNCHANGED va, NEW t \in Threads, NEW e \in Events, FindStart(t, e)
  PROVE  IInv'
<1> DEFINE r == [pc |-> "load", obj |-> e, i |-> 0, slot |-> NoSlot]
<1>1. r \in FindRec
  BY EventAssumption DEF FindRec, Slots
<1>2. PassedOver(e, 0)
  BY EventAssumption DEF PassedOver, PassedIn, Slots
<1>3. find' = [find EXCEPT ![t] = r]
  BY DEF FindStart, FindGoto
<1> QED
  BY <1>1, <1>2, <1>3, SearchMoves

LEMMA EndMoves ==
  ASSUME IInv, UNCHANGED va, NEW t \in Threads, find' = [find EXCEPT ![t] = IdleFind]
  PROVE  IInv'
<1>1. IdleFind \in FindRec /\ IdleFind.pc = "idle"
  BY EventAssumption DEF FindRec, IdleFind, Slots
<1> QED
  BY <1>1, SearchMoves

-----------------------------------------------------------------------------
LEMMA NextInv == IInv /\ [Next]_vars => IInv'
<1> SUFFICES ASSUME IInv, [Next]_vars PROVE IInv'
  OBVIOUS
<1>1. ASSUME NEW t \in Threads, FindLoad(t) PROVE IInv'
  <2> DEFINE e == find[t].obj
             i == find[t].i
             k == ProbeSlot(t)
  <2>0. /\ find[t] \in FindRec /\ e \in Events /\ i \in Slots /\ k \in Slots
        /\ PassedOver(e, i) /\ UNCHANGED va
    BY <1>1, ProbeInSlots DEF FindLoad, AtFind, IInv, Searching, FindRec, ProbeSlot
  <2>1. CASE va[k] = e /\ FindEnd(t, k)
    <3> DEFINE r == [pc |-> "done", obj |-> e, i |-> i, slot |-> k]
    <3>1. r \in FindRec /\ find' = [find EXCEPT ![t] = r]
      BY <2>0, <2>1 DEF FindRec, FindEnd, FindGoto
    <3> QED
      BY <2>0, <3>1, SearchMoves
  <2>2. CASE FindGoto(t, "cas", e, i, NoSlot)
    <3> DEFINE r == [pc |-> "cas", obj |-> e, i |-> i, slot |-> NoSlot]
    <3>1. r \in FindRec /\ find' = [find EXCEPT ![t] = r]
      BY <2>0, <2>2 DEF FindRec, FindGoto
    <3> QED
      BY <2>0, <3>1, SearchMoves
  <2>3. CASE va[k] \notin {e, NoEvent} /\ FindNext(t)
    BY <2>0, <2>3, <1>1, NextMoves DEF FindLoad, AtFind
  <2> QED
    BY <1>1, <2>1, <2>2, <2>3 DEF FindLoad
<1>2. ASSUME NEW t \in Threads, FindCas(t) PROVE IInv'
  <2>1. CASE va[ProbeSlot(t)] = NoEvent
    BY <1>2, <2>1, ClaimMoves DEF FindCas
  <2>2. CASE va[ProbeSlot(t)] # NoEvent
    <3> DEFINE r == [pc |-> "again", obj |-> find[t].obj, i |-> find[t].i, slot |-> NoSlot]
    <3>1. find[t] \in FindRec /\ find[t].obj \in Events /\ PassedOver(find[t].obj, find[t].i)
      BY <1>2 DEF FindCas, AtFind, IInv, Searching
    <3>2. r \in FindRec /\ Taken(Probe[r.obj][r.i])
      BY <3>1, <2>2 DEF FindRec, Taken, ProbeSlot
    <3>3. find' = [find EXCEPT ![t] = r] /\ UNCHANGED va
      BY <1>2, <2>2 DEF FindCas, FindGoto
    <3> QED
      BY <3>1, <3>2, <3>3, SearchMoves
  <2> QED
    BY <2>1, <2>2
<1>3. ASSUME NEW t \in Threads, FindAgain(t) PROVE IInv'
  <2> DEFINE r == [pc |-> "done", obj |-> find[t].obj, i |-> find[t].i, slot |-> ProbeSlot(t)]
  <2>1. /\ find[t] \in FindRec /\ find[t].obj \in Events /\ UNCHANGED va
        /\ Taken(ProbeSlot(t)) /\ ProbeSlot(t) \in Slots
    BY <1>3, ProbeInSlots
    DEF FindAgain, AtFind, IInv, Searching, LostToOther, FindRec, ProbeSlot
  <2>2. CASE va[ProbeSlot(t)] = find[t].obj
    <3>1. r \in FindRec /\ find' = [find EXCEPT ![t] = r]
      BY <1>3, <2>1, <2>2 DEF FindAgain, FindEnd, FindGoto, FindRec
    <3> QED
      BY <2>1, <3>1, SearchMoves
  <2>3. CASE va[ProbeSlot(t)] # find[t].obj
    BY <1>3, <2>1, <2>3, NextMoves DEF FindAgain, AtFind, Taken
  <2> QED
    BY <2>2, <2>3
<1>4. ASSUME NEW t \in Threads, NEW e \in Events,
             SetStore(t, e) \/ GuestClear(t, e) \/ WaitBegin(t, e)
      PROVE  IInv'
  BY <1>4, StartMoves, OutsideSearch DEF SetStore, GuestClear, WaitBegin
<1>5. ASSUME NEW t \in Threads, SetBump(t) \/ WaitGen0(t) PROVE IInv'
  BY <1>5, EndMoves DEF SetBump, WaitGen0
<1>6. ASSUME NEW t \in Threads,
             SetWake(t) \/ WaitEpoch(t) \/ WaitLook(t) \/ WaitGen(t) \/ WaitSignal(t)
               \/ WaitConsume(t) \/ WaitTime(t) \/ WaitSleep(t) \/ WaitPoll(t) \/ WaitReturn(t)
      PROVE  IInv'
  BY <1>6, OutsideSearch DEF SetWake, WaitEpoch, WaitLook, WaitGen, WaitSignal,
     WaitConsume, WaitTime, WaitSleep, WaitPoll, WaitReturn
<1>7. CASE Nudge
  BY <1>7, OutsideSearch DEF Nudge
<1>8. CASE UNCHANGED vars
  BY <1>8, OutsideSearch DEF vars
<1> QED
  BY <1>1, <1>2, <1>3, <1>4, <1>5, <1>6, <1>7, <1>8 DEF Next, Step

\* The strengthening of OneCounter that a step preserves.
THEOREM Invariance == Spec => []IInv
BY InitInv, NextInv, PTL DEF Spec

LEMMA InvOneCounter == IInv => OneCounter
<1> SUFFICES ASSUME IInv, NEW j \in Slots, NEW k \in Slots, va[j] # NoEvent, va[j] = va[k]
             PROVE  j = k
  BY DEF OneCounter
<1>1. PICK i1 \in Slots : Probe[va[j]][i1] = j /\ PassedOver(va[j], i1)
  BY DEF IInv, FirstEmpty, Taken
<1>2. PICK i2 \in Slots : Probe[va[j]][i2] = k /\ PassedOver(va[j], i2)
  BY DEF IInv, FirstEmpty, Taken
<1>3. ~(i1 < i2) /\ ~(i2 < i1)
  BY <1>1, <1>2 DEF PassedOver, PassedIn
<1>4. i1 = i2
  BY <1>3, EventAssumption DEF Slots
<1> QED
  BY <1>1, <1>2, <1>4

\* evgen_slot never gives one event two counters, however its searches for it
\* interleave: a set bumps the counter that every waiter on the event compares.
THEOREM OneCounterPerEvent == Spec => []OneCounter
BY Invariance, InvOneCounter, PTL

-----------------------------------------------------------------------------
(* No set is slept through.                                                *)

\* A set of the event has stored and has yet to broadcast.
SetUnderWay(e) == \E u \in Threads : set[u].pc # "idle" /\ set[u].obj = e

\* A wait that found its event clear and would sleep now, or sleeps.
Watching(t) ==
  \/ AtWait(t, "sleep")
  \/ wait[t].pc \in {"time", "pump"} /\ wait[t].seen = epoch

\* What is signalled under such a wait is about to be broadcast.
Vigil ==
  \A t \in Threads :
    Watching(t) /\ signal[wait[t].obj] = 1 => SetUnderWay(wait[t].obj)

\* A wait is for an event, and the epoch it saw is not ahead.
WaitsAre ==
  \A t \in Threads :
    /\ wait[t].pc # "idle" => wait[t].obj \in Events
    /\ wait[t].seen =< epoch

SleepInv == TypeOK /\ WaitsAre /\ Vigil

\* Types of the initial state, and of a thread's places.
LEMMA IdleTyped ==
  /\ IdleFind \in FindRec
  /\ IdleWait.pc = "idle" /\ IdleWait.seen = 0
BY EventAssumption DEF IdleFind, IdleWait, FindRec, Slots, NoSlot

LEMMA InitSleep == Init => SleepInv
<1> SUFFICES ASSUME Init PROVE SleepInv
  OBVIOUS
<1>1. TypeOK
  BY EventAssumption, IdleTyped DEF Init, TypeOK, IdleSet, IdleWait, WaitRec, NoSlot
<1>2. WaitsAre /\ Vigil
  BY DEF Init, WaitsAre, Vigil, Watching, AtWait, IdleWait
<1> QED
  BY <1>1, <1>2 DEF SleepInv

LEMMA FindMoves ==
  ASSUME TypeOK, NEW t \in Threads, NEW pc \in {"idle", "load", "cas", "again", "done"},
         NEW e \in Events \cup {NoEvent}, NEW i \in Slots, NEW k \in Slots \cup {NoSlot},
         FindGoto(t, pc, e, i, k)
  PROVE  find' \in [Threads -> FindRec]
<1>1. [pc |-> pc, obj |-> e, i |-> i, slot |-> k] \in FindRec
  BY DEF FindRec
<1> QED
  BY <1>1 DEF TypeOK, FindGoto

\* A search looks only at slots of the table.
LEMMA NextTyped ==
  ASSUME TypeOK, NEW t \in Threads, FindNext(t)
  PROVE  find' \in [Threads -> FindRec]
<1>1. find[t].obj \in Events \cup {NoEvent} /\ find[t].i \in Slots
  BY DEF TypeOK, FindRec
<1>2. find[t].i + 1 < GenSlots => find[t].i + 1 \in Slots
  BY <1>1, EventAssumption DEF Slots
<1> QED
  BY <1>1, <1>2, FindMoves DEF FindNext, FindEnd

\* What stays as it is in a step keeps its type.
LEMMA SearchTyped ==
  ASSUME IInv, TypeOK, NEW t \in Threads, FindLoad(t) \/ FindCas(t) \/ FindAgain(t)
  PROVE  TypeOK'
<1>1. /\ find[t].obj \in Events /\ find[t].i \in Slots /\ ProbeSlot(t) \in Slots
  BY ProbeInSlots DEF FindLoad, FindCas, FindAgain, AtFind, IInv, Searching, FindRec, ProbeSlot
<1>2. find' \in [Threads -> FindRec]
  BY <1>1, FindMoves, NextTyped DEF FindLoad, FindCas, FindAgain, FindEnd
<1>3. va' \in [Slots -> Events \cup {NoEvent}]
  BY <1>1 DEF FindLoad, FindCas, FindAgain, TypeOK
<1> QED
  BY <1>2, <1>3 DEF FindLoad, FindCas, FindAgain, TypeOK, counts

LEMMA SetTyped ==
  ASSUME TypeOK, NEW t \in Threads, NEW e \in Events,
         SetStore(t, e) \/ GuestClear(t, e) \/ WaitBegin(t, e)
  PROVE  TypeOK'
<1>1. 0 \in Slots
  BY EventAssumption DEF Slots
<1>2. CASE SetStore(t, e)
  <2>1. find' \in [Threads -> FindRec]
    BY <1>1, <1>2, FindMoves DEF SetStore, FindStart
  <2>2. signal' \in [Events -> {0, 1}] /\ stores' \in [Events -> Nat]
    BY <1>2 DEF SetStore, TypeOK
  <2>3. set' \in [Threads -> [pc : {"idle", "find", "wake"}, obj : Events \cup {NoEvent}]]
    BY <1>2 DEF SetStore, TypeOK
  <2> QED
    BY <1>2, <2>1, <2>2, <2>3 DEF SetStore, TypeOK
<1>3. CASE GuestClear(t, e)
  BY <1>3 DEF GuestClear, TypeOK, counts
<1>4. CASE WaitBegin(t, e)
  <2>1. find' \in [Threads -> FindRec]
    BY <1>1, <1>4, FindMoves DEF WaitBegin, FindStart, TypeOK
  <2>2. [IdleWait EXCEPT !.pc = IF e \in Notification THEN "find" ELSE "epoch", !.obj = e] \in WaitRec
    BY DEF IdleWait, WaitRec, NoSlot
  <2>3. wait' \in [Threads -> WaitRec]
    BY <1>4, <2>2 DEF WaitBegin, TypeOK
  <2>4. waits' \in [Threads -> Nat]
    BY <1>4 DEF WaitBegin, TypeOK
  <2> QED
    BY <1>4, <2>1, <2>3, <2>4 DEF WaitBegin, TypeOK
<1> QED
  BY <1>2, <1>3, <1>4

LEMMA WakeTyped ==
  ASSUME TypeOK, Broadcast
  PROVE  epoch' \in Nat /\ wait' \in [Threads -> WaitRec]
<1>1. ASSUME NEW u \in Threads PROVE [wait[u] EXCEPT !.pc = "epoch"] \in WaitRec
  BY DEF TypeOK, WaitRec
<1>2. \A u \in Threads : wait[u] \in WaitRec
  BY DEF TypeOK
<1> QED
  BY <1>1, <1>2 DEF TypeOK, Broadcast

LEMMA WaitGoes ==
  ASSUME TypeOK, NEW t \in Threads,
         NEW pc \in {"idle", "find", "epoch", "look", "gen", "signal", "time",
                     "consume", "pump", "sleep", "done", "rescued", "timeout"},
         WaitGoto(t, pc)
  PROVE  wait' \in [Threads -> WaitRec]
<1>0. wait[t] \in WaitRec
  BY DEF TypeOK
<1>1. [wait[t] EXCEPT !.pc = pc] \in WaitRec
  BY <1>0 DEF WaitRec
<1> QED
  BY <1>1 DEF TypeOK, WaitGoto

LEMMA StepTyped ==
  ASSUME TypeOK, NEW t \in Threads,
         \/ SetBump(t) \/ SetWake(t)
         \/ WaitGen0(t) \/ WaitEpoch(t) \/ WaitLook(t) \/ WaitGen(t) \/ WaitSignal(t)
         \/ WaitConsume(t) \/ WaitTime(t) \/ WaitSleep(t) \/ WaitPoll(t) \/ WaitReturn(t)
  PROVE  TypeOK'
<1>0. wait[t] \in WaitRec /\ find[t] \in FindRec /\ gen \in [Slots -> Nat]
  BY DEF TypeOK
<1>1. CASE SetBump(t)
  <2>1. gen' \in [Slots -> Nat]
    BY <1>0, <1>1 DEF SetBump
  <2>2. find' \in [Threads -> FindRec]
    BY <1>1, IdleTyped DEF SetBump, TypeOK
  <2>3. set' \in [Threads -> [pc : {"idle", "find", "wake"}, obj : Events \cup {NoEvent}]]
    BY <1>1 DEF SetBump, TypeOK
  <2> QED
    BY <1>1, <2>1, <2>2, <2>3 DEF SetBump, TypeOK, counts
<1>2. CASE SetWake(t)
  BY <1>2, WakeTyped DEF SetWake, TypeOK, counts, IdleSet
<1>3. CASE WaitGen0(t)
  <2>1. [wait[t] EXCEPT !.pc = "epoch", !.slot = find[t].slot,
           !.gen0 = IF find[t].slot = NoSlot THEN 0 ELSE gen[find[t].slot]] \in WaitRec
    BY <1>0 DEF WaitRec, FindRec
  <2>2. wait' \in [Threads -> WaitRec]
    BY <1>3, <2>1 DEF WaitGen0, TypeOK
  <2>3. find' \in [Threads -> FindRec]
    BY <1>3, IdleTyped DEF WaitGen0, TypeOK
  <2> QED
    BY <1>3, <2>2, <2>3 DEF WaitGen0, TypeOK, counts
<1>4. CASE WaitEpoch(t)
  <2>1. [wait[t] EXCEPT !.pc = "look", !.seen = epoch, !.due = Moved(t)] \in WaitRec
    BY <1>0 DEF WaitRec, TypeOK, Moved
  <2>2. wait' \in [Threads -> WaitRec]
    BY <1>4, <2>1 DEF WaitEpoch, TypeOK
  <2> QED
    BY <1>4, <2>2 DEF WaitEpoch, TypeOK, counts
<1>5. CASE WaitLook(t) \/ WaitGen(t) \/ WaitSignal(t) \/ WaitTime(t) \/ WaitSleep(t) \/ WaitPoll(t)
  <2>1. wait' \in [Threads -> WaitRec]
    BY <1>5, WaitGoes DEF WaitLook, WaitGen, WaitSignal, WaitTime, WaitSleep, WaitPoll
  <2> QED
    BY <1>5, <2>1 DEF WaitLook, WaitGen, WaitSignal, WaitTime, WaitSleep, WaitPoll, TypeOK, counts
<1>6. CASE WaitConsume(t)
  <2>1. wait' \in [Threads -> WaitRec]
    BY <1>6, WaitGoes DEF WaitConsume
  <2>2. signal' \in [Events -> {0, 1}]
    BY <1>6 DEF WaitConsume, TypeOK
  <2>3. \A e \in Events : takes[e] \in Nat /\ takes[e] + 1 \in Nat
    BY DEF TypeOK
  <2>4. takes' \in [Events -> Nat]
    BY <1>6, <2>3 DEF WaitConsume, TypeOK
  <2> QED
    BY <1>6, <2>1, <2>2, <2>4 DEF WaitConsume, TypeOK
<1>7. CASE WaitReturn(t)
  <2>1. IdleWait \in WaitRec
    BY DEF IdleWait, WaitRec, NoSlot
  <2> QED
    BY <1>7, <2>1 DEF WaitReturn, TypeOK, counts
<1> QED
  BY <1>1, <1>2, <1>3, <1>4, <1>5, <1>6, <1>7

LEMMA NextTypeOK ==
  ASSUME IInv, TypeOK, [Next]_vars
  PROVE  TypeOK'
<1>1. CASE Nudge
  BY <1>1, WakeTyped DEF Nudge, TypeOK
<1>2. CASE UNCHANGED vars
  BY <1>2 DEF vars, counts, TypeOK
<1> QED
  BY <1>1, <1>2, SearchTyped, SetTyped, StepTyped DEF Next, Step

-----------------------------------------------------------------------------

\* Steps that touch none of what the vigil is about.
LEMMA VigilSame ==
  ASSUME WaitsAre, Vigil, UNCHANGED <<signal, epoch, wait>>,
         \A u \in Threads : set'[u].obj = set[u].obj /\ (set[u].pc # "idle" => set'[u].pc # "idle")
  PROVE  WaitsAre' /\ Vigil'
BY DEF WaitsAre, Vigil, Watching, AtWait, SetUnderWay

\* One wait moves to a place from which it would not sleep through a set.
LEMMA VigilMoves ==
  ASSUME TypeOK, WaitsAre, Vigil, UNCHANGED <<epoch, set>>, NEW t \in Threads, NEW r,
         wait' = [wait EXCEPT ![t] = r],
         r.pc # "idle" => r.obj \in Events,
         r.seen =< epoch,
         \A e \in Events : signal'[e] = 1 => signal[e] = 1,
         \/ r.pc \notin {"time", "pump", "sleep"}
         \/ r.pc \in {"time", "pump"} /\ Watching(t) /\ r.obj = wait[t].obj
         \/ r.pc \in {"time", "pump"} /\ r.seen # epoch
         \/ r.pc = "sleep" /\ Watching(t) /\ r.obj = wait[t].obj
         \/ signal[r.obj] = 0
  PROVE  WaitsAre' /\ Vigil'
<1>1. wait'[t] = r /\ \A u \in Threads \ {t} : wait'[u] = wait[u]
  BY DEF TypeOK
<1>2. WaitsAre'
  BY <1>1 DEF WaitsAre
<1>3. ASSUME NEW u \in Threads, Watching(u)', signal'[wait'[u].obj] = 1
      PROVE  SetUnderWay(wait'[u].obj)
  <2>1. wait'[u].pc # "idle" /\ wait'[u].obj \in Events /\ signal[wait'[u].obj] = 1
    BY <1>2, <1>3 DEF WaitsAre, Watching, AtWait
  <2>2. CASE u # t
    BY <1>1, <1>3, <2>1, <2>2 DEF Vigil, Watching, AtWait
  <2>3. CASE u = t
    BY <1>1, <1>3, <2>1, <2>3 DEF Vigil, Watching, AtWait
  <2> QED
    BY <2>2, <2>3
<1> QED
  BY <1>2, <1>3 DEF Vigil, SetUnderWay

\* After a broadcast nobody watches: sleepers are up, and the others see that
\* the epoch has moved.
LEMMA BroadcastHolds ==
  ASSUME TypeOK, WaitsAre, Broadcast
  PROVE  WaitsAre' /\ Vigil'
<1>1. epoch \in Nat /\ epoch' = epoch + 1
  BY DEF TypeOK, Broadcast
<1>2. ASSUME NEW u \in Threads
      PROVE  /\ wait'[u].seen = wait[u].seen /\ wait'[u].obj = wait[u].obj
             /\ wait'[u].pc = IF wait[u].pc = "sleep" THEN "epoch" ELSE wait[u].pc
             /\ wait[u].seen \in Nat
  BY DEF TypeOK, WaitRec, Broadcast
<1>3. ASSUME NEW u \in Threads PROVE ~ Watching(u)'
  BY <1>1, <1>2 DEF WaitsAre, Watching, AtWait
<1> QED
  BY <1>1, <1>2, <1>3 DEF WaitsAre, Vigil

\* Where the step is the wait's own.
LEMMA WaitHolds ==
  ASSUME SleepInv, NEW t \in Threads,
         \/ WaitGen0(t) \/ WaitEpoch(t) \/ WaitLook(t) \/ WaitGen(t) \/ WaitSignal(t)
         \/ WaitConsume(t) \/ WaitTime(t) \/ WaitSleep(t) \/ WaitPoll(t) \/ WaitReturn(t)
  PROVE  WaitsAre' /\ Vigil'
<1>1. TypeOK /\ WaitsAre /\ Vigil /\ wait[t].pc # "idle" /\ wait[t].obj \in Events
  BY DEF SleepInv, WaitsAre, WaitGen0, WaitEpoch, WaitLook, WaitGen, WaitSignal,
     WaitConsume, WaitTime, WaitSleep, WaitPoll, WaitReturn, AtWait
<1>2. /\ epoch \in Nat /\ wait[t].seen =< epoch
      /\ wait[t].seen \in Nat
      /\ \A e \in Events : signal[e] \in {0, 1}
  BY <1>1 DEF TypeOK, WaitRec, WaitsAre
<1>3. CASE WaitGen0(t)
  <2> DEFINE r == [wait[t] EXCEPT !.pc = "epoch", !.slot = find[t].slot,
                     !.gen0 = IF find[t].slot = NoSlot THEN 0 ELSE gen[find[t].slot]]
  <2>1. wait' = [wait EXCEPT ![t] = r] /\ UNCHANGED <<epoch, set, signal>>
    BY <1>3 DEF WaitGen0
  <2>2. r.pc = "epoch" /\ r.obj = wait[t].obj /\ r.seen = wait[t].seen
    BY <1>1 DEF TypeOK, WaitRec
  <2> HIDE DEF r
  <2> QED
    BY <1>1, <1>2, <2>1, <2>2, VigilMoves
<1>4. CASE WaitEpoch(t)
  <2> DEFINE r == [wait[t] EXCEPT !.pc = "look", !.seen = epoch, !.due = Moved(t)]
  <2>1. wait' = [wait EXCEPT ![t] = r] /\ UNCHANGED <<epoch, set, signal>>
    BY <1>4 DEF WaitEpoch
  <2>2. r.pc = "look" /\ r.obj = wait[t].obj /\ r.seen = epoch
    BY <1>1 DEF TypeOK, WaitRec
  <2>3. r.seen =< epoch /\ r.pc \notin {"time", "pump", "sleep"}
    BY <1>2, <2>2
  <2>4. r.pc # "idle" => r.obj \in Events
    BY <1>1, <2>2
  <2> HIDE DEF r
  <2> QED
    BY <1>1, <2>1, <2>3, <2>4, VigilMoves
<1>5. ASSUME NEW pc, WaitGoto(t, pc), UNCHANGED <<epoch, set>>,
             \A e \in Events : signal'[e] = 1 => signal[e] = 1,
             \/ pc \notin {"time", "pump", "sleep"}
             \/ pc \in {"time", "pump"} /\ AtWait(t, "time")
             \/ pc = "sleep" /\ Watching(t)
             \/ signal[wait[t].obj] = 0
      PROVE  WaitsAre' /\ Vigil'
  <2> DEFINE r == [wait[t] EXCEPT !.pc = pc]
  <2>1. wait' = [wait EXCEPT ![t] = r]
    BY <1>5 DEF WaitGoto
  <2>2. r.pc = pc /\ r.obj = wait[t].obj /\ r.seen = wait[t].seen
    BY <1>1 DEF TypeOK, WaitRec
  <2>3. AtWait(t, "time") => Watching(t) \/ r.seen # epoch
    BY <2>2 DEF AtWait, Watching
  <2> HIDE DEF r
  <2> QED
    BY <1>1, <1>2, <1>5, <2>1, <2>2, <2>3, VigilMoves
<1>6. CASE WaitLook(t) \/ WaitGen(t)
  BY <1>5, <1>6 DEF WaitLook, WaitGen
<1>7. CASE WaitSignal(t)
  BY <1>5, <1>7 DEF WaitSignal
<1>8. CASE WaitConsume(t)
  <2>1. \A e \in Events : signal'[e] = 1 => signal[e] = 1
    BY <1>8 DEF WaitConsume, TypeOK, SleepInv
  <2> QED
    BY <1>5, <1>8, <2>1 DEF WaitConsume
<1>9. CASE WaitTime(t)
  BY <1>5, <1>9 DEF WaitTime
<1>10. CASE WaitSleep(t)
  <2>1. epoch = wait[t].seen => Watching(t)
    BY <1>10 DEF WaitSleep, AtWait, Watching
  <2> QED
    BY <1>5, <1>10, <2>1 DEF WaitSleep
<1>11. CASE WaitPoll(t)
  BY <1>5, <1>11 DEF WaitPoll
<1>12. CASE WaitReturn(t)
  <2>1. wait' = [wait EXCEPT ![t] = IdleWait] /\ UNCHANGED <<epoch, set, signal>>
    BY <1>12 DEF WaitReturn
  <2>2. 0 =< epoch
    BY <1>2
  <2> QED
    BY <1>1, <2>1, <2>2, IdleTyped, VigilMoves
<1> QED
  BY <1>3, <1>4, <1>6, <1>7, <1>8, <1>9, <1>10, <1>11, <1>12

\* A set is under way from its store to its broadcast.
LEMMA SetHolds ==
  ASSUME SleepInv, NEW t \in Threads, NEW e \in Events, SetStore(t, e)
  PROVE  WaitsAre' /\ Vigil'
<1>1. TypeOK /\ WaitsAre /\ Vigil
  BY DEF SleepInv
<1>2. /\ set[t].pc = "idle" /\ UNCHANGED <<wait, epoch>>
      /\ set'[t] = [pc |-> "find", obj |-> e]
      /\ \A u \in Threads \ {t} : set'[u] = set[u]
  BY <1>1 DEF SetStore, TypeOK
<1>3. \A f \in Events : SetUnderWay(f) => SetUnderWay(f)'
  BY <1>2 DEF SetUnderWay
<1>4. SetUnderWay(e)'
  BY <1>2 DEF SetUnderWay
<1>5. \A f \in Events \ {e} : signal'[f] = signal[f]
  BY <1>1 DEF SetStore, TypeOK
<1>6. ASSUME NEW u \in Threads, Watching(u)', signal'[wait'[u].obj] = 1
      PROVE  SetUnderWay(wait[u].obj)'
  <2>1. wait[u].pc # "idle" /\ wait[u].obj \in Events /\ Watching(u)
    BY <1>1, <1>2, <1>6 DEF WaitsAre, Watching, AtWait
  <2>2. CASE wait[u].obj = e
    BY <1>2, <1>4, <2>2
  <2>3. CASE wait[u].obj # e
    BY <1>1, <1>2, <1>3, <1>5, <1>6, <2>1, <2>3 DEF Vigil
  <2> QED
    BY <2>2, <2>3
<1> QED
  BY <1>1, <1>2, <1>6 DEF WaitsAre, Vigil

LEMMA NextSleep ==
  ASSUME IInv, SleepInv, [Next]_vars
  PROVE  SleepInv'
<1>1. TypeOK /\ WaitsAre /\ Vigil
  BY DEF SleepInv
<1>2. TypeOK'
  BY <1>1, NextTypeOK
<1>3. ASSUME NEW t \in Threads, FindLoad(t) \/ FindCas(t) \/ FindAgain(t) \/ SetBump(t)
      PROVE  WaitsAre' /\ Vigil'
  <2>1. UNCHANGED <<signal, epoch, wait>>
    BY <1>3 DEF FindLoad, FindCas, FindAgain, SetBump
  <2>2. \A u \in Threads : set'[u].obj = set[u].obj /\ (set[u].pc # "idle" => set'[u].pc # "idle")
    <3>1. CASE FindLoad(t) \/ FindCas(t) \/ FindAgain(t)
      BY <3>1 DEF FindLoad, FindCas, FindAgain
    <3>2. CASE SetBump(t)
      <4>1. set' = [set EXCEPT ![t] = [set[t] EXCEPT !.pc = "wake"]] /\ set[t].pc # "idle"
        BY <3>2 DEF SetBump
      <4>2. [set[t] EXCEPT !.pc = "wake"].obj = set[t].obj /\ [set[t] EXCEPT !.pc = "wake"].pc = "wake"
        BY <1>1 DEF TypeOK
      <4> QED
        BY <1>1, <4>1, <4>2 DEF TypeOK
    <3> QED
      BY <1>3, <3>1, <3>2
  <2> QED
    BY <1>1, <2>1, <2>2, VigilSame
<1>4. ASSUME NEW t \in Threads, SetWake(t) PROVE WaitsAre' /\ Vigil'
  BY <1>1, <1>4, BroadcastHolds DEF SetWake
<1>5. CASE Nudge
  BY <1>1, <1>2, <1>5, BroadcastHolds DEF Nudge, SleepInv
<1>6. ASSUME NEW t \in Threads, NEW e \in Events, GuestClear(t, e) PROVE WaitsAre' /\ Vigil'
  <2>1. UNCHANGED <<epoch, wait, set>>
    BY <1>6 DEF GuestClear
  <2>2. \A f \in Events : signal'[f] = 1 => signal[f] = 1
    BY <1>1, <1>6 DEF GuestClear, TypeOK
  <2> QED
    BY <1>1, <2>1, <2>2 DEF WaitsAre, Vigil, Watching, AtWait, SetUnderWay
<1>7. ASSUME NEW t \in Threads, NEW e \in Events, WaitBegin(t, e) PROVE WaitsAre' /\ Vigil'
  <2> DEFINE r == [IdleWait EXCEPT !.pc = IF e \in Notification THEN "find" ELSE "epoch",
                                   !.obj = e]
  <2>1. wait' = [wait EXCEPT ![t] = r] /\ UNCHANGED <<epoch, set, signal>>
    BY <1>7 DEF WaitBegin
  <2>2. r.pc \in {"find", "epoch"} /\ r.obj = e /\ r.seen = 0
    BY DEF IdleWait
  <2>3. 0 =< epoch
    BY <1>1 DEF TypeOK
  <2> QED
    BY <1>1, <2>1, <2>2, <2>3, VigilMoves
<1>8. CASE UNCHANGED vars
  BY <1>1, <1>2, <1>8, VigilSame DEF vars, SleepInv
<1> QED
  BY <1>2, <1>3, <1>4, <1>5, <1>6, <1>7, <1>8, SetHolds, WaitHolds DEF SleepInv, Next, Step

\* The inductive invariant of the sets and the waits.
THEOREM SleepInvariance == Spec => []SleepInv
BY InitSleep, NextSleep, Invariance, PTL DEF Spec

\* Every variable of the events, the calls and the waits keeps its type, whatever
\* the table's size: no search leaves the table.
THEOREM TypeCorrect == Spec => []TypeOK
<1>1. SleepInv => TypeOK
  BY DEF SleepInv
<1> QED
  BY <1>1, SleepInvariance, PTL

\* However many threads set, clear and wait, none sleeps on a signalled event
\* unless the thread that set it has yet to broadcast.
THEOREM NoneSleepsThrough == Spec => []NoSetSleptThrough
<1>1. SleepInv => NoSetSleptThrough
  BY DEF SleepInv, Vigil, Watching, SetUnderWay, NoSetSleptThrough
<1> QED
  BY <1>1, SleepInvariance, PTL

=============================================================================
