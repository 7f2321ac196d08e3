-------------------------- MODULE TimerTable_proof --------------------------
(***************************************************************************)
(* Proofs about TimerTable, for any table size, threads and timers, any    *)
(* number of setters per timer, periodic timers and DPCs that set timers.  *)
(*                                                                         *)
(* TakenOnce is not inductive: an arming also has a number while it is     *)
(* being written, before it is published.  Apart says that the numbers in  *)
(* the table, those being written and those taken never meet.              *)
(*                                                                         *)
(* SnapshotWhole, which is only true with one thread that sets timers and  *)
(* with one-shots, is proved of that program from BracketInv: a poll's     *)
(* snapshot is what the slot still holds as long as the slot's generation  *)
(* is the one the poll loaded.                                             *)
(*                                                                         *)
(* UndisturbedIsKept is proved of the same program from HoldInv, in which  *)
(* a timer has at most one slot, a slot's flag is down while a call writes *)
(* its payload, and a raised flag stands over the payload of its arming.   *)
(***************************************************************************)
EXTENDS TimerTable, TLAPS

\* The arming a thread is about to publish, or 0.
CallPending ==
  [t \in Threads |->
    IF call[t].pc \in {"load", "odd", "write", "even", "publish"} THEN call[t].id ELSE 0]

PollPending ==
  [t \in Threads |->
    IF poll[t].pc \in {"odd", "write", "even", "publish"} THEN poll[t].id ELSE 0]

\* No number is in two places among the slots (a), the armings taken (k), and
\* those that calls (c) and polls (p) are about to publish.
ApartIn(a, k, c, p) ==
  /\ \A s \in Slots : a[s] # 0 =>
       /\ a[s] \notin k
       /\ \A r \in Slots : a[r] = a[s] => r = s
       /\ \A t \in Threads : a[s] # c[t] /\ a[s] # p[t]
  /\ \A t \in Threads : c[t] # 0 =>
       /\ c[t] \notin k
       /\ \A u \in Threads : c[t] # p[u] /\ (c[u] = c[t] => u = t)
  /\ \A t \in Threads : p[t] # 0 =>
       /\ p[t] \notin k
       /\ \A u \in Threads : p[u] = p[t] => u = t

Apart == ApartIn(armed, taken, CallPending, PollPending)

IInv == TypeOK /\ Apart

-----------------------------------------------------------------------------
(* Types.                                                                  *)

\* The order tuples are functions from positions to fields.
LEMMA Orders ==
  /\ Len(WriteOrder) = 5 /\ Len(ReadOrder) = 5 /\ Len(PeriodOrder) = 3
  /\ \A i \in 1 .. 5 : WriteOrder[i] \in Fields /\ ReadOrder[i] \in Fields
  /\ \A i \in 1 .. 3 : PeriodOrder[i] \in Fields
BY DEF WriteOrder, ReadOrder, PeriodOrder, Fields

PollPcs == {"idle", "armed", "gen", "read", "owner", "check", "claim", "free",
            "load", "odd", "write", "even", "publish", "dpc"}

CallPcs == {"idle", "disarm", "take", "release", "find", "claim", "drop",
            "now", "load", "odd", "write", "even", "publish"}

\* A record keeps its type when one field is given a value of that field's type.
LEMMA PollFields ==
  ASSUME NEW r \in PollRec
  PROVE  /\ \A v \in PollPcs : [r EXCEPT !.pc = v] \in PollRec
         /\ \A v \in 0 .. Word - 1 : [r EXCEPT !.now = v] \in PollRec
         /\ \A v \in Slots : [r EXCEPT !.slot = v] \in PollRec
         /\ \A v \in Nat : [r EXCEPT !.gen = v] \in PollRec
         /\ \A v \in 1 .. 5 : [r EXCEPT !.i = v] \in PollRec
         /\ \A v \in [Fields -> Ids] : [r EXCEPT !.snap = v] \in PollRec
         /\ \A v \in Timers \cup {NoTimer} : [r EXCEPT !.own = v] \in PollRec
         /\ \A v \in Ids : [r EXCEPT !.id = v] \in PollRec
BY DEF PollRec, PollPcs

LEMMA CallFields ==
  ASSUME NEW r \in CallRec
  PROVE  /\ \A v \in CallPcs : [r EXCEPT !.pc = v] \in CallRec
         /\ \A v \in {"set", "cancel"} : [r EXCEPT !.op = v] \in CallRec
         /\ \A v \in Timers \cup {NoTimer} : [r EXCEPT !.timer = v] \in CallRec
         /\ \A v \in Delays \cup {0} : [r EXCEPT !.delay = v] \in CallRec
         /\ \A v \in Periods \cup {0} : [r EXCEPT !.period = v] \in CallRec
         /\ \A v \in Slots : [r EXCEPT !.slot = v] \in CallRec
         /\ \A v \in Nat : [r EXCEPT !.gen = v] \in CallRec
         /\ \A v \in 1 .. 5 : [r EXCEPT !.i = v] \in CallRec
         /\ \A v \in Ids : [r EXCEPT !.id = v] \in CallRec
<1>1. /\ \A v \in CallPcs : [r EXCEPT !.pc = v] \in CallRec
      /\ \A v \in {"set", "cancel"} : [r EXCEPT !.op = v] \in CallRec
      /\ \A v \in Timers \cup {NoTimer} : [r EXCEPT !.timer = v] \in CallRec
  BY DEF CallRec, CallPcs
<1>2. /\ \A v \in Delays \cup {0} : [r EXCEPT !.delay = v] \in CallRec
      /\ \A v \in Periods \cup {0} : [r EXCEPT !.period = v] \in CallRec
      /\ \A v \in Slots : [r EXCEPT !.slot = v] \in CallRec
  BY DEF CallRec
<1>3. /\ \A v \in Nat : [r EXCEPT !.gen = v] \in CallRec
      /\ \A v \in 1 .. 5 : [r EXCEPT !.i = v] \in CallRec
      /\ \A v \in Ids : [r EXCEPT !.id = v] \in CallRec
  BY DEF CallRec
<1> QED
  BY <1>1, <1>2, <1>3

\* What the fields of a thread's record are.
LEMMA PollGet ==
  ASSUME TypeOK, NEW t \in Threads
  PROVE  /\ poll[t] \in PollRec
         /\ poll[t].now \in 0 .. Word - 1 /\ poll[t].slot \in Slots
         /\ poll[t].gen \in Nat /\ poll[t].i \in 1 .. 5
         /\ poll[t].snap \in [Fields -> Ids] /\ poll[t].own \in Timers \cup {NoTimer}
         /\ poll[t].id \in Ids
<1>1. poll[t] \in PollRec
  BY Zenon DEF TypeOK
<1> QED BY <1>1 DEF PollRec

LEMMA CallGet ==
  ASSUME TypeOK, NEW t \in Threads
  PROVE  /\ call[t] \in CallRec
         /\ call[t].timer \in Timers \cup {NoTimer}
         /\ call[t].delay \in Nat /\ call[t].period \in Nat
         /\ call[t].slot \in Slots /\ call[t].gen \in Nat
         /\ call[t].i \in 1 .. 5 /\ call[t].id \in Ids
<1>1. call[t] \in CallRec
  BY Zenon DEF TypeOK
<1>2. /\ call[t].timer \in Timers \cup {NoTimer}
      /\ call[t].delay \in Delays \cup {0} /\ call[t].period \in Periods \cup {0}
      /\ call[t].slot \in Slots /\ call[t].gen \in Nat
      /\ call[t].i \in 1 .. 5 /\ call[t].id \in Ids
  BY <1>1 DEF CallRec
<1>3. Delays \subseteq Nat /\ Periods \subseteq Nat
  BY TimerAssumption, Zenon
<1>4. Delays \cup {0} \subseteq Nat /\ Periods \cup {0} \subseteq Nat
  BY <1>3
<1> QED BY <1>1, <1>2, <1>4

\* An idle thread's registers.
LEMMA IdleTypes ==
  ASSUME TypeOK
  PROVE  IdlePoll \in PollRec /\ IdleCall \in CallRec
<1>1. 0 \in Slots /\ 0 \in 0 .. Word - 1 /\ 0 \in Ids
  BY TimerAssumption DEF TypeOK, Slots, Ids
<1> QED BY <1>1 DEF IdlePoll, IdleCall, PollRec, CallRec

\* A longer log has more numbers.
LEMMA IdsGrow ==
  ASSUME TypeOK, NEW a, log' = Append(log, a)
  PROVE  /\ Len(log) \in Nat /\ Len(log') = Len(log) + 1
         /\ Ids \subseteq Ids' /\ Len(log) + 1 \in Ids'
         /\ \A r \in PollRec : r \in PollRec'
         /\ \A r \in CallRec : r \in CallRec'
<1>1. Len(log) \in Nat /\ Len(log') = Len(log) + 1
  BY DEF TypeOK
<1>2. Ids \subseteq Ids' /\ Len(log) + 1 \in Ids'
  BY <1>1 DEF Ids
<1>3. \A r \in PollRec : r \in PollRec'
  BY <1>2 DEF PollRec
<1>4. \A r \in CallRec : r \in CallRec'
  BY <1>2 DEF CallRec
<1> QED BY <1>1, <1>2, <1>3, <1>4

\* The types of the table and of the history, apart from the threads'.
TableOK ==
  /\ clock \in 0 .. Word - 1
  /\ owner \in [Slots -> Timers \cup {NoTimer}]
  /\ gen \in [Slots -> Nat]
  /\ armed \in [Slots -> Ids]
  /\ payload \in [Slots -> [Fields -> Ids]]

HistoryOK ==
  /\ sets \in Nat
  /\ log \in Seq(ArmingRec)
  /\ taken \subseteq Ids \ {0}
  /\ cancelled \subseteq taken

LEMMA TypeParts ==
  /\ TypeOK <=> /\ TableOK /\ HistoryOK
                /\ poll \in [Threads -> PollRec] /\ call \in [Threads -> CallRec]
  /\ TypeOK' <=> /\ TableOK' /\ HistoryOK'
                 /\ poll' \in [Threads -> PollRec'] /\ call' \in [Threads -> CallRec']
BY Zenon DEF TypeOK, TableOK, HistoryOK

LEMMA InitType == ASSUME Init PROVE TypeOK
BY TimerAssumption DEF Init, TypeOK, Ids, PollRec, CallRec, IdlePoll, IdleCall, Slots

LEMMA NextSlotType ==
  ASSUME TypeOK, NEW t \in Threads, NextSlot(t)
  PROVE  poll' \in [Threads -> PollRec]
<1> DEFINE y == [IdlePoll EXCEPT !.pc = "armed", !.now = poll[t].now,
                                 !.slot = poll[t].slot + 1]
           x == IF poll[t].slot + 1 < NSlots THEN y ELSE IdlePoll
<1>1. poll' = [poll EXCEPT ![t] = x]
  BY Zenon DEF NextSlot
<1>2. ASSUME poll[t].slot + 1 < NSlots
      PROVE  y \in PollRec
  <2>1. poll[t].slot + 1 \in Slots
    BY <1>2, PollGet, TimerAssumption DEF Slots
  <2>2. [IdlePoll EXCEPT !.pc = "armed"] \in PollRec
    BY IdleTypes, PollFields, Zenon DEF PollPcs
  <2>3. [IdlePoll EXCEPT !.pc = "armed", !.now = poll[t].now] \in PollRec
    BY <2>2, PollGet, PollFields, Zenon
  <2> QED BY <2>1, <2>3, PollFields, Zenon
<1>3. x \in PollRec
  BY <1>2, IdleTypes, Zenon
<1>4. poll \in [Threads -> PollRec]
  BY Zenon DEF TypeOK
<1> QED BY <1>1, <1>3, <1>4, Zenon

LEMMA PollStore ==
  ASSUME TypeOK, NEW t \in Threads, NEW x \in PollRec, poll' = [poll EXCEPT ![t] = x]
  PROVE  poll' \in [Threads -> PollRec]
BY Zenon DEF TypeOK

LEMMA CallStore ==
  ASSUME TypeOK, NEW t \in Threads, NEW x \in CallRec, call' = [call EXCEPT ![t] = x]
  PROVE  call' \in [Threads -> CallRec]
BY Zenon DEF TypeOK

LEMMA PollGotoType ==
  ASSUME TypeOK, NEW t \in Threads, NEW v \in PollPcs, PollGoto(t, v)
  PROVE  poll' \in [Threads -> PollRec]
<1>1. poll' = [poll EXCEPT ![t] = [poll[t] EXCEPT !.pc = v]]
  BY Zenon DEF PollGoto
<1>2. [poll[t] EXCEPT !.pc = v] \in PollRec
  BY PollGet, PollFields, Zenon
<1> QED BY <1>1, <1>2, PollStore, Zenon

LEMMA CallGotoType ==
  ASSUME TypeOK, NEW t \in Threads, NEW v \in CallPcs, CallGoto(t, v)
  PROVE  call' \in [Threads -> CallRec]
<1>1. call' = [call EXCEPT ![t] = [call[t] EXCEPT !.pc = v]]
  BY Zenon DEF CallGoto
<1>2. [call[t] EXCEPT !.pc = v] \in CallRec
  BY CallGet, CallFields, Zenon
<1> QED BY <1>1, <1>2, CallStore, Zenon

LEMMA ScanOrType ==
  ASSUME TypeOK, NEW t \in Threads, NEW next \in CallRec, ScanOr(t, next)
  PROVE  call' \in [Threads -> CallRec]
<1> DEFINE y == [call[t] EXCEPT !.slot = call[t].slot + 1]
           x == IF call[t].slot + 1 < NSlots THEN y ELSE next
<1>1. call' = [call EXCEPT ![t] = x]
  BY Zenon DEF ScanOr
<1>2. ASSUME call[t].slot + 1 < NSlots
      PROVE  y \in CallRec
  <2>1. call[t].slot + 1 \in Slots
    BY <1>2, CallGet, TimerAssumption DEF Slots
  <2> QED BY <2>1, CallGet, CallFields, Zenon
<1>3. x \in CallRec
  BY <1>2, Zenon
<1> QED BY <1>1, <1>3, CallStore, Zenon

\* A step that leaves a part alone leaves its type alone.
LEMMA TableSame ==
  ASSUME TypeOK, UNCHANGED <<clock, table, log>>
  PROVE  TableOK'
BY DEF TypeOK, TableOK, table, Ids

LEMMA HistorySame ==
  ASSUME TypeOK, UNCHANGED history
  PROVE  HistoryOK' /\ Ids' = Ids /\ PollRec' = PollRec /\ CallRec' = CallRec /\ log' = log
BY DEF TypeOK, HistoryOK, history, Ids, PollRec, CallRec

\* The steps of a poll that change nothing but the poller's registers.
LEMMA PollLocalType ==
  ASSUME TypeOK, NEW t \in Threads,
         \/ PollBegin(t) \/ PollArmed(t) \/ PollGen(t) \/ PollRead(t) \/ PollOwner(t)
         \/ PollCheck(t) \/ DpcReturn(t)
  PROVE  TypeOK'
<1>1. UNCHANGED <<clock, table, call, history>>
  BY Zenon DEF PollBegin, PollArmed, PollGen, PollRead, PollOwner, PollCheck, DpcReturn
<1>2. /\ TableOK' /\ HistoryOK' /\ PollRec' = PollRec /\ CallRec' = CallRec
      /\ call' \in [Threads -> CallRec]
  <2>1. log' = log
    BY <1>1 DEF history
  <2>2. call \in [Threads -> CallRec]
    BY Zenon DEF TypeOK
  <2> QED BY <1>1, <2>1, <2>2, TableSame, HistorySame
<1>3. poll' \in [Threads -> PollRec]
  <2>1. CASE PollBegin(t)
    <3>1. poll' = [poll EXCEPT ![t] = [poll[t] EXCEPT !.pc = "armed", !.now = clock]]
      BY <2>1, Zenon DEF PollBegin
    <3>2. [poll[t] EXCEPT !.pc = "armed"] \in PollRec
      BY PollGet, PollFields, Zenon DEF PollPcs
    <3>3. [poll[t] EXCEPT !.pc = "armed", !.now = clock] \in PollRec
      BY <3>2, PollFields, Zenon DEF TypeOK
    <3> QED BY <3>1, <3>3, PollStore, Zenon
  <2>2. CASE PollArmed(t)
    BY <2>2, NextSlotType, PollGotoType, Zenon DEF PollArmed, PollPcs
  <2>3. CASE PollGen(t)
    <3> DEFINE g == gen[poll[t].slot]
    <3>1. CASE NextSlot(t)
      BY <3>1, NextSlotType, Zenon
    <3>2. CASE poll' = [poll EXCEPT ![t].pc = "read", ![t].gen = g]
      <4>1. poll' = [poll EXCEPT ![t] = [poll[t] EXCEPT !.pc = "read", !.gen = g]]
        BY <3>2, Zenon
      <4>2. [poll[t] EXCEPT !.pc = "read"] \in PollRec
        BY PollGet, PollFields, Zenon DEF PollPcs
      <4>3. g \in Nat
        BY PollGet, Zenon DEF TypeOK
      <4>4. [poll[t] EXCEPT !.pc = "read", !.gen = g] \in PollRec
        BY <4>2, <4>3, PollFields, Zenon
      <4> QED BY <4>1, <4>4, PollStore, Zenon
    <3> QED BY <2>3, <3>1, <3>2, Zenon DEF PollGen
  <2>4. CASE PollRead(t)
    <3> DEFINE f == ReadOrder[poll[t].i]
               sn == [poll[t].snap EXCEPT ![f] = payload[poll[t].slot][f]]
               i2 == IF poll[t].i < Len(ReadOrder) THEN poll[t].i + 1 ELSE 1
               pc2 == IF poll[t].i < Len(ReadOrder) THEN "read" ELSE "owner"
    <3>1. poll' = [poll EXCEPT ![t] = [poll[t] EXCEPT !.snap = sn, !.i = i2, !.pc = pc2]]
      BY <2>4, Zenon DEF PollRead
    <3>2. f \in Fields /\ i2 \in 1 .. 5 /\ pc2 \in PollPcs
      BY PollGet, Orders DEF PollPcs
    <3>3. payload[poll[t].slot][f] \in Ids
      BY <3>2, PollGet, Zenon DEF TypeOK
    <3>4. sn \in [Fields -> Ids]
      BY <3>3, PollGet, Zenon
    <3> HIDE DEF sn, i2, pc2
    <3>5. [poll[t] EXCEPT !.snap = sn] \in PollRec
      BY <3>4, PollGet, PollFields, Zenon
    <3>6. [poll[t] EXCEPT !.snap = sn, !.i = i2] \in PollRec
      BY <3>2, <3>5, PollFields, Zenon
    <3>7. [poll[t] EXCEPT !.snap = sn, !.i = i2, !.pc = pc2] \in PollRec
      BY <3>2, <3>6, PollFields, Zenon
    <3> QED BY <3>1, <3>7, PollStore, Zenon
  <2>5. CASE PollOwner(t)
    <3> DEFINE o == owner[poll[t].slot]
    <3>1. poll' = [poll EXCEPT ![t] = [poll[t] EXCEPT !.own = o, !.pc = "check"]]
      BY <2>5, Zenon DEF PollOwner
    <3>2. o \in Timers \cup {NoTimer}
      BY PollGet, Zenon DEF TypeOK
    <3>3. [poll[t] EXCEPT !.own = o] \in PollRec
      BY <3>2, PollGet, PollFields, Zenon
    <3>4. [poll[t] EXCEPT !.own = o, !.pc = "check"] \in PollRec
      BY <3>3, PollFields, Zenon DEF PollPcs
    <3> QED BY <3>1, <3>4, PollStore, Zenon
  <2>6. CASE PollCheck(t)
    BY <2>6, NextSlotType, PollGotoType, Zenon DEF PollCheck, PollPcs
  <2>7. CASE DpcReturn(t)
    BY <2>7, NextSlotType, Zenon DEF DpcReturn
  <2> QED BY <2>1, <2>2, <2>3, <2>4, <2>5, <2>6, <2>7
<1> QED BY <1>1, <1>2, <1>3, TypeParts, Zenon

\* Every number names an arming.
LEMMA ArmingGet ==
  ASSUME TypeOK, NEW k \in Ids
  PROVE  /\ Arming(k).timer \in Timers \cup {NoTimer}
         /\ Arming(k).at \in 0 .. Word - 1
         /\ Arming(k).delay \in Nat /\ Arming(k).period \in Nat
<1>1. CASE k = 0
  BY <1>1, TimerAssumption DEF Arming, NoArming
<1>2. CASE k # 0
  <2>1. k \in 1 .. Len(log)
    BY <1>2 DEF TypeOK, Ids
  <2>2. log[k] \in ArmingRec
    BY <2>1 DEF TypeOK
  <2>3. Arming(k) = log[k]
    BY <1>2 DEF Arming
  <2> QED BY <2>2, <2>3 DEF ArmingRec
<1> QED BY <1>1, <1>2

\* The steps of a poll that change the table.
LEMMA PollTableType ==
  ASSUME TypeOK, NEW t \in Threads,
         \/ PollClaim(t) \/ PollFree(t) \/ PollLoad(t) \/ PollOdd(t) \/ PollWrite(t)
         \/ PollEven(t) \/ PollPublish(t)
  PROVE  TypeOK'
<1>0. poll \in [Threads -> PollRec] /\ call \in [Threads -> CallRec]
  BY Zenon DEF TypeOK
<1>1. CASE PollClaim(t)
  <2> DEFINE n == armed[poll[t].slot]
             pc2 == IF Arming(poll[t].snap.period).period > 0 THEN "load" ELSE "free"
  <2>1. n \in Ids
    BY PollGet, Zenon DEF TypeOK
  <2>2. /\ armed' = [armed EXCEPT ![poll[t].slot] = 0]
        /\ UNCHANGED <<clock, owner, gen, payload, call, sets, log, cancelled>>
        /\ \/ NextSlot(t) /\ taken' = taken
           \/ /\ n # 0 /\ taken' = taken \cup {n}
              /\ poll' = [poll EXCEPT ![t].pc = pc2]
    BY <1>1, Zenon DEF PollClaim, PollGoto
  <2>3. Ids' = Ids /\ PollRec' = PollRec /\ CallRec' = CallRec
    BY <2>2 DEF Ids, PollRec, CallRec
  <2>4. 0 \in Ids
    BY DEF TypeOK, Ids
  <2>5. TableOK'
    BY <2>2, <2>3, <2>4 DEF TypeOK, TableOK
  <2>6. HistoryOK'
    BY <2>1, <2>2, <2>3 DEF TypeOK, HistoryOK
  <2>7. poll' \in [Threads -> PollRec]
    <3>1. CASE NextSlot(t)
      BY <3>1, NextSlotType
    <3>2. CASE poll' = [poll EXCEPT ![t].pc = pc2]
      <4>1. poll' = [poll EXCEPT ![t] = [poll[t] EXCEPT !.pc = pc2]]
        BY <3>2, Zenon
      <4>2. pc2 \in PollPcs
        BY DEF PollPcs
      <4> HIDE DEF pc2
      <4>3. [poll[t] EXCEPT !.pc = pc2] \in PollRec
        BY <4>2, PollGet, PollFields, Zenon
      <4> QED BY <4>1, <4>3, PollStore, Zenon
    <3> QED BY <2>2, <3>1, <3>2, Zenon
  <2> QED BY <1>0, <2>2, <2>3, <2>5, <2>6, <2>7, TypeParts, Zenon
<1>2. CASE PollFree(t)
  <2>1. /\ UNCHANGED <<clock, gen, armed, payload, call, log>> /\ UNCHANGED history
        /\ owner' = [owner EXCEPT ![poll[t].slot] = IF @ = poll[t].own THEN NoTimer ELSE @]
        /\ PollGoto(t, "dpc")
    BY <1>2 DEF PollFree, history
  <2>2. TableOK'
    BY <2>1 DEF TypeOK, TableOK, Ids
  <2>3. poll' \in [Threads -> PollRec]
    BY <2>1, PollGotoType, Zenon DEF PollPcs
  <2> QED BY <1>0, <2>1, <2>2, <2>3, HistorySame, TypeParts, Zenon
<1>3. CASE PollLoad(t)
  <2> DEFINE r == [timer |-> Arming(poll[t].snap.dpc).timer, at |-> poll[t].now,
                   delay |-> Arming(poll[t].snap.period).period,
                   period |-> Arming(poll[t].snap.period).period]
             g == gen[poll[t].slot]
             n == Len(log) + 1
  <2>1. /\ log' = Append(log, r)
        /\ poll' = [poll EXCEPT ![t] = [poll[t] EXCEPT !.gen = g, !.pc = "odd", !.id = n]]
        /\ UNCHANGED <<clock, table, call, sets, taken, cancelled>>
    BY <1>3, Zenon DEF PollLoad
  <2>2. \A k \in Ids : /\ Arming(k).timer \in Timers \cup {NoTimer}
                       /\ Arming(k).period \in Nat
    BY ArmingGet
  <2>3. poll[t].snap.dpc \in Ids /\ poll[t].snap.period \in Ids
    <3>1. poll[t].snap["dpc"] \in Ids /\ poll[t].snap["period"] \in Ids
      BY PollGet, Zenon DEF Fields
    <3> QED BY <3>1
  <2>4. r \in ArmingRec
    BY <2>2, <2>3, PollGet DEF ArmingRec
  <2> HIDE DEF r
  <2>5. /\ Ids \subseteq Ids' /\ n \in Ids'
        /\ \A x \in PollRec : x \in PollRec'
        /\ \A x \in CallRec : x \in CallRec'
    BY <2>1, IdsGrow
  <2>6. TableOK'
    BY <2>1, <2>5 DEF TypeOK, TableOK, table
  <2>7. HistoryOK'
    <3>1. log' \in Seq(ArmingRec)
      BY <2>1, <2>4 DEF TypeOK
    <3> QED BY <2>1, <2>5, <3>1 DEF TypeOK, HistoryOK
  <2>8. poll' \in [Threads -> PollRec']
    <3>1. g \in Nat
      BY PollGet, Zenon DEF TypeOK
    <3>2. [poll[t] EXCEPT !.gen = g] \in PollRec
      BY <3>1, PollGet, PollFields, Zenon
    <3>3. [poll[t] EXCEPT !.gen = g, !.pc = "odd"] \in PollRec
      BY <3>2, PollFields, Zenon DEF PollPcs
    <3>4. [poll[t] EXCEPT !.gen = g, !.pc = "odd", !.id = n] \in PollRec'
      BY <3>3, <2>5 DEF PollRec
    <3> HIDE DEF g, n
    <3> QED BY <1>0, <2>1, <2>5, <3>4, Zenon
  <2>9. call' \in [Threads -> CallRec']
    BY <1>0, <2>1, <2>5
  <2> QED BY <2>6, <2>7, <2>8, <2>9, TypeParts, Zenon
<1>4. CASE PollOdd(t) \/ PollEven(t)
  <2>1. /\ UNCHANGED <<clock, owner, armed, payload, call, log>> /\ UNCHANGED history
        /\ PollGoto(t, "write") \/ PollGoto(t, "publish")
        /\ \/ gen' = [gen EXCEPT ![poll[t].slot] = poll[t].gen + 1]
           \/ gen' = [gen EXCEPT ![poll[t].slot] = poll[t].gen + 2]
    <3>1. CASE PollOdd(t)
      BY <3>1, Zenon DEF PollOdd, history
    <3>2. CASE PollEven(t)
      BY <3>2, Zenon DEF PollEven, history
    <3> QED BY <1>4, <3>1, <3>2, Zenon
  <2>2. TableOK'
    <3>1. poll[t].slot \in Slots /\ poll[t].gen + 1 \in Nat /\ poll[t].gen + 2 \in Nat
      BY PollGet
    <3>2. gen' \in [Slots -> Nat]
      BY <2>1, <3>1, Zenon DEF TypeOK
    <3> QED BY <2>1, <3>2 DEF TypeOK, TableOK, Ids
  <2>3. poll' \in [Threads -> PollRec]
    BY <2>1, PollGotoType, Zenon DEF PollPcs
  <2> QED BY <1>0, <2>1, <2>2, <2>3, HistorySame, TypeParts, Zenon
<1>5. CASE PollWrite(t)
  <2> DEFINE f == PeriodOrder[poll[t].i]
             i2 == IF poll[t].i < Len(PeriodOrder) THEN poll[t].i + 1 ELSE 1
             pc2 == IF poll[t].i < Len(PeriodOrder) THEN "write" ELSE "even"
  <2>1. /\ UNCHANGED <<clock, owner, gen, armed, call>> /\ UNCHANGED history
        /\ payload' = [payload EXCEPT ![poll[t].slot][f] = poll[t].id]
        /\ poll' = [poll EXCEPT ![t] = [poll[t] EXCEPT !.i = i2, !.pc = pc2]]
    BY <1>5, Zenon DEF PollWrite
  <2>2. log' = log /\ Ids' = Ids
    BY <2>1 DEF history, Ids
  <2>3. i2 \in 1 .. 5 /\ pc2 \in PollPcs
    BY PollGet, Orders DEF PollPcs
  <2>4. payload' \in [Slots -> [Fields -> Ids]]
    BY <2>1, PollGet DEF TypeOK
  <2>5. TableOK'
    BY <2>1, <2>2, <2>4 DEF TypeOK, TableOK
  <2> HIDE DEF i2, pc2
  <2>6. [poll[t] EXCEPT !.i = i2] \in PollRec
    BY <2>3, PollGet, PollFields, Zenon
  <2>7. [poll[t] EXCEPT !.i = i2, !.pc = pc2] \in PollRec
    BY <2>3, <2>6, PollFields, Zenon
  <2>8. poll' \in [Threads -> PollRec]
    BY <2>1, <2>7, PollStore, Zenon
  <2> QED BY <1>0, <2>1, <2>5, <2>8, HistorySame, TypeParts, Zenon
<1>6. CASE PollPublish(t)
  <2>1. /\ UNCHANGED <<clock, owner, gen, payload, call, log>> /\ UNCHANGED history
        /\ PollGoto(t, "dpc")
        /\ armed' = [armed EXCEPT ![poll[t].slot] = poll[t].id]
    BY <1>6 DEF PollPublish, history
  <2>2. TableOK'
    BY <2>1, PollGet DEF TypeOK, TableOK, Ids
  <2>3. poll' \in [Threads -> PollRec]
    BY <2>1, PollGotoType, Zenon DEF PollPcs
  <2> QED BY <1>0, <2>1, <2>2, <2>3, HistorySame, TypeParts, Zenon
<1> QED BY <1>1, <1>2, <1>3, <1>4, <1>5, <1>6

\* KeSetTimer and KeCancelTimer begin.
LEMMA BeginCallType ==
  ASSUME TypeOK, NEW t \in Threads, NEW k \in Timers,
         \/ CancelTimer(t, k)
         \/ \E d \in Delays, p \in Periods : SetTimer(t, k, d, p)
  PROVE  TypeOK'
<1>0. poll \in [Threads -> PollRec]
  BY Zenon DEF TypeOK
<1>1. CASE CancelTimer(t, k)
  <2> DEFINE x == [IdleCall EXCEPT !.pc = "disarm", !.op = "cancel", !.timer = k]
  <2>1. /\ UNCHANGED <<clock, table, poll>> /\ UNCHANGED history
        /\ call' = [call EXCEPT ![t] = x]
    BY <1>1, Zenon DEF CancelTimer
  <2>2. x \in CallRec
    BY TimerAssumption, IdleTypes DEF IdleCall, CallRec
  <2>3. log' = log
    BY <2>1 DEF history
  <2>4. TableOK'
    BY <2>1, <2>3, TableSame
  <2>5. call' \in [Threads -> CallRec]
    BY <2>1, <2>2, CallStore, Zenon
  <2> QED BY <1>0, <2>1, <2>4, <2>5, HistorySame, TypeParts, Zenon
<1>2. ASSUME NEW d \in Delays, NEW p \in Periods, SetTimer(t, k, d, p)
      PROVE  TypeOK'
  <2> DEFINE x == [IdleCall EXCEPT !.pc = "disarm", !.op = "set", !.timer = k,
                                   !.delay = d, !.period = p]
  <2>1. /\ UNCHANGED <<clock, table, poll, log, taken, cancelled>>
        /\ sets' = sets + 1
        /\ call' = [call EXCEPT ![t] = x]
    BY <1>2, Zenon DEF SetTimer
  <2>2. x \in CallRec
    BY TimerAssumption, IdleTypes DEF IdleCall, CallRec
  <2>3. Ids' = Ids /\ PollRec' = PollRec /\ CallRec' = CallRec
    BY <2>1 DEF Ids, PollRec, CallRec
  <2>4. TableOK'
    BY <2>1, TableSame
  <2>5. HistoryOK'
    BY <2>1, <2>3 DEF TypeOK, HistoryOK
  <2>6. call' \in [Threads -> CallRec]
    BY <2>1, <2>2, CallStore, Zenon
  <2> QED BY <1>0, <2>1, <2>3, <2>4, <2>5, <2>6, TypeParts, Zenon
<1> QED BY <1>1, <1>2

LEMMA AfterDisarmType ==
  ASSUME TypeOK, NEW t \in Threads
  PROVE  AfterDisarm(t) \in CallRec
<1>1. [call[t] EXCEPT !.pc = "find"] \in CallRec
  BY CallGet, CallFields, Zenon DEF CallPcs
<1>2. 0 \in Slots
  BY TimerAssumption DEF Slots
<1>3. [call[t] EXCEPT !.pc = "find", !.slot = 0] \in CallRec
  BY <1>1, <1>2, CallFields, Zenon
<1> QED BY <1>3, IdleTypes, Zenon DEF AfterDisarm

\* The steps of a call that leave the table and the log alone.
LEMMA CallLocalType ==
  ASSUME TypeOK, NEW t \in Threads, DisarmScan(t) \/ ArmFind(t) \/ ArmLoad(t)
  PROVE  TypeOK'
<1>1. UNCHANGED <<clock, table, poll>> /\ UNCHANGED history
  BY Zenon DEF DisarmScan, ArmFind, ArmLoad
<1>2. TableOK' /\ poll' \in [Threads -> PollRec]
  <2>1. log' = log
    BY <1>1 DEF history
  <2>2. poll \in [Threads -> PollRec]
    BY Zenon DEF TypeOK
  <2> QED BY <1>1, <2>1, <2>2, TableSame
<1>3. call' \in [Threads -> CallRec]
  <2>1. CASE DisarmScan(t)
    BY <2>1, CallGotoType, ScanOrType, AfterDisarmType, Zenon DEF DisarmScan, CallPcs
  <2>2. CASE ArmFind(t)
    <3>1. 0 \in Slots
      BY TimerAssumption DEF Slots
    <3>2. [call[t] EXCEPT !.pc = "claim"] \in CallRec
      BY CallGet, CallFields, Zenon DEF CallPcs
    <3>3. [call[t] EXCEPT !.pc = "claim", !.slot = 0] \in CallRec
      BY <3>1, <3>2, CallFields, Zenon
    <3> QED BY <2>2, <3>3, CallGotoType, ScanOrType, Zenon DEF ArmFind, CallPcs
  <2>3. CASE ArmLoad(t)
    <3> DEFINE g == gen[call[t].slot]
    <3>1. call' = [call EXCEPT ![t] = [call[t] EXCEPT !.pc = "odd", !.gen = g]]
      BY <2>3, Zenon DEF ArmLoad
    <3>2. g \in Nat
      BY CallGet, Zenon DEF TypeOK
    <3>3. [call[t] EXCEPT !.pc = "odd"] \in CallRec
      BY CallGet, CallFields, Zenon DEF CallPcs
    <3>4. [call[t] EXCEPT !.pc = "odd", !.gen = g] \in CallRec
      BY <3>2, <3>3, CallFields, Zenon
    <3> QED BY <3>1, <3>4, CallStore, Zenon
  <2> QED BY <2>1, <2>2, <2>3
<1> QED BY <1>1, <1>2, <1>3, HistorySame, TypeParts, Zenon

\* The steps of a call that change the table.
LEMMA CallTableType ==
  ASSUME TypeOK, NEW t \in Threads,
         \/ DisarmTake(t) \/ DisarmFree(t) \/ ArmClaim(t) \/ ArmDrop(t) \/ ArmNow(t)
         \/ ArmOdd(t) \/ ArmWrite(t) \/ ArmEven(t) \/ ArmPublish(t)
  PROVE  TypeOK'
<1>0. poll \in [Threads -> PollRec] /\ call \in [Threads -> CallRec] /\ 0 \in Ids
  BY DEF TypeOK, Ids
<1>1. CASE DisarmTake(t)
  <2> DEFINE n == armed[call[t].slot]
  <2>1. n \in Ids
    BY CallGet, Zenon DEF TypeOK
  <2>2. /\ armed' = [armed EXCEPT ![call[t].slot] = 0]
        /\ taken' = taken \cup ({n} \ {0}) /\ cancelled' = cancelled \cup ({n} \ {0})
        /\ UNCHANGED <<clock, owner, gen, payload, poll, sets, log>>
        /\ CallGoto(t, "release")
    BY <1>1, Zenon DEF DisarmTake
  <2>3. Ids' = Ids /\ PollRec' = PollRec /\ CallRec' = CallRec
    BY <2>2 DEF Ids, PollRec, CallRec
  <2>4. TableOK'
    BY <1>0, <2>2, <2>3 DEF TypeOK, TableOK
  <2>5. HistoryOK'
    BY <2>1, <2>2, <2>3 DEF TypeOK, HistoryOK
  <2>6. call' \in [Threads -> CallRec]
    BY <2>2, CallGotoType, Zenon DEF CallPcs
  <2> QED BY <1>0, <2>2, <2>3, <2>4, <2>5, <2>6, TypeParts, Zenon
<1>2. CASE DisarmFree(t)
  <2>1. /\ UNCHANGED <<clock, gen, armed, payload, poll>> /\ UNCHANGED history
        /\ owner' = [owner EXCEPT ![call[t].slot] =
                       IF @ = call[t].timer THEN NoTimer ELSE @]
        /\ call' = [call EXCEPT ![t] = AfterDisarm(t)]
    BY <1>2, Zenon DEF DisarmFree
  <2>2. log' = log /\ Ids' = Ids
    BY <2>1 DEF history, Ids
  <2>3. TableOK'
    BY <2>1, <2>2 DEF TypeOK, TableOK
  <2>4. call' \in [Threads -> CallRec]
    BY <2>1, AfterDisarmType, CallStore, Zenon
  <2> QED BY <1>0, <2>1, <2>3, <2>4, HistorySame, TypeParts, Zenon
<1>3. CASE ArmClaim(t)
  <2>1. /\ UNCHANGED <<clock, gen, armed, payload, poll>> /\ UNCHANGED history
        /\ \/ /\ owner' = [owner EXCEPT ![call[t].slot] = call[t].timer]
              /\ CallGoto(t, "drop")
           \/ ScanOr(t, IdleCall) /\ owner' = owner
    BY <1>3, Zenon DEF ArmClaim
  <2>2. log' = log /\ Ids' = Ids
    BY <2>1 DEF history, Ids
  <2>3. TableOK'
    BY <2>1, <2>2, CallGet DEF TypeOK, TableOK
  <2>4. call' \in [Threads -> CallRec]
    BY <2>1, CallGotoType, ScanOrType, IdleTypes, Zenon DEF CallPcs
  <2> QED BY <1>0, <2>1, <2>3, <2>4, HistorySame, TypeParts, Zenon
<1>4. CASE ArmDrop(t)
  <2>1. /\ UNCHANGED <<clock, owner, gen, payload, poll>> /\ UNCHANGED history
        /\ armed' = [armed EXCEPT ![call[t].slot] = 0]
        /\ CallGoto(t, "now")
    BY <1>4, Zenon DEF ArmDrop
  <2>2. log' = log /\ Ids' = Ids
    BY <2>1 DEF history, Ids
  <2>3. TableOK'
    BY <1>0, <2>1, <2>2 DEF TypeOK, TableOK
  <2>4. call' \in [Threads -> CallRec]
    BY <2>1, CallGotoType, Zenon DEF CallPcs
  <2> QED BY <1>0, <2>1, <2>3, <2>4, HistorySame, TypeParts, Zenon
<1>5. CASE ArmNow(t)
  <2> DEFINE r == [timer |-> call[t].timer, at |-> clock,
                   delay |-> call[t].delay, period |-> call[t].period]
             n == Len(log) + 1
  <2>1. /\ log' = Append(log, r)
        /\ call' = [call EXCEPT ![t] = [call[t] EXCEPT !.pc = "load", !.id = n]]
        /\ UNCHANGED <<clock, table, poll, sets, taken, cancelled>>
    BY <1>5, Zenon DEF ArmNow
  <2>2. r \in ArmingRec
    BY CallGet DEF TypeOK, ArmingRec
  <2> HIDE DEF r
  <2>3. /\ Ids \subseteq Ids' /\ n \in Ids'
        /\ \A x \in PollRec : x \in PollRec'
        /\ \A x \in CallRec : x \in CallRec'
    BY <2>1, IdsGrow
  <2>4. TableOK'
    BY <2>1, <2>3 DEF TypeOK, TableOK, table
  <2>5. HistoryOK'
    <3>1. log' \in Seq(ArmingRec)
      BY <2>1, <2>2 DEF TypeOK
    <3> QED BY <2>1, <2>3, <3>1 DEF TypeOK, HistoryOK
  <2>6. call' \in [Threads -> CallRec']
    <3>1. [call[t] EXCEPT !.pc = "load"] \in CallRec
      BY CallGet, CallFields, Zenon DEF CallPcs
    <3>2. [call[t] EXCEPT !.pc = "load", !.id = n] \in CallRec'
      BY <3>1, <2>3 DEF CallRec
    <3> HIDE DEF n
    <3> QED BY <1>0, <2>1, <2>3, <3>2, Zenon
  <2>7. poll' \in [Threads -> PollRec']
    BY <1>0, <2>1, <2>3
  <2> QED BY <2>4, <2>5, <2>6, <2>7, TypeParts, Zenon
<1>6. CASE ArmOdd(t) \/ ArmEven(t)
  <2>1. /\ UNCHANGED <<clock, owner, armed, payload, poll>> /\ UNCHANGED history
        /\ CallGoto(t, "write") \/ CallGoto(t, "publish")
        /\ \/ gen' = [gen EXCEPT ![call[t].slot] = call[t].gen + 1]
           \/ gen' = [gen EXCEPT ![call[t].slot] = call[t].gen + 2]
    <3>1. CASE ArmOdd(t)
      BY <3>1, Zenon DEF ArmOdd
    <3>2. CASE ArmEven(t)
      BY <3>2, Zenon DEF ArmEven
    <3> QED BY <1>6, <3>1, <3>2, Zenon
  <2>2. TableOK'
    <3>1. call[t].slot \in Slots /\ call[t].gen + 1 \in Nat /\ call[t].gen + 2 \in Nat
      BY CallGet
    <3>2. gen' \in [Slots -> Nat]
      BY <2>1, <3>1, Zenon DEF TypeOK
    <3>3. log' = log /\ Ids' = Ids
      BY <2>1 DEF history, Ids
    <3> QED BY <2>1, <3>2, <3>3 DEF TypeOK, TableOK
  <2>3. call' \in [Threads -> CallRec]
    BY <2>1, CallGotoType, Zenon DEF CallPcs
  <2> QED BY <1>0, <2>1, <2>2, <2>3, HistorySame, TypeParts, Zenon
<1>7. CASE ArmWrite(t)
  <2> DEFINE f == WriteOrder[call[t].i]
             i2 == IF call[t].i < Len(WriteOrder) THEN call[t].i + 1 ELSE 1
             pc2 == IF call[t].i < Len(WriteOrder) THEN "write" ELSE "even"
  <2>1. /\ UNCHANGED <<clock, owner, gen, armed, poll>> /\ UNCHANGED history
        /\ payload' = [payload EXCEPT ![call[t].slot][f] = call[t].id]
        /\ call' = [call EXCEPT ![t] = [call[t] EXCEPT !.i = i2, !.pc = pc2]]
    BY <1>7, Zenon DEF ArmWrite
  <2>2. log' = log /\ Ids' = Ids
    BY <2>1 DEF history, Ids
  <2>3. i2 \in 1 .. 5 /\ pc2 \in CallPcs
    BY CallGet, Orders DEF CallPcs
  <2>4. payload' \in [Slots -> [Fields -> Ids]]
    BY <2>1, CallGet DEF TypeOK
  <2>5. TableOK'
    BY <2>1, <2>2, <2>4 DEF TypeOK, TableOK
  <2> HIDE DEF i2, pc2
  <2>6. [call[t] EXCEPT !.i = i2] \in CallRec
    BY <2>3, CallGet, CallFields, Zenon
  <2>7. [call[t] EXCEPT !.i = i2, !.pc = pc2] \in CallRec
    BY <2>3, <2>6, CallFields, Zenon
  <2>8. call' \in [Threads -> CallRec]
    BY <2>1, <2>7, CallStore, Zenon
  <2> QED BY <1>0, <2>1, <2>5, <2>8, HistorySame, TypeParts, Zenon
<1>8. CASE ArmPublish(t)
  <2>1. /\ UNCHANGED <<clock, owner, gen, payload, poll>> /\ UNCHANGED history
        /\ armed' = [armed EXCEPT ![call[t].slot] = call[t].id]
        /\ call' = [call EXCEPT ![t] = IdleCall]
    BY <1>8, Zenon DEF ArmPublish
  <2>2. log' = log /\ Ids' = Ids
    BY <2>1 DEF history, Ids
  <2>3. TableOK'
    BY <2>1, <2>2, CallGet DEF TypeOK, TableOK
  <2>4. call' \in [Threads -> CallRec]
    BY <2>1, IdleTypes, CallStore, Zenon
  <2> QED BY <1>0, <2>1, <2>3, <2>4, HistorySame, TypeParts, Zenon
<1> QED BY <1>1, <1>2, <1>3, <1>4, <1>5, <1>6, <1>7, <1>8

LEMMA NextType ==
  ASSUME TypeOK, [Next]_vars
  PROVE  TypeOK'
<1>1. CASE Tick
  <2>1. clock' \in 0 .. Word - 1
    BY <1>1, TimerAssumption DEF Tick, TypeOK
  <2>2. UNCHANGED <<table, poll, call>> /\ UNCHANGED history
    BY <1>1, Zenon DEF Tick
  <2>3. TableOK'
    BY <2>1, <2>2 DEF TypeOK, TableOK, table, history, Ids
  <2>4. poll \in [Threads -> PollRec] /\ call \in [Threads -> CallRec]
    BY Zenon DEF TypeOK
  <2> QED BY <2>2, <2>3, <2>4, HistorySame, TypeParts, Zenon
<1>2. ASSUME NEW t \in Pollers, PollBegin(t) \/ PollStep(t)
      PROVE  TypeOK'
  <2>1. t \in Threads
    BY TimerAssumption
  <2> QED BY <1>2, <2>1, PollLocalType, PollTableType, Zenon DEF PollStep
<1>3. ASSUME NEW t \in Threads, CallStep(t)
      PROVE  TypeOK'
  BY <1>3, CallLocalType, CallTableType, Zenon DEF CallStep
<1>4. ASSUME NEW t \in Threads, NEW k \in Timers,
             \/ CancelTimer(t, k)
             \/ \E d \in Delays, p \in Periods : SetTimer(t, k, d, p)
      PROVE  TypeOK'
  BY <1>4, BeginCallType, Zenon
<1>5. CASE UNCHANGED vars
  BY <1>5 DEF vars, table, history, TypeOK, Ids, PollRec, CallRec, ArmingRec
<1> QED BY <1>1, <1>2, <1>3, <1>4, <1>5, Zenon DEF Next

-----------------------------------------------------------------------------
(* Apart.                                                                  *)

\* The four ways in which a step moves a number.
LEMMA TakeApart ==
  ASSUME NEW a \in [Slots -> Nat], NEW k, NEW c, NEW p, ApartIn(a, k, c, p),
         NEW s \in Slots, NEW k2, k2 \subseteq k \cup {a[s]}
  PROVE  ApartIn([a EXCEPT ![s] = 0], k2, c, p)
BY DEF ApartIn

LEMMA FreshApart ==
  ASSUME NEW a, NEW k, NEW c \in [Threads -> Nat], NEW p \in [Threads -> Nat],
         ApartIn(a, k, c, p), NEW n \in Nat \ {0}, n \notin k, NEW t \in Threads,
         \A s \in Slots : a[s] # n, \A u \in Threads : c[u] # n /\ p[u] # n
  PROVE  /\ ApartIn(a, k, [c EXCEPT ![t] = n], p)
         /\ ApartIn(a, k, c, [p EXCEPT ![t] = n])
BY DEF ApartIn

LEMMA PublishApart ==
  ASSUME NEW a \in [Slots -> Nat], NEW k, NEW c \in [Threads -> Nat],
         NEW p \in [Threads -> Nat], ApartIn(a, k, c, p),
         NEW s \in Slots, NEW t \in Threads
  PROVE  /\ ApartIn([a EXCEPT ![s] = c[t]], k, [c EXCEPT ![t] = 0], p)
         /\ ApartIn([a EXCEPT ![s] = p[t]], k, c, [p EXCEPT ![t] = 0])
BY DEF ApartIn

LEMMA PendingType ==
  ASSUME TypeOK
  PROVE  CallPending \in [Threads -> Ids] /\ PollPending \in [Threads -> Ids]
<1>1. \A t \in Threads : call[t].id \in Ids /\ poll[t].id \in Ids /\ 0 \in Ids
  <2>1. \A t \in Threads : call[t].id \in Ids /\ poll[t].id \in Ids
    BY PollGet, CallGet, Zenon
  <2>2. 0 \in Ids
    BY DEF TypeOK, Ids
  <2> QED BY <2>1, <2>2
<1> QED BY <1>1 DEF CallPending, PollPending

LEMMA IdsNat == ASSUME TypeOK PROVE Len(log) \in Nat /\ Ids \subseteq Nat
BY DEF TypeOK, Ids

\* A poll that is publishing nothing, before the step or after it.
Publishing == {"odd", "write", "even", "publish"}

LEMMA PollPendingSame ==
  ASSUME NEW t \in Threads, poll[t].pc \notin Publishing, poll'[t].pc \notin Publishing,
         \A u \in Threads : u # t => poll'[u] = poll[u]
  PROVE  PollPending' = PollPending
BY DEF PollPending, Publishing

LEMMA NextSlotPc ==
  ASSUME TypeOK, NEW t \in Threads, NextSlot(t)
  PROVE  /\ poll'[t].pc \notin Publishing
         /\ \A u \in Threads : u # t => poll'[u] = poll[u]
<1> DEFINE y == [IdlePoll EXCEPT !.pc = "armed", !.now = poll[t].now,
                                 !.slot = poll[t].slot + 1]
           x == IF poll[t].slot + 1 < NSlots THEN y ELSE IdlePoll
<1>1. poll' = [poll EXCEPT ![t] = x]
  BY Zenon DEF NextSlot
<1>2. y.pc = "armed" /\ IdlePoll.pc = "idle"
  BY DEF IdlePoll
<1>3. x.pc \notin Publishing
  BY <1>2 DEF Publishing
<1> HIDE DEF x
<1> QED BY <1>1, <1>3 DEF TypeOK

LEMMA PollGotoPc ==
  ASSUME TypeOK, NEW t \in Threads, NEW v, PollGoto(t, v)
  PROVE  /\ poll'[t].pc = v
         /\ \A u \in Threads : u # t => poll'[u] = poll[u]
<1>1. poll' = [poll EXCEPT ![t] = [poll[t] EXCEPT !.pc = v]]
  BY Zenon DEF PollGoto
<1>2. poll[t] \in PollRec
  BY PollGet
<1>3. [poll[t] EXCEPT !.pc = v].pc = v
  BY <1>2 DEF PollRec
<1> QED BY <1>1, <1>3, Zenon DEF TypeOK

LEMMA PollApart ==
  ASSUME IInv, NEW t \in Threads, PollBegin(t) \/ PollStep(t)
  PROVE  Apart'
<1> USE DEF IInv
<1>0. /\ armed \in [Slots -> Nat] /\ poll[t].slot \in Slots
      /\ CallPending \in [Threads -> Nat] /\ PollPending \in [Threads -> Nat]
  <2>1. armed \in [Slots -> Ids]
    BY Zenon DEF TypeOK
  <2> QED BY <2>1, PendingType, IdsNat, PollGet
<1>1. ASSUME UNCHANGED <<armed, taken, call>>, PollPending' = PollPending
      PROVE  Apart'
  BY <1>1 DEF Apart, CallPending
<1>2. CASE PollBegin(t)
  <2>1. PollPending' = PollPending
    BY <1>2 DEF PollBegin, AtPoll, TypeOK, PollPending
  <2> QED BY <1>1, <1>2, <2>1 DEF PollBegin, table, history
<1>3. CASE PollArmed(t)
  <2>1. PollPending' = PollPending
    BY <1>3, NextSlotPc, PollGotoPc, PollPendingSame DEF PollArmed, AtPoll, Publishing
  <2> QED BY <1>1, <1>3, <2>1 DEF PollArmed, table, history
<1>4. CASE PollGen(t)
  <2>1. PollPending' = PollPending
    <3>1. CASE NextSlot(t)
      BY <1>4, <3>1, NextSlotPc, PollPendingSame DEF PollGen, AtPoll, Publishing
    <3>2. CASE poll' = [poll EXCEPT ![t].pc = "read", ![t].gen = gen[poll[t].slot]]
      BY <1>4, <3>2 DEF PollGen, AtPoll, PollPending, TypeOK
    <3> QED BY <1>4, <3>1, <3>2, Zenon DEF PollGen
  <2> QED BY <1>1, <1>4, <2>1 DEF PollGen, table, history
<1>5. CASE PollRead(t)
  <2>1. PollPending' = PollPending
    <3>1. \A u \in Threads : u # t => poll'[u] = poll[u]
      BY <1>5 DEF PollRead, TypeOK
    <3> DEFINE f == ReadOrder[poll[t].i]
               w == payload[poll[t].slot][f]
               i == IF poll[t].i < Len(ReadOrder) THEN poll[t].i + 1 ELSE 1
               c == IF poll[t].i < Len(ReadOrder) THEN "read" ELSE "owner"
               r == [poll[t] EXCEPT !.snap[f] = w, !.i = i, !.pc = c]
    <3>2. poll[t].pc = "read" /\ poll'[t].pc \in {"read", "owner"}
      <4>1. poll' = [poll EXCEPT ![t].snap[f] = w, ![t].i = i, ![t].pc = c]
        BY <1>5, Zenon DEF PollRead
      <4>2. c \in {"read", "owner"} /\ poll \in [Threads -> PollRec]
        BY DEF TypeOK
      <4> HIDE DEF f, w, i, c
      <4>3. poll'[t].pc = c
        BY <4>1, <4>2 DEF PollRec
      <4> QED
        BY <1>5, <4>2, <4>3 DEF PollRead, AtPoll
    <3> QED
      BY <3>1, <3>2, PollPendingSame DEF Publishing
  <2> QED BY <1>1, <1>5, <2>1 DEF PollRead, table, history
<1>6. CASE PollOwner(t)
  <2>1. PollPending' = PollPending
    BY <1>6 DEF PollOwner, AtPoll, TypeOK, PollPending
  <2> QED BY <1>1, <1>6, <2>1 DEF PollOwner, table, history
<1>7. CASE PollCheck(t)
  <2>1. PollPending' = PollPending
    <3>1. NextSlot(t) \/ PollGoto(t, "claim")
      BY <1>7, Zenon DEF PollCheck
    <3> QED BY <1>7, <3>1, NextSlotPc, PollGotoPc, PollPendingSame
            DEF PollCheck, AtPoll, Publishing
  <2> QED BY <1>1, <1>7, <2>1 DEF PollCheck, table, history
<1>8. CASE DpcReturn(t)
  <2>1. PollPending' = PollPending
    BY <1>8 DEF DpcReturn, AtPoll, TypeOK, PollPending, NextSlot, IdlePoll
  <2> QED BY <1>1, <1>8, <2>1 DEF DpcReturn, table, history
<1>9. CASE PollFree(t)
  <2>1. PollPending' = PollPending
    BY <1>9 DEF PollFree, AtPoll, TypeOK, PollPending, PollGoto
  <2> QED BY <1>1, <1>9, <2>1 DEF PollFree, history
<1>10. CASE PollOdd(t)
  <2>1. PollPending' = PollPending
    BY <1>10 DEF PollOdd, AtPoll, TypeOK, PollPending, PollGoto
  <2> QED BY <1>1, <1>10, <2>1 DEF PollOdd, history
<1>11. CASE PollWrite(t)
  <2>1. PollPending' = PollPending
    BY <1>11 DEF PollWrite, AtPoll, TypeOK, PollPending
  <2> QED BY <1>1, <1>11, <2>1 DEF PollWrite, history
<1>12. CASE PollEven(t)
  <2>1. PollPending' = PollPending
    BY <1>12 DEF PollEven, AtPoll, TypeOK, PollPending, PollGoto
  <2> QED BY <1>1, <1>12, <2>1 DEF PollEven, history
<1>13. CASE PollClaim(t)
  <2>1. PollPending' = PollPending
    <3> DEFINE pc2 == IF Arming(poll[t].snap.period).period > 0 THEN "load" ELSE "free"
    <3>1. CASE NextSlot(t)
      BY <1>13, <3>1, NextSlotPc, PollPendingSame DEF PollClaim, AtPoll, Publishing
    <3>2. CASE poll' = [poll EXCEPT ![t].pc = pc2]
      <4>1. pc2 \notin Publishing
        BY DEF Publishing
      <4> HIDE DEF pc2
      <4> QED BY <1>13, <3>2, <4>1 DEF PollClaim, AtPoll, PollPending, Publishing, TypeOK
    <3> QED BY <1>13, <3>1, <3>2, Zenon DEF PollClaim, PollGoto
  <2>2. CallPending' = CallPending
    BY <1>13 DEF PollClaim, CallPending
  <2>3. /\ armed' = [armed EXCEPT ![poll[t].slot] = 0]
        /\ taken' \subseteq taken \cup {armed[poll[t].slot]}
    BY <1>13, Zenon DEF PollClaim
  <2> QED BY <1>0, <2>1, <2>2, <2>3, TakeApart DEF Apart
<1>14. CASE PollLoad(t)
  <2> DEFINE n == Len(log) + 1
  <2>1. PollPending' = [PollPending EXCEPT ![t] = n]
    <3>0. /\ poll'[t].pc = "odd" /\ poll'[t].id = n
          /\ \A u \in Threads : u # t => poll'[u] = poll[u]
      BY <1>14, PollGet DEF PollLoad, TypeOK
    <3>1. \A u \in Threads : PollPending'[u] = IF u = t THEN n ELSE PollPending[u]
      BY <3>0 DEF PollPending
    <3> QED BY <3>1 DEF PollPending
  <2>2. CallPending' = CallPending /\ UNCHANGED <<armed, taken>>
    BY <1>14 DEF PollLoad, CallPending, table
  <2>3. n \in Nat \ {0} /\ n \notin Ids
    BY IdsNat DEF Ids
  <2>4. /\ n \notin taken /\ \A s \in Slots : armed[s] # n
        /\ \A u \in Threads : CallPending[u] # n /\ PollPending[u] # n
    BY <2>3, PendingType, Zenon DEF TypeOK
  <2> HIDE DEF n
  <2> QED BY <1>0, <2>1, <2>2, <2>3, <2>4, FreshApart DEF Apart
<1>15. CASE PollPublish(t)
  <2>1. PollPending' = [PollPending EXCEPT ![t] = 0]
    <3>1. \A u \in Threads : PollPending'[u] = IF u = t THEN 0 ELSE PollPending[u]
      BY <1>15 DEF PollPublish, PollGoto, AtPoll, TypeOK, PollPending
    <3> QED BY <3>1 DEF PollPending
  <2>2. CallPending' = CallPending /\ taken' = taken
    BY <1>15 DEF PollPublish, CallPending, history
  <2>3. armed' = [armed EXCEPT ![poll[t].slot] = PollPending[t]]
    BY <1>15 DEF PollPublish, PollPending, AtPoll
  <2> QED BY <1>0, <2>1, <2>2, <2>3, PublishApart DEF Apart
<1> QED BY <1>2, <1>3, <1>4, <1>5, <1>6, <1>7, <1>8, <1>9, <1>10, <1>11, <1>12,
           <1>13, <1>14, <1>15, Zenon DEF PollStep

\* A call that is publishing nothing, before the step or after it.
CallPublishing == {"load", "odd", "write", "even", "publish"}

LEMMA CallPendingSame ==
  ASSUME NEW t \in Threads, call[t].pc \notin CallPublishing,
         call'[t].pc \notin CallPublishing,
         \A u \in Threads : u # t => call'[u] = call[u]
  PROVE  CallPending' = CallPending
BY DEF CallPending, CallPublishing

LEMMA CallGotoPc ==
  ASSUME TypeOK, NEW t \in Threads, NEW v, CallGoto(t, v)
  PROVE  /\ call'[t].pc = v
         /\ \A u \in Threads : u # t => call'[u] = call[u]
<1>1. call' = [call EXCEPT ![t] = [call[t] EXCEPT !.pc = v]]
  BY Zenon DEF CallGoto
<1>2. call[t] \in CallRec
  BY CallGet
<1>3. [call[t] EXCEPT !.pc = v].pc = v
  BY <1>2 DEF CallRec
<1> QED BY <1>1, <1>3, Zenon DEF TypeOK

LEMMA ScanOrPc ==
  ASSUME TypeOK, NEW t \in Threads, NEW next, ScanOr(t, next)
  PROVE  /\ call'[t].pc \in {call[t].pc, next.pc}
         /\ \A u \in Threads : u # t => call'[u] = call[u]
<1> DEFINE y == [call[t] EXCEPT !.slot = call[t].slot + 1]
           x == IF call[t].slot + 1 < NSlots THEN y ELSE next
<1>1. call' = [call EXCEPT ![t] = x]
  BY Zenon DEF ScanOr
<1>2. call[t] \in CallRec
  BY CallGet
<1>3. y.pc = call[t].pc
  BY <1>2 DEF CallRec
<1>4. x.pc \in {call[t].pc, next.pc}
  BY <1>3
<1> HIDE DEF x
<1> QED BY <1>1, <1>4 DEF TypeOK

LEMMA AfterDisarmPc ==
  ASSUME TypeOK, NEW t \in Threads
  PROVE  AfterDisarm(t).pc \in {"idle", "find"}
<1>1. call[t] \in CallRec
  BY CallGet
<1>2. [call[t] EXCEPT !.pc = "find", !.slot = 0].pc = "find"
  BY <1>1 DEF CallRec
<1> QED BY <1>2 DEF AfterDisarm, IdleCall

LEMMA CallApart ==
  ASSUME IInv, NEW t \in Threads, CallStep(t)
  PROVE  Apart'
<1> USE DEF IInv
<1>0. /\ armed \in [Slots -> Nat] /\ call[t].slot \in Slots
      /\ CallPending \in [Threads -> Nat] /\ PollPending \in [Threads -> Nat]
  <2>1. armed \in [Slots -> Ids]
    BY Zenon DEF TypeOK
  <2> QED BY <2>1, PendingType, IdsNat, CallGet
<1>1. ASSUME UNCHANGED <<armed, taken, poll>>, CallPending' = CallPending
      PROVE  Apart'
  BY <1>1 DEF Apart, PollPending
<1>2. CASE DisarmScan(t)
  <2>1. CallGoto(t, "take") \/ ScanOr(t, AfterDisarm(t))
    BY <1>2, Zenon DEF DisarmScan
  <2>2. CallPending' = CallPending
    BY <1>2, <2>1, CallGotoPc, ScanOrPc, AfterDisarmPc, CallPendingSame
    DEF DisarmScan, AtCall, CallPublishing
  <2> QED BY <1>1, <1>2, <2>2 DEF DisarmScan, table, history
<1>3. CASE DisarmTake(t)
  <2>1. CallPending' = CallPending
    BY <1>3, CallGotoPc, CallPendingSame DEF DisarmTake, AtCall, CallPublishing
  <2>2. PollPending' = PollPending
    BY <1>3 DEF DisarmTake, PollPending
  <2>3. /\ armed' = [armed EXCEPT ![call[t].slot] = 0]
        /\ taken' \subseteq taken \cup {armed[call[t].slot]}
    BY <1>3, Zenon DEF DisarmTake
  <2> QED BY <1>0, <2>1, <2>2, <2>3, TakeApart DEF Apart
<1>4. CASE DisarmFree(t)
  <2>1. call' = [call EXCEPT ![t] = AfterDisarm(t)]
    BY <1>4, Zenon DEF DisarmFree
  <2>2. CallPending' = CallPending
    BY <1>4, <2>1, AfterDisarmPc, CallPendingSame
    DEF DisarmFree, AtCall, CallPublishing, TypeOK
  <2> QED BY <1>1, <1>4, <2>2 DEF DisarmFree, history
<1>5. CASE ArmFind(t)
  <2> DEFINE r == [call[t] EXCEPT !.pc = "claim", !.slot = 0]
  <2>1. CallGoto(t, "drop") \/ ScanOr(t, r)
    BY <1>5, Zenon DEF ArmFind
  <2>2. r.pc = "claim"
    BY CallGet DEF CallRec
  <2> HIDE DEF r
  <2>3. CallPending' = CallPending
    BY <1>5, <2>1, <2>2, CallGotoPc, ScanOrPc, CallPendingSame
    DEF ArmFind, AtCall, CallPublishing
  <2> QED BY <1>1, <1>5, <2>3 DEF ArmFind, table, history
<1>6. CASE ArmClaim(t)
  <2>1. CallGoto(t, "drop") \/ ScanOr(t, IdleCall)
    BY <1>6, Zenon DEF ArmClaim
  <2>2. CallPending' = CallPending
    BY <1>6, <2>1, CallGotoPc, ScanOrPc, CallPendingSame
    DEF ArmClaim, AtCall, CallPublishing, IdleCall
  <2> QED BY <1>1, <1>6, <2>2 DEF ArmClaim, history
<1>7. CASE ArmDrop(t)
  <2>1. CallPending' = CallPending
    BY <1>7, CallGotoPc, CallPendingSame DEF ArmDrop, AtCall, CallPublishing
  <2>2. PollPending' = PollPending /\ taken' \subseteq taken \cup {armed[call[t].slot]}
    BY <1>7 DEF ArmDrop, PollPending, history
  <2>3. armed' = [armed EXCEPT ![call[t].slot] = 0]
    BY <1>7, Zenon DEF ArmDrop
  <2> QED BY <1>0, <2>1, <2>2, <2>3, TakeApart DEF Apart
<1>8. CASE ArmNow(t)
  <2> DEFINE n == Len(log) + 1
  <2>1. CallPending' = [CallPending EXCEPT ![t] = n]
    <3>1. \A u \in Threads : CallPending'[u] = IF u = t THEN n ELSE CallPending[u]
      BY <1>8 DEF ArmNow, AtCall, TypeOK, CallPending
    <3> QED BY <3>1 DEF CallPending
  <2>2. PollPending' = PollPending /\ UNCHANGED <<armed, taken>>
    BY <1>8 DEF ArmNow, PollPending, table
  <2>3. n \in Nat \ {0} /\ n \notin Ids
    BY IdsNat DEF Ids
  <2>4. /\ n \notin taken /\ \A s \in Slots : armed[s] # n
        /\ \A u \in Threads : CallPending[u] # n /\ PollPending[u] # n
    BY <2>3, PendingType, Zenon DEF TypeOK
  <2> HIDE DEF n
  <2> QED BY <1>0, <2>1, <2>2, <2>3, <2>4, FreshApart DEF Apart
<1>9. CASE ArmLoad(t)
  <2>1. CallPending' = CallPending
    BY <1>9 DEF ArmLoad, AtCall, TypeOK, CallPending
  <2> QED BY <1>1, <1>9, <2>1 DEF ArmLoad, table, history
<1>10. CASE ArmOdd(t)
  <2>1. CallPending' = CallPending
    BY <1>10 DEF ArmOdd, AtCall, CallGoto, TypeOK, CallPending
  <2> QED BY <1>1, <1>10, <2>1 DEF ArmOdd, history
<1>11. CASE ArmWrite(t)
  <2>1. CallPending' = CallPending
    <3>1. \A u \in Threads : u # t => call'[u] = call[u]
      BY <1>11 DEF ArmWrite, TypeOK
    <3>2. /\ call[t].pc = "write" /\ call'[t].pc \in {"write", "even"}
          /\ call'[t].id = call[t].id
      BY <1>11 DEF ArmWrite, AtCall, TypeOK
    <3> QED
      BY <3>1, <3>2 DEF CallPending
  <2> QED BY <1>1, <1>11, <2>1 DEF ArmWrite, history
<1>12. CASE ArmEven(t)
  <2>1. CallPending' = CallPending
    BY <1>12 DEF ArmEven, AtCall, CallGoto, TypeOK, CallPending
  <2> QED BY <1>1, <1>12, <2>1 DEF ArmEven, history
<1>13. CASE ArmPublish(t)
  <2>1. CallPending' = [CallPending EXCEPT ![t] = 0]
    <3>1. \A u \in Threads : CallPending'[u] = IF u = t THEN 0 ELSE CallPending[u]
      BY <1>13 DEF ArmPublish, IdleCall, TypeOK, CallPending
    <3> QED BY <3>1 DEF CallPending
  <2>2. PollPending' = PollPending /\ taken' = taken
    BY <1>13 DEF ArmPublish, PollPending, history
  <2>3. armed' = [armed EXCEPT ![call[t].slot] = CallPending[t]]
    BY <1>13 DEF ArmPublish, CallPending, AtCall
  <2> QED BY <1>0, <2>1, <2>2, <2>3, PublishApart DEF Apart
<1> QED BY <1>2, <1>3, <1>4, <1>5, <1>6, <1>7, <1>8, <1>9, <1>10, <1>11, <1>12, <1>13,
           Zenon DEF CallStep

LEMMA NextApart ==
  ASSUME IInv, [Next]_vars
  PROVE  Apart'
<1> USE DEF IInv
<1>1. ASSUME UNCHANGED <<armed, taken, poll>>, CallPending' = CallPending
      PROVE  Apart'
  BY <1>1 DEF Apart, PollPending
<1>2. CASE Tick
  BY <1>1, <1>2 DEF Tick, table, history, CallPending
<1>3. ASSUME NEW t \in Pollers, PollBegin(t) \/ PollStep(t)
      PROVE  Apart'
  BY <1>3, PollApart, TimerAssumption, Zenon
<1>4. ASSUME NEW t \in Threads, CallStep(t)
      PROVE  Apart'
  BY <1>4, CallApart, Zenon
<1>5. ASSUME NEW t \in Threads, NEW k \in Timers, CancelTimer(t, k)
      PROVE  Apart'
  <2>1. CallPending' = CallPending
    BY <1>5 DEF CancelTimer, AtCall, TypeOK, CallPending, IdleCall
  <2> QED BY <1>1, <1>5, <2>1 DEF CancelTimer, table, history
<1>6. ASSUME NEW t \in Threads, NEW k \in Timers, NEW d \in Delays, NEW p \in Periods,
             SetTimer(t, k, d, p)
      PROVE  Apart'
  <2>1. CallPending' = CallPending
    BY <1>6 DEF SetTimer, AtCall, TypeOK, CallPending, IdleCall
  <2> QED BY <1>1, <1>6, <2>1 DEF SetTimer, table
<1>7. CASE UNCHANGED vars
  BY <1>1, <1>7 DEF vars, table, history, CallPending
<1> QED BY <1>2, <1>3, <1>4, <1>5, <1>6, <1>7, Zenon DEF Next

-----------------------------------------------------------------------------
(* The theorems.                                                           *)

\* The invariant that carries TypeOK and TakenOnce: no arming's number is in
\* two places among the table, the writers and the armings taken.
THEOREM Invariance == Spec => []IInv
<1>1. Init => IInv
  <2>1. ASSUME Init PROVE Apart
    BY <2>1 DEF Init, Apart, ApartIn, CallPending, PollPending, IdlePoll, IdleCall
  <2> QED BY <2>1, InitType DEF IInv
<1>2. IInv /\ [Next]_vars => IInv'
  BY NextType, NextApart DEF IInv
<1> QED BY <1>1, <1>2, PTL DEF Spec

\* Type correctness, for any table, threads and timers.
THEOREM TypeCorrect == Spec => []TypeOK
<1>1. IInv => TypeOK
  BY DEF IInv
<1> QED BY <1>1, Invariance, PTL

\* However many threads poll, set and cancel, and whatever DPCs set again, at
\* most one exchange takes an arming: "EXACTLY ONE thread can observe the old
\* value 1".
THEOREM OneClaim == Spec => []TakenOnce
<1>1. IInv => TakenOnce
  BY DEF IInv, Apart, ApartIn, TakenOnce
<1> QED BY <1>1, Invariance, PTL

-----------------------------------------------------------------------------
(* Snapshots.  With one thread that sets timers, and one-shots, gen is the *)
(* generation of a sequence lock: it has one writer.                       *)

\* What the theorem is about: one thread sets timers, no DPC does, and none is
\* periodic.
OneSetterOneShots ==
  /\ \A t, u \in Threads : Setters[t] # {} /\ Setters[u] # {} => t = u
  /\ Rearmed = {} /\ Periods \subseteq {0}

\* Where a call arms a timer.
ArmingPcs == {"find", "claim", "drop", "now", "load", "odd", "write", "even", "publish"}
WritingPcs == {"write", "even"}

\* A call with registers r of a thread that sets the timers S, against the
\* generations g and the payloads p: it writes at the odd generation that
\* follows the one it loaded, field after field.
Caller(r, S, g, p) ==
  /\ r.pc # "idle" /\ r.op = "set" => S # {}
  /\ r.pc \in ArmingPcs => r.op = "set"
  /\ r.pc # "write" => r.i = 1
  /\ r.pc = "odd" => g[r.slot] = r.gen
  /\ r.pc \in WritingPcs => g[r.slot] = r.gen + 1
  /\ r.pc = "odd" \/ r.pc \in WritingPcs => r.gen % 2 = 0
  /\ r.pc = "write" => \A k \in 1 .. 5 : k < r.i => p[r.slot][WriteOrder[k]] = r.id
  /\ r.pc = "even" => \A f \in Fields : p[r.slot][f] = r.id

PeriodPcs == {"load", "odd", "write", "even", "publish"}

\* A poll with registers r: as long as the generation is the one it loaded, what
\* it has read is what the slot still holds.
Poller(r, g, p) ==
  /\ r.pc \notin PeriodPcs
  /\ r.pc # "read" => r.i = 1
  /\ r.pc \in {"read", "owner", "check"} =>
       /\ r.gen % 2 = 0 /\ r.gen =< g[r.slot]
       /\ g[r.slot] = r.gen =>
            \A k \in 1 .. 5 : (r.pc = "read" => k < r.i) =>
              r.snap[ReadOrder[k]] = p[r.slot][ReadOrder[k]]
  /\ r.pc \in {"claim", "free", "dpc"} => \A f \in Fields : r.snap[f] = r.snap.deadline

\* An odd generation has its writer, and at an even one the payload is whole.
OddHasWriter ==
  \A s \in Slots : gen[s] % 2 = 1 =>
    \E t \in Threads : call[t].slot = s /\ call[t].pc \in WritingPcs

EvenIsWhole ==
  \A s \in Slots : gen[s] % 2 = 0 => \A f \in Fields : payload[s][f] = payload[s].deadline

OneShots == \A n \in 1 .. Len(log) : log[n].period = 0

Callers == \A t \in Threads : Caller(call[t], Setters[t], gen, payload)
PollersOK == \A t \in Threads : Poller(poll[t], gen, payload)

BracketInv == OneShots /\ OddHasWriter /\ EvenIsWhole /\ Callers /\ PollersOK

\* Both orders visit every field.
LEMMA OrdersCover ==
  /\ \A f \in Fields : \E k \in 1 .. 5 : f = WriteOrder[k]
  /\ \A f \in Fields : \E k \in 1 .. 5 : f = ReadOrder[k]
<1>1. /\ WriteOrder[1] = "dpc" /\ WriteOrder[2] = "period" /\ WriteOrder[3] = "deadline"
      /\ WriteOrder[4] = "armed_at" /\ WriteOrder[5] = "delay"
  BY DEF WriteOrder
<1>2. /\ ReadOrder[1] = "deadline" /\ ReadOrder[2] = "dpc" /\ ReadOrder[3] = "period"
      /\ ReadOrder[4] = "armed_at" /\ ReadOrder[5] = "delay"
  BY DEF ReadOrder
<1>3. 1 \in 1 .. 5 /\ 2 \in 1 .. 5 /\ 3 \in 1 .. 5 /\ 4 \in 1 .. 5 /\ 5 \in 1 .. 5
  OBVIOUS
<1> QED BY <1>1, <1>2, <1>3, Zenon DEF Fields

LEMMA IdleCaller == \A S, g, p : Caller(IdleCall, S, g, p)
<1>1. IdleCall.pc = "idle" /\ IdleCall.i = 1
  BY DEF IdleCall
<1> QED BY <1>1 DEF Caller, ArmingPcs, WritingPcs

LEMMA IdlePoller == \A g, p : Poller(IdlePoll, g, p)
<1>1. IdlePoll.pc = "idle" /\ IdlePoll.i = 1
  BY DEF IdlePoll
<1> QED BY <1>1 DEF Poller, PeriodPcs

LEMMA BracketInit == Init => BracketInv
<1> SUFFICES ASSUME Init PROVE BracketInv
  OBVIOUS
<1>1. OneShots
  BY DEF Init, OneShots
<1>2. /\ \A s \in Slots : gen[s] = 0 /\ \A f \in Fields : payload[s][f] = 0
      /\ \A t \in Threads : call[t] = IdleCall /\ poll[t] = IdlePoll
  BY Zenon DEF Init
<1>3. OddHasWriter
  BY <1>2 DEF OddHasWriter
<1>4. EvenIsWhole
  BY <1>2 DEF EvenIsWhole, Fields
<1>5. Callers
  BY <1>2, IdleCaller, Zenon DEF Callers
<1>6. PollersOK
  BY <1>2, IdlePoller, Zenon DEF PollersOK
<1> QED BY <1>1, <1>3, <1>4, <1>5, <1>6 DEF BracketInv

-----------------------------------------------------------------------------
(* The polls.                                                              *)

\* A step of one poll that writes neither generations nor payloads.
LEMMA PollKeeps ==
  ASSUME TypeOK, BracketInv, NEW t \in Threads, NEW x, poll' = [poll EXCEPT ![t] = x],
         Poller(x, gen, payload), UNCHANGED <<gen, payload, call, log>>
  PROVE  BracketInv'
<1>1. \A u \in Threads : poll'[u] = IF u = t THEN x ELSE poll[u]
  BY Zenon DEF TypeOK
<1>2. PollersOK'
  BY <1>1, Zenon DEF BracketInv, PollersOK
<1>3. OneShots' /\ OddHasWriter' /\ EvenIsWhole' /\ Callers'
  BY Zenon DEF BracketInv, OneShots, OddHasWriter, EvenIsWhole, Callers
<1> QED BY <1>2, <1>3 DEF BracketInv

\* The registers of a poll that goes to the next slot.
LEMMA NextSlotKeeps ==
  ASSUME TypeOK, BracketInv, NEW t \in Threads, NextSlot(t),
         UNCHANGED <<gen, payload, call, log>>
  PROVE  BracketInv'
<1> DEFINE y == [IdlePoll EXCEPT !.pc = "armed", !.now = poll[t].now,
                                 !.slot = poll[t].slot + 1]
           x == IF poll[t].slot + 1 < NSlots THEN y ELSE IdlePoll
<1>1. poll' = [poll EXCEPT ![t] = x]
  BY Zenon DEF NextSlot
<1>2. y.pc = "armed" /\ y.i = 1 /\ IdlePoll.pc = "idle" /\ IdlePoll.i = 1
  BY DEF IdlePoll
<1>3. Poller(y, gen, payload) /\ Poller(IdlePoll, gen, payload)
  BY <1>2 DEF Poller, PeriodPcs
<1>4. Poller(x, gen, payload)
  BY <1>3, Zenon
<1> HIDE DEF x
<1> QED BY <1>1, <1>4, PollKeeps

LEMMA GotoKeeps ==
  ASSUME TypeOK, BracketInv, NEW t \in Threads, NEW v \in {"gen", "claim", "free", "dpc"},
         PollGoto(t, v), poll[t].pc # "read",
         v = "gen" \/ \A f \in Fields : poll[t].snap[f] = poll[t].snap.deadline,
         UNCHANGED <<gen, payload, call, log>>
  PROVE  BracketInv'
<1> DEFINE x == [poll[t] EXCEPT !.pc = v]
<1>1. poll' = [poll EXCEPT ![t] = x]
  BY Zenon DEF PollGoto
<1>2. x.pc = v /\ x.i = poll[t].i /\ x.snap = poll[t].snap
  BY PollGet DEF PollRec
<1>3. poll[t].i = 1
  BY DEF BracketInv, PollersOK, Poller
<1> HIDE DEF x
<1>4. Poller(x, gen, payload)
  BY <1>2, <1>3 DEF Poller, PeriodPcs
<1> QED BY <1>1, <1>4, PollKeeps

\* A poll that reads one word of the payload.
LEMMA ReadKeeps ==
  ASSUME TypeOK, BracketInv, NEW t \in Threads, PollRead(t)
  PROVE  BracketInv'
<1> DEFINE r == poll[t]
           f == ReadOrder[r.i]
           sn == [r.snap EXCEPT ![f] = payload[r.slot][f]]
           i2 == IF r.i < Len(ReadOrder) THEN r.i + 1 ELSE 1
           pc2 == IF r.i < Len(ReadOrder) THEN "read" ELSE "owner"
           x == [r EXCEPT !.snap = sn, !.i = i2, !.pc = pc2]
<1>1. poll' = [poll EXCEPT ![t] = x]
  BY Zenon DEF PollRead
<1>2. /\ r \in PollRec /\ r.i \in 1 .. 5 /\ r.snap \in [Fields -> Ids] /\ r.slot \in Slots
      /\ r.gen \in Nat
  BY PollGet
<1>3. x.snap = sn /\ x.i = i2 /\ x.pc = pc2 /\ x.gen = r.gen /\ x.slot = r.slot
  BY <1>2 DEF PollRec
<1>4. \A k \in 1 .. 5 : sn[ReadOrder[k]] = IF ReadOrder[k] = f THEN payload[r.slot][f]
                                           ELSE r.snap[ReadOrder[k]]
  BY <1>2, Orders, Zenon
<1>5. r.pc = "read" /\ Poller(r, gen, payload)
  BY Zenon DEF PollRead, AtPoll, BracketInv, PollersOK
<1> HIDE DEF sn, r
<1>6. /\ r.gen % 2 = 0 /\ r.gen =< gen[r.slot]
      /\ gen[r.slot] = r.gen =>
           \A k \in 1 .. 5 : k < r.i => r.snap[ReadOrder[k]] = payload[r.slot][ReadOrder[k]]
  BY <1>5 DEF Poller
<1>7. gen[r.slot] = r.gen =>
        \A k \in 1 .. 5 : k =< r.i => sn[ReadOrder[k]] = payload[r.slot][ReadOrder[k]]
  <2> SUFFICES ASSUME gen[r.slot] = r.gen, NEW k \in 1 .. 5, k =< r.i
               PROVE  sn[ReadOrder[k]] = payload[r.slot][ReadOrder[k]]
    OBVIOUS
  <2>1. k < r.i \/ k = r.i
    BY <1>2
  <2> QED BY <1>4, <1>6, <2>1
<1>8. \/ r.i < 5 /\ i2 = r.i + 1 /\ pc2 = "read"
      \/ r.i = 5 /\ i2 = 1 /\ pc2 = "owner"
  BY <1>2, Orders
<1> HIDE DEF x, i2, pc2
<1>9. Poller(x, gen, payload)
  <2>1. x.pc \in {"read", "owner"} /\ (x.pc # "read" => x.i = 1)
    BY <1>3, <1>8
  <2>2. gen[x.slot] = x.gen =>
          \A k \in 1 .. 5 : (x.pc = "read" => k < x.i) =>
            x.snap[ReadOrder[k]] = payload[x.slot][ReadOrder[k]]
    <3> SUFFICES ASSUME gen[x.slot] = x.gen, NEW k \in 1 .. 5, x.pc = "read" => k < x.i
                 PROVE  x.snap[ReadOrder[k]] = payload[x.slot][ReadOrder[k]]
      OBVIOUS
    <3>1. k =< r.i
      BY <1>2, <1>3, <1>8
    <3> QED BY <1>3, <1>7, <3>1
  <2> QED BY <1>3, <1>6, <2>1, <2>2 DEF Poller, PeriodPcs
<1>10. UNCHANGED <<gen, payload, call, log>>
  BY DEF PollRead, table, history
<1> QED BY <1>1, <1>9, <1>10, PollKeeps

LEMMA ReadsKeep ==
  ASSUME TypeOK, BracketInv, OneSetterOneShots, NEW t \in Threads, PollBegin(t) \/ PollStep(t)
  PROVE  BracketInv'
<1> DEFINE r == poll[t]
<1>0. /\ r \in PollRec /\ r.slot \in Slots /\ r.gen \in Nat /\ r.snap \in [Fields -> Ids]
      /\ Poller(r, gen, payload) /\ r.pc \notin PeriodPcs
  BY PollGet DEF BracketInv, PollersOK, Poller
<1>1. CASE PollBegin(t)
  <2> DEFINE x == [poll[t] EXCEPT !.pc = "armed", !.now = clock]
  <2>1. poll' = [poll EXCEPT ![t] = x]
    BY <1>1, Zenon DEF PollBegin
  <2>2. r.pc = "idle" /\ UNCHANGED <<gen, payload, call, log>>
    BY <1>1 DEF PollBegin, AtPoll, table, history
  <2>3. x.pc = "armed" /\ x.i = r.i
    BY <1>0 DEF PollRec
  <2>4. r.i = 1
    BY <1>0, <2>2 DEF Poller
  <2> HIDE DEF x
  <2>5. Poller(x, gen, payload)
    BY <2>3, <2>4 DEF Poller, PeriodPcs
  <2> QED BY <2>1, <2>2, <2>5, PollKeeps
<1>2. CASE PollArmed(t)
  <2>1. (NextSlot(t) \/ PollGoto(t, "gen")) /\ r.pc = "armed" /\ UNCHANGED <<gen, payload, call, log>>
    BY <1>2 DEF PollArmed, AtPoll, table, history
  <2> QED BY <2>1, NextSlotKeeps, GotoKeeps
<1>3. CASE PollGen(t)
  <2> DEFINE g == gen[r.slot]
             x == [poll[t] EXCEPT !.pc = "read", !.gen = g]
  <2>1. r.pc = "gen" /\ UNCHANGED <<gen, payload, call, log>>
    BY <1>3 DEF PollGen, AtPoll, table, history
  <2>2. CASE NextSlot(t)
    BY <2>1, <2>2, NextSlotKeeps
  <2>3. CASE ~ (g % 2 = 1) /\ poll' = [poll EXCEPT ![t].pc = "read", ![t].gen = g]
    <3>1. poll' = [poll EXCEPT ![t] = x]
      BY <2>3, Zenon
    <3>2. x.pc = "read" /\ x.gen = g /\ x.i = r.i /\ x.slot = r.slot
      BY <1>0 DEF PollRec
    <3>3. g \in Nat /\ r.i = 1
      BY <1>0, <2>1 DEF Poller, TypeOK
    <3>4. g % 2 = 0 /\ g =< g
      BY <2>3, <3>3
    <3> HIDE DEF x
    <3>5. Poller(x, gen, payload)
      BY <3>2, <3>3, <3>4 DEF Poller, PeriodPcs
    <3> QED BY <2>1, <3>1, <3>5, PollKeeps
  <2> QED BY <1>3, <2>2, <2>3, Zenon DEF PollGen
<1>4. CASE PollRead(t)
  BY <1>4, ReadKeeps
<1>5. CASE PollOwner(t)
  <2> DEFINE x == [poll[t] EXCEPT !.own = owner[r.slot], !.pc = "check"]
  <2>1. poll' = [poll EXCEPT ![t] = x]
    BY <1>5, Zenon DEF PollOwner
  <2>2. r.pc = "owner" /\ UNCHANGED <<gen, payload, call, log>>
    BY <1>5 DEF PollOwner, AtPoll, table, history
  <2>3. x.pc = "check" /\ x.gen = r.gen /\ x.i = r.i /\ x.slot = r.slot /\ x.snap = r.snap
    BY <1>0 DEF PollRec
  <2> HIDE DEF x
  <2>4. Poller(x, gen, payload)
    BY <1>0, <2>2, <2>3 DEF Poller, PeriodPcs
  <2> QED BY <2>1, <2>2, <2>4, PollKeeps
<1>6. CASE PollCheck(t)
  <2>1. r.pc = "check" /\ UNCHANGED <<gen, payload, call, log>>
    BY <1>6 DEF PollCheck, AtPoll, table, history
  <2>2. CASE NextSlot(t)
    BY <2>1, <2>2, NextSlotKeeps
  <2>3. CASE gen[r.slot] = r.gen /\ PollGoto(t, "claim")
    <3>1. gen[r.slot] % 2 = 0 /\ \A k \in 1 .. 5 : r.snap[ReadOrder[k]] = payload[r.slot][ReadOrder[k]]
      BY <1>0, <2>1, <2>3 DEF Poller
    <3>2. ASSUME NEW f \in Fields PROVE r.snap[f] = payload[r.slot][f]
      <4>1. PICK k \in 1 .. 5 : f = ReadOrder[k]
        BY OrdersCover
      <4>2. r.snap[ReadOrder[k]] = payload[r.slot][ReadOrder[k]]
        BY <3>1
      <4> QED BY <4>1, <4>2
    <3>3. \A f \in Fields : payload[r.slot][f] = payload[r.slot].deadline
      BY <1>0, <3>1 DEF BracketInv, EvenIsWhole
    <3>4. \A f \in Fields : r.snap[f] = r.snap.deadline
      <4>1. r.snap.deadline = payload[r.slot].deadline
        BY <3>2 DEF Fields
      <4> QED BY <3>2, <3>3, <4>1
    <3> QED BY <2>1, <2>3, <3>4, GotoKeeps
  <2> QED BY <1>6, <2>2, <2>3, Zenon DEF PollCheck
<1>7. CASE PollClaim(t)
  <2>1. r.pc = "claim" /\ UNCHANGED <<gen, payload, call, log>>
    BY <1>7 DEF PollClaim, AtPoll
  <2>2. CASE NextSlot(t)
    BY <2>1, <2>2, NextSlotKeeps
  <2>3. CASE PollGoto(t, IF Arming(r.snap.period).period > 0 THEN "load" ELSE "free")
    <3>1. r.snap.period \in Ids
      BY <1>0 DEF Fields
    <3>2. Arming(r.snap.period).period = 0
      <4>1. r.snap.period = 0 \/ r.snap.period \in 1 .. Len(log)
        BY <3>1 DEF Ids, TypeOK
      <4> QED BY <4>1 DEF Arming, NoArming, BracketInv, OneShots
    <3>3. PollGoto(t, "free")
      BY <2>3, <3>2
    <3>4. \A f \in Fields : r.snap[f] = r.snap.deadline
      BY <1>0, <2>1 DEF Poller
    <3> QED BY <2>1, <3>3, <3>4, GotoKeeps
  <2> QED BY <1>7, <2>2, <2>3, Zenon DEF PollClaim
<1>8. CASE PollFree(t)
  <2>1. r.pc = "free" /\ PollGoto(t, "dpc") /\ UNCHANGED <<gen, payload, call, log>>
    BY <1>8 DEF PollFree, AtPoll, history
  <2>2. \A f \in Fields : r.snap[f] = r.snap.deadline
    BY <1>0, <2>1 DEF Poller
  <2> QED BY <2>1, <2>2, GotoKeeps
<1>9. CASE DpcReturn(t)
  <2>1. NextSlot(t) /\ UNCHANGED <<gen, payload, call, log>>
    BY <1>9 DEF DpcReturn, table, history
  <2> QED BY <2>1, NextSlotKeeps
<1>10. ~ (PollLoad(t) \/ PollOdd(t) \/ PollWrite(t) \/ PollEven(t) \/ PollPublish(t))
  BY <1>0 DEF PollLoad, PollOdd, PollWrite, PollEven, PollPublish, AtPoll, PeriodPcs
<1> QED BY <1>1, <1>2, <1>3, <1>4, <1>5, <1>6, <1>7, <1>8, <1>9, <1>10, Zenon DEF PollStep


-----------------------------------------------------------------------------
(* The calls.                                                              *)

\* One thread at a time arms.
LEMMA OthersDoNotArm ==
  ASSUME OneSetterOneShots, BracketInv, NEW t \in Threads, call[t].pc \in ArmingPcs
  PROVE  \A u \in Threads \ {t} : call[u].pc \notin ArmingPcs
<1>1. \A u \in Threads : call[u].pc \in ArmingPcs => Setters[u] # {}
  BY DEF BracketInv, Callers, Caller, ArmingPcs
<1> QED BY <1>1 DEF OneSetterOneShots

\* A step of one call that writes neither generations nor payloads.
LEMMA CallKeeps ==
  ASSUME TypeOK, BracketInv, NEW t \in Threads, NEW x, call' = [call EXCEPT ![t] = x],
         call[t].pc \notin WritingPcs, Caller(x, Setters[t], gen, payload),
         UNCHANGED <<gen, payload, poll, log>>
  PROVE  BracketInv'
<1>1. \A u \in Threads : call'[u] = IF u = t THEN x ELSE call[u]
  BY Zenon DEF TypeOK
<1>2. Callers'
  BY <1>1, Zenon DEF BracketInv, Callers
<1>3. OddHasWriter'
  <2> SUFFICES ASSUME NEW s \in Slots, gen[s] % 2 = 1
               PROVE  \E u \in Threads : call'[u].slot = s /\ call'[u].pc \in WritingPcs
    BY DEF OddHasWriter
  <2>1. PICK u \in Threads : call[u].slot = s /\ call[u].pc \in WritingPcs
    BY DEF BracketInv, OddHasWriter
  <2>2. u # t
    BY <2>1
  <2> QED BY <1>1, <2>1, <2>2, Zenon
<1>4. OneShots' /\ EvenIsWhole' /\ PollersOK'
  BY Zenon DEF BracketInv, OneShots, EvenIsWhole, PollersOK
<1> QED BY <1>2, <1>3, <1>4 DEF BracketInv

\* Registers that are not in the middle of the writing.
LEMMA Standby ==
  ASSUME NEW x, NEW S, NEW g, NEW p, x.pc \notin {"odd", "write", "even"}, x.i = 1,
         x.pc # "idle" /\ x.op = "set" => S # {}, x.pc \in ArmingPcs => x.op = "set"
  PROVE  Caller(x, S, g, p)
BY DEF Caller, WritingPcs

LEMMA CallGotoKeeps ==
  ASSUME TypeOK, BracketInv, NEW t \in Threads, NEW v, CallGoto(t, v),
         v \notin {"idle", "odd", "write", "even"}, v \in ArmingPcs => call[t].pc \in ArmingPcs,
         call[t].pc \notin WritingPcs, call[t].pc # "idle",
         UNCHANGED <<gen, payload, poll, log>>
  PROVE  BracketInv'
<1> DEFINE r == call[t]
           x == [call[t] EXCEPT !.pc = v]
<1>1. call' = [call EXCEPT ![t] = x]
  BY Zenon DEF CallGoto
<1>2. r \in CallRec /\ Caller(r, Setters[t], gen, payload)
  BY CallGet DEF BracketInv, Callers
<1>3. x.pc = v /\ x.i = r.i /\ x.op = r.op
  BY <1>2 DEF CallRec
<1>4. /\ r.i = 1 /\ (r.op = "set" => Setters[t] # {})
      /\ v \in ArmingPcs => r.op = "set"
  BY <1>2 DEF Caller, WritingPcs
<1> HIDE DEF x, r
<1>5. Caller(x, Setters[t], gen, payload)
  BY <1>3, <1>4, Standby
<1> QED BY <1>1, <1>5, CallKeeps

LEMMA ScanKeeps ==
  ASSUME TypeOK, BracketInv, NEW t \in Threads, NEW next, ScanOr(t, next),
         Caller(next, Setters[t], gen, payload),
         call[t].pc \in {"disarm", "find", "claim"},
         UNCHANGED <<gen, payload, poll, log>>
  PROVE  BracketInv'
<1> DEFINE r == call[t]
           y == [call[t] EXCEPT !.slot = call[t].slot + 1]
           x == IF call[t].slot + 1 < NSlots THEN y ELSE next
<1>1. call' = [call EXCEPT ![t] = x]
  BY Zenon DEF ScanOr
<1>2. r \in CallRec /\ Caller(r, Setters[t], gen, payload)
  BY CallGet DEF BracketInv, Callers
<1>3. y.pc = r.pc /\ y.i = r.i /\ y.op = r.op
  BY <1>2 DEF CallRec
<1>4. Caller(y, Setters[t], gen, payload)
  <2>1. /\ r.i = 1 /\ (r.op = "set" => Setters[t] # {})
        /\ r.pc \in ArmingPcs => r.op = "set"
    BY <1>2 DEF Caller, WritingPcs
  <2> HIDE DEF y, r
  <2> QED BY <1>3, <2>1, Standby DEF r
<1>5. Caller(x, Setters[t], gen, payload) /\ call[t].pc \notin WritingPcs
  BY <1>4 DEF WritingPcs
<1> HIDE DEF x
<1> QED BY <1>1, <1>5, CallKeeps

\* What a call that disarms goes on with.
LEMMA AfterDisarmIs ==
  ASSUME TypeOK, BracketInv, NEW t \in Threads, call[t].pc \in {"disarm", "release"}
  PROVE  Caller(AfterDisarm(t), Setters[t], gen, payload)
<1> DEFINE r == call[t]
           y == [call[t] EXCEPT !.pc = "find", !.slot = 0]
<1>1. r \in CallRec /\ Caller(r, Setters[t], gen, payload)
  BY CallGet DEF BracketInv, Callers
<1>2. y.pc = "find" /\ y.i = r.i /\ y.op = r.op /\ r.op \in {"set", "cancel"}
  BY <1>1 DEF CallRec
<1>3. r.i = 1 /\ (r.op = "set" => Setters[t] # {})
  BY <1>1 DEF Caller
<1>4. r.op # "cancel" => Caller(y, Setters[t], gen, payload)
  <2> HIDE DEF y, r
  <2> QED BY <1>2, <1>3, Standby
<1> QED BY <1>4, IdleCaller DEF AfterDisarm

LEMMA PollerPassed ==
  ASSUME NEW g \in [Slots -> Nat], NEW h \in [Slots -> Nat], NEW p, NEW q, NEW s \in Slots,
         NEW r, r.slot \in Slots, r.gen \in Nat, Poller(r, g, p),
         \A v \in Slots \ {s} : h[v] = g[v] /\ q[v] = p[v],
         g[s] < h[s] \/ (g[s] = h[s] /\ h[s] % 2 = 1)
  PROVE  Poller(r, h, q)
<1>1. CASE r.slot # s
  <2>1. h[r.slot] = g[r.slot] /\ q[r.slot] = p[r.slot]
    BY <1>1
  <2> QED BY <2>1 DEF Poller
<1>2. CASE r.slot = s
  <2>1. g[s] \in Nat /\ h[s] \in Nat
    OBVIOUS
  <2>2. r.pc \in {"read", "owner", "check"} => r.gen % 2 = 0 /\ r.gen =< h[s] /\ h[s] # r.gen
    BY <1>2, <2>1 DEF Poller
  <2> QED BY <1>2, <2>2 DEF Poller
<1> QED BY <1>1, <1>2

\* The steps of the writing: they touch one slot, whose writer is the thread.
LEMMA WriteKeeps ==
  ASSUME TypeOK, TypeOK', BracketInv, OneSetterOneShots, NEW t \in Threads,
         call[t].pc \in {"odd", "write", "even"}, NEW x, call' = [call EXCEPT ![t] = x],
         x.slot = call[t].slot, Caller(x, Setters[t], gen', payload'),
         \A v \in Slots \ {x.slot} : gen'[v] = gen[v] /\ payload'[v] = payload[v],
         \/ gen[x.slot] < gen'[x.slot]
         \/ gen[x.slot] = gen'[x.slot] /\ gen'[x.slot] % 2 = 1,
         gen'[x.slot] % 2 = 1 => x.pc \in WritingPcs,
         gen'[x.slot] % 2 = 0 =>
           \A f \in Fields : payload'[x.slot][f] = payload'[x.slot].deadline,
         UNCHANGED <<poll, log>>
  PROVE  BracketInv'
<1> DEFINE s == x.slot
<1>0. s \in Slots /\ gen \in [Slots -> Nat] /\ gen' \in [Slots -> Nat]
  BY CallGet DEF TypeOK
<1>1. \A u \in Threads : call'[u] = IF u = t THEN x ELSE call[u]
  BY Zenon DEF TypeOK
<1>2. Callers'
  <2> SUFFICES ASSUME NEW u \in Threads PROVE Caller(call'[u], Setters[u], gen', payload')
    BY DEF Callers
  <2>1. CASE u = t
    BY <1>1, <2>1
  <2>2. CASE u # t
    <3>1. call'[u] = call[u] /\ call[u].pc \notin ArmingPcs
      BY <1>1, <2>2, OthersDoNotArm DEF ArmingPcs
    <3>2. Caller(call[u], Setters[u], gen, payload)
      BY DEF BracketInv, Callers
    <3>3. Caller(call[u], Setters[u], gen', payload')
      BY <3>1, <3>2 DEF Caller, ArmingPcs, WritingPcs
    <3> QED BY <3>1, <3>3
  <2> QED BY <2>1, <2>2
<1>3. OddHasWriter'
  <2> SUFFICES ASSUME NEW v \in Slots, gen'[v] % 2 = 1
               PROVE  \E u \in Threads : call'[u].slot = v /\ call'[u].pc \in WritingPcs
    BY DEF OddHasWriter
  <2>1. CASE v = s
    BY <1>1, <2>1
  <2>2. CASE v # s
    <3>1. gen[v] % 2 = 1
      BY <2>2
    <3>2. PICK u \in Threads : call[u].slot = v /\ call[u].pc \in WritingPcs
      BY <3>1 DEF BracketInv, OddHasWriter
    <3>3. u # t
      BY <2>2, <3>2
    <3> QED BY <1>1, <3>2, <3>3
  <2> QED BY <2>1, <2>2
<1>4. EvenIsWhole'
  <2> SUFFICES ASSUME NEW v \in Slots, gen'[v] % 2 = 0
               PROVE  \A f \in Fields : payload'[v][f] = payload'[v].deadline
    BY DEF EvenIsWhole
  <2>1. CASE v = s
    BY <2>1
  <2>2. CASE v # s
    BY <2>2 DEF BracketInv, EvenIsWhole
  <2> QED BY <2>1, <2>2
<1>5. PollersOK'
  <2> SUFFICES ASSUME NEW u \in Threads PROVE Poller(poll[u], gen', payload')
    BY DEF PollersOK
  <2>1. poll[u].slot \in Slots /\ poll[u].gen \in Nat /\ Poller(poll[u], gen, payload)
    BY PollGet DEF BracketInv, PollersOK
  <2>2. CASE poll[u].slot # s
    <3>1. gen'[poll[u].slot] = gen[poll[u].slot] /\ payload'[poll[u].slot] = payload[poll[u].slot]
      BY <2>1, <2>2
    <3> QED BY <2>1, <3>1 DEF Poller
  <2>3. CASE poll[u].slot = s
    <3>1. gen[s] \in Nat /\ gen'[s] \in Nat
      BY <1>0
    <3>2. poll[u].pc \in {"read", "owner", "check"} =>
            poll[u].gen % 2 = 0 /\ poll[u].gen =< gen'[s] /\ gen'[s] # poll[u].gen
      BY <2>1, <2>3, <3>1 DEF Poller
    <3> HIDE DEF s
    <3> QED BY <2>1, <2>3, <3>2 DEF Poller
  <2> QED BY <2>2, <2>3
<1>6. OneShots'
  BY DEF BracketInv, OneShots
<1> QED BY <1>2, <1>3, <1>4, <1>5, <1>6 DEF BracketInv

LEMMA OddKeeps ==
  ASSUME TypeOK, TypeOK', BracketInv, OneSetterOneShots, NEW t \in Threads, ArmOdd(t)
  PROVE  BracketInv'
<1> DEFINE r == call[t]
           x == [call[t] EXCEPT !.pc = "write"]
<1>1. call' = [call EXCEPT ![t] = x] /\ gen' = [gen EXCEPT ![r.slot] = r.gen + 1]
  BY Zenon DEF ArmOdd, CallGoto
<1>2. r.pc = "odd" /\ UNCHANGED <<payload, poll, log>>
  BY DEF ArmOdd, AtCall, history
<1>3. /\ r \in CallRec /\ r.slot \in Slots /\ r.gen \in Nat /\ Caller(r, Setters[t], gen, payload)
      /\ gen \in [Slots -> Nat]
  BY CallGet DEF BracketInv, Callers, TypeOK
<1>4. x.pc = "write" /\ x.i = r.i /\ x.op = r.op /\ x.slot = r.slot /\ x.gen = r.gen /\ x.id = r.id
  BY <1>3 DEF CallRec
<1>5. /\ r.i = 1 /\ r.op = "set" /\ Setters[t] # {} /\ gen[r.slot] = r.gen /\ r.gen % 2 = 0
  BY <1>2, <1>3 DEF Caller, ArmingPcs, WritingPcs
<1>6. gen'[r.slot] = r.gen + 1 /\ (r.gen + 1) % 2 = 1 /\ \A v \in Slots \ {r.slot} : gen'[v] = gen[v]
  BY <1>1, <1>3, <1>5
<1> HIDE DEF x, r
<1>7. Caller(x, Setters[t], gen', payload')
  BY <1>4, <1>5, <1>6 DEF Caller, ArmingPcs, WritingPcs
<1>8. gen[r.slot] < gen'[r.slot] /\ x.pc \in WritingPcs /\ gen'[x.slot] % 2 # 0
  BY <1>3, <1>4, <1>5, <1>6 DEF WritingPcs
<1>9. /\ call[t].pc \in {"odd", "write", "even"} /\ x.slot = call[t].slot
      /\ \A v \in Slots \ {x.slot} : gen'[v] = gen[v] /\ payload'[v] = payload[v]
  BY <1>2, <1>4, <1>6 DEF r
<1> QED BY <1>1, <1>2, <1>4, <1>7, <1>8, <1>9, WriteKeeps

LEMMA WordKeeps ==
  ASSUME TypeOK, TypeOK', BracketInv, OneSetterOneShots, NEW t \in Threads, ArmWrite(t)
  PROVE  BracketInv'
<1> DEFINE r == call[t]
           i2 == IF r.i < Len(WriteOrder) THEN r.i + 1 ELSE 1
           pc2 == IF r.i < Len(WriteOrder) THEN "write" ELSE "even"
           x == [call[t] EXCEPT !.i = i2, !.pc = pc2]
           f == WriteOrder[r.i]
<1>1. /\ call' = [call EXCEPT ![t] = x]
      /\ payload' = [payload EXCEPT ![r.slot] = [payload[r.slot] EXCEPT ![f] = r.id]]
  BY Zenon DEF ArmWrite
<1>2. r.pc = "write" /\ UNCHANGED <<gen, poll, log>>
  BY DEF ArmWrite, AtCall, history
<1>3. /\ r \in CallRec /\ r.slot \in Slots /\ r.gen \in Nat /\ r.i \in 1 .. 5
      /\ Caller(r, Setters[t], gen, payload)
      /\ payload \in [Slots -> [Fields -> Ids]] /\ gen \in [Slots -> Nat]
  BY CallGet DEF BracketInv, Callers, TypeOK
<1>4. /\ x.pc = pc2 /\ x.i = i2 /\ x.op = r.op /\ x.slot = r.slot /\ x.gen = r.gen
      /\ x.id = r.id
  BY <1>3 DEF CallRec
<1>5. /\ r.op = "set" /\ Setters[t] # {} /\ gen[r.slot] = r.gen + 1 /\ r.gen % 2 = 0
      /\ \A k \in 1 .. 5 : k < r.i => payload[r.slot][WriteOrder[k]] = r.id
  BY <1>2, <1>3 DEF Caller, ArmingPcs, WritingPcs
<1>6. /\ f \in Fields
      /\ \A g \in Fields : payload'[r.slot][g] = IF g = f THEN r.id ELSE payload[r.slot][g]
      /\ \A v \in Slots \ {r.slot} : payload'[v] = payload[v]
  <2>1. f \in Fields
    BY <1>3, Orders
  <2>2. payload[r.slot] \in [Fields -> Ids]
    BY <1>3
  <2> HIDE DEF f
  <2> QED BY <1>1, <1>3, <2>1, <2>2, Zenon
<1>7. \A k \in 1 .. 5 : k =< r.i => payload'[r.slot][WriteOrder[k]] = r.id
  <2> SUFFICES ASSUME NEW k \in 1 .. 5, k =< r.i
               PROVE  payload'[r.slot][WriteOrder[k]] = r.id
    OBVIOUS
  <2>1. (k < r.i \/ k = r.i) /\ WriteOrder[k] \in Fields
    BY <1>3, Orders
  <2> QED BY <1>5, <1>6, <2>1
<1>8. \/ r.i < 5 /\ i2 = r.i + 1 /\ pc2 = "write"
      \/ r.i = 5 /\ i2 = 1 /\ pc2 = "even"
  BY <1>3, Orders
<1> HIDE DEF x, r, i2, pc2, f
<1>9. pc2 = "even" => \A g \in Fields : payload'[r.slot][g] = r.id
  <2> SUFFICES ASSUME pc2 = "even", NEW g \in Fields PROVE payload'[r.slot][g] = r.id
    OBVIOUS
  <2>1. PICK k \in 1 .. 5 : g = WriteOrder[k]
    BY OrdersCover
  <2>2. k =< r.i
    BY <1>8
  <2> QED BY <1>7, <2>1, <2>2
<1>10. Caller(x, Setters[t], gen', payload')
  <2>1. x.pc \in WritingPcs /\ x.pc \in ArmingPcs /\ x.pc # "odd" /\ x.pc # "idle"
    BY <1>4, <1>8 DEF WritingPcs, ArmingPcs
  <2>2. x.pc # "write" => x.i = 1
    BY <1>4, <1>8
  <2>3. x.pc = "write" => \A k \in 1 .. 5 : k < x.i => payload'[x.slot][WriteOrder[k]] = x.id
    BY <1>3, <1>4, <1>7, <1>8
  <2>4. x.pc = "even" => \A g \in Fields : payload'[x.slot][g] = x.id
    BY <1>4, <1>9
  <2>5. gen'[x.slot] = x.gen + 1 /\ x.gen % 2 = 0 /\ x.op = "set"
    BY <1>2, <1>4, <1>5
  <2> QED BY <1>5, <2>1, <2>2, <2>3, <2>4, <2>5 DEF Caller
<1>11. gen[x.slot] = gen'[x.slot] /\ gen'[x.slot] % 2 = 1 /\ x.pc \in WritingPcs
  <2>1. (r.gen + 1) % 2 = 1
    <3>1. r.gen \in Nat /\ r.gen % 2 = 0
      BY <1>3, <1>5
    <3>2. \A n \in Nat : n % 2 = 0 => (n + 1) % 2 = 1
      OBVIOUS
    <3> QED BY <3>1, <3>2
  <2> QED BY <1>2, <1>4, <1>5, <1>8, <2>1 DEF WritingPcs
<1>12. gen'[x.slot] % 2 # 0
  BY <1>11
<1>13. /\ call[t].pc \in {"odd", "write", "even"} /\ x.slot = call[t].slot
       /\ \A v \in Slots \ {x.slot} : gen'[v] = gen[v] /\ payload'[v] = payload[v]
  BY <1>2, <1>4, <1>6 DEF r
<1> QED BY <1>1, <1>2, <1>10, <1>11, <1>12, <1>13, WriteKeeps

LEMMA EvenKeeps ==
  ASSUME TypeOK, TypeOK', BracketInv, OneSetterOneShots, NEW t \in Threads, ArmEven(t)
  PROVE  BracketInv'
<1> DEFINE r == call[t]
           x == [call[t] EXCEPT !.pc = "publish"]
<1>1. call' = [call EXCEPT ![t] = x] /\ gen' = [gen EXCEPT ![r.slot] = r.gen + 2]
  BY Zenon DEF ArmEven, CallGoto
<1>2. r.pc = "even" /\ UNCHANGED <<payload, poll, log>>
  BY DEF ArmEven, AtCall, history
<1>3. /\ r \in CallRec /\ r.slot \in Slots /\ r.gen \in Nat /\ Caller(r, Setters[t], gen, payload)
      /\ gen \in [Slots -> Nat]
  BY CallGet DEF BracketInv, Callers, TypeOK
<1>4. x.pc = "publish" /\ x.i = r.i /\ x.op = r.op /\ x.slot = r.slot
  BY <1>3 DEF CallRec
<1>5. /\ r.i = 1 /\ r.op = "set" /\ Setters[t] # {} /\ gen[r.slot] = r.gen + 1 /\ r.gen % 2 = 0
      /\ \A f \in Fields : payload[r.slot][f] = r.id
  BY <1>2, <1>3 DEF Caller, ArmingPcs, WritingPcs
<1>6. gen'[r.slot] = r.gen + 2 /\ (r.gen + 2) % 2 = 0 /\ \A v \in Slots \ {r.slot} : gen'[v] = gen[v]
  BY <1>1, <1>3, <1>5
<1> HIDE DEF x, r
<1>7. Caller(x, Setters[t], gen', payload')
  BY <1>4, <1>5, Standby
<1>8. gen[r.slot] < gen'[r.slot] /\ ~ (gen'[x.slot] % 2 = 1)
  BY <1>3, <1>4, <1>5, <1>6
<1>9. \A f \in Fields : payload'[x.slot][f] = payload'[x.slot].deadline
  <2>1. payload[r.slot].deadline = r.id
    BY <1>5 DEF Fields
  <2> QED BY <1>2, <1>4, <1>5, <2>1
<1>10. /\ call[t].pc \in {"odd", "write", "even"} /\ x.slot = call[t].slot
       /\ \A v \in Slots \ {x.slot} : gen'[v] = gen[v] /\ payload'[v] = payload[v]
  BY <1>2, <1>4, <1>6 DEF r
<1> QED BY <1>1, <1>2, <1>4, <1>7, <1>8, <1>9, <1>10, WriteKeeps

LEMMA CallsKeep ==
  ASSUME TypeOK, TypeOK', BracketInv, OneSetterOneShots, NEW t \in Threads, CallStep(t)
  PROVE  BracketInv'
<1> DEFINE r == call[t]
<1>0. r \in CallRec /\ r.period \in Periods \cup {0} /\ Caller(r, Setters[t], gen, payload)
  BY CallGet DEF BracketInv, Callers, CallRec
<1>1. CASE DisarmScan(t)
  <2>1. /\ r.pc = "disarm" /\ (CallGoto(t, "take") \/ ScanOr(t, AfterDisarm(t)))
        /\ UNCHANGED <<gen, payload, poll, log>>
    BY <1>1 DEF DisarmScan, AtCall, table, history
  <2>2. CASE CallGoto(t, "take")
    BY <2>1, <2>2, CallGotoKeeps DEF ArmingPcs, WritingPcs
  <2>3. CASE ScanOr(t, AfterDisarm(t))
    BY <2>1, <2>3, ScanKeeps, AfterDisarmIs
  <2> QED BY <2>1, <2>2, <2>3
<1>2. CASE DisarmTake(t)
  <2>1. r.pc = "take" /\ CallGoto(t, "release") /\ UNCHANGED <<gen, payload, poll, log>>
    BY <1>2 DEF DisarmTake, AtCall
  <2> QED BY <2>1, CallGotoKeeps DEF ArmingPcs, WritingPcs
<1>3. CASE DisarmFree(t)
  <2>1. /\ r.pc = "release" /\ call' = [call EXCEPT ![t] = AfterDisarm(t)]
        /\ UNCHANGED <<gen, payload, poll, log>>
    BY <1>3 DEF DisarmFree, AtCall, history
  <2> QED BY <2>1, AfterDisarmIs, CallKeeps DEF WritingPcs
<1>4. CASE ArmFind(t)
  <2> DEFINE y == [call[t] EXCEPT !.pc = "claim", !.slot = 0]
  <2>1. /\ r.pc = "find" /\ (CallGoto(t, "drop") \/ ScanOr(t, y))
        /\ UNCHANGED <<gen, payload, poll, log>>
    BY <1>4 DEF ArmFind, AtCall, table, history
  <2>2. CASE CallGoto(t, "drop")
    BY <2>1, <2>2, CallGotoKeeps DEF ArmingPcs, WritingPcs
  <2>3. CASE ScanOr(t, y)
    <3>1. y.pc = "claim" /\ y.i = r.i /\ y.op = r.op
      BY <1>0 DEF CallRec
    <3>2. r.i = 1 /\ r.op = "set" /\ Setters[t] # {}
      BY <1>0, <2>1 DEF Caller, ArmingPcs
    <3> HIDE DEF y
    <3>3. Caller(y, Setters[t], gen, payload)
      BY <3>1, <3>2, Standby
    <3> QED BY <2>1, <2>3, <3>3, ScanKeeps
  <2> QED BY <2>1, <2>2, <2>3
<1>5. CASE ArmClaim(t)
  <2>1. /\ r.pc = "claim" /\ (CallGoto(t, "drop") \/ ScanOr(t, IdleCall))
        /\ UNCHANGED <<gen, payload, poll, log>>
    BY <1>5 DEF ArmClaim, AtCall, history
  <2>2. CASE CallGoto(t, "drop")
    BY <2>1, <2>2, CallGotoKeeps DEF ArmingPcs, WritingPcs
  <2>3. CASE ScanOr(t, IdleCall)
    BY <2>1, <2>3, ScanKeeps, IdleCaller
  <2> QED BY <2>1, <2>2, <2>3
<1>6. CASE ArmDrop(t)
  <2>1. r.pc = "drop" /\ CallGoto(t, "now") /\ UNCHANGED <<gen, payload, poll, log>>
    BY <1>6 DEF ArmDrop, AtCall, history
  <2> QED BY <2>1, CallGotoKeeps DEF ArmingPcs, WritingPcs
<1>7. CASE ArmNow(t)
  <2> DEFINE x == [call[t] EXCEPT !.pc = "load", !.id = Len(log) + 1]
             a == [timer |-> r.timer, at |-> clock, delay |-> r.delay, period |-> r.period]
  <2>1. call' = [call EXCEPT ![t] = x] /\ log' = Append(log, a)
    BY <1>7, Zenon DEF ArmNow
  <2>2. r.pc = "now" /\ UNCHANGED <<gen, payload, poll>>
    BY <1>7 DEF ArmNow, AtCall, table
  <2>3. x.pc = "load" /\ x.i = r.i /\ x.op = r.op
    BY <1>0 DEF CallRec
  <2>4. r.i = 1 /\ r.op = "set" /\ Setters[t] # {}
    BY <1>0, <2>2 DEF Caller, ArmingPcs
  <2>5. OneShots'
    <3>1. a.period = 0
      BY <1>0 DEF OneSetterOneShots
    <3>2. log \in Seq(ArmingRec) /\ \A n \in 1 .. Len(log) : log[n].period = 0
      BY DEF TypeOK, BracketInv, OneShots
    <3> HIDE DEF a
    <3>3. \A n \in 1 .. Len(log') : log'[n] = a \/ (n \in 1 .. Len(log) /\ log'[n] = log[n])
      BY <2>1, <3>2
    <3> QED BY <3>1, <3>2, <3>3 DEF OneShots
  <2> HIDE DEF x
  <2>6. \A u \in Threads : call'[u] = IF u = t THEN x ELSE call[u]
    BY <2>1, Zenon DEF TypeOK
  <2>7. Caller(x, Setters[t], gen, payload)
    BY <2>3, <2>4, Standby
  <2>8. Callers' /\ PollersOK' /\ EvenIsWhole'
    BY <2>2, <2>6, <2>7, Zenon DEF BracketInv, Callers, PollersOK, EvenIsWhole
  <2>9. OddHasWriter'
    BY <2>2, <2>6 DEF BracketInv, OddHasWriter, WritingPcs
  <2> QED BY <2>5, <2>8, <2>9 DEF BracketInv
<1>8. CASE ArmLoad(t)
  <2> DEFINE x == [call[t] EXCEPT !.pc = "odd", !.gen = gen[r.slot]]
  <2>1. call' = [call EXCEPT ![t] = x] /\ r.pc = "load" /\ UNCHANGED <<gen, payload, poll, log>>
    BY <1>8, Zenon DEF ArmLoad, AtCall, table, history
  <2>2. x.pc = "odd" /\ x.i = r.i /\ x.op = r.op /\ x.slot = r.slot /\ x.gen = gen[r.slot]
    BY <1>0 DEF CallRec
  <2>3. r.i = 1 /\ r.op = "set" /\ Setters[t] # {}
    BY <1>0, <2>1 DEF Caller, ArmingPcs
  <2>4. gen[r.slot] % 2 = 0
    <3>1. gen[r.slot] \in Nat /\ r.slot \in Slots
      BY CallGet DEF TypeOK
    <3>2. \A u \in Threads : call[u].pc \notin WritingPcs
      BY <2>1, OthersDoNotArm DEF ArmingPcs, WritingPcs
    <3>3. gen[r.slot] % 2 # 1
      BY <3>1, <3>2 DEF BracketInv, OddHasWriter
    <3> QED BY <3>1, <3>3
  <2> HIDE DEF x
  <2>5. Caller(x, Setters[t], gen, payload)
    BY <2>2, <2>3, <2>4 DEF Caller, WritingPcs
  <2> QED BY <2>1, <2>5, CallKeeps DEF WritingPcs
<1>9. CASE ArmPublish(t)
  <2>1. /\ call' = [call EXCEPT ![t] = IdleCall] /\ r.pc = "publish"
        /\ UNCHANGED <<gen, payload, poll, log>>
    BY <1>9 DEF ArmPublish, AtCall, history
  <2> QED BY <2>1, IdleCaller, CallKeeps DEF WritingPcs
<1> QED BY <1>1, <1>2, <1>3, <1>4, <1>5, <1>6, <1>7, <1>8, <1>9, OddKeeps, WordKeeps, EvenKeeps,
           Zenon DEF CallStep

LEMMA BracketNext ==
  ASSUME TypeOK, TypeOK', BracketInv, OneSetterOneShots, [Next]_vars
  PROVE  BracketInv'
<1>1. ASSUME UNCHANGED <<gen, payload, poll, call, log>> PROVE BracketInv'
  BY <1>1, Zenon DEF BracketInv, OneShots, OddHasWriter, EvenIsWhole, Callers, PollersOK
<1>2. CASE Tick
  BY <1>1, <1>2 DEF Tick, table, history
<1>3. ASSUME NEW t \in Pollers, PollBegin(t) \/ PollStep(t) PROVE BracketInv'
  BY <1>3, ReadsKeep, TimerAssumption
<1>4. ASSUME NEW t \in Threads, CallStep(t) PROVE BracketInv'
  BY <1>4, CallsKeep
<1>5. ASSUME NEW t \in Threads, NEW k \in Timers, CancelTimer(t, k) PROVE BracketInv'
  <2> DEFINE x == [IdleCall EXCEPT !.pc = "disarm", !.op = "cancel", !.timer = k]
  <2>1. /\ call' = [call EXCEPT ![t] = x] /\ call[t].pc = "idle"
        /\ UNCHANGED <<gen, payload, poll, log>>
    BY <1>5 DEF CancelTimer, AtCall, table, history
  <2>2. x.pc = "disarm" /\ x.op = "cancel" /\ x.i = 1
    BY DEF IdleCall
  <2> HIDE DEF x
  <2>3. Caller(x, Setters[t], gen, payload)
    BY <2>2, Standby DEF ArmingPcs
  <2> QED BY <2>1, <2>3, CallKeeps DEF WritingPcs
<1>6. ASSUME NEW t \in Threads, NEW k \in Timers, NEW d \in Delays, NEW p \in Periods,
             SetTimer(t, k, d, p)
      PROVE  BracketInv'
  <2> DEFINE x == [IdleCall EXCEPT !.pc = "disarm", !.op = "set", !.timer = k, !.delay = d,
                                   !.period = p]
  <2>1. /\ call' = [call EXCEPT ![t] = x] /\ call[t].pc = "idle"
        /\ UNCHANGED <<gen, payload, poll, log>>
    BY <1>6, Zenon DEF SetTimer, AtCall, table
  <2>2. x.pc = "disarm" /\ x.op = "set" /\ x.i = 1
    BY DEF IdleCall
  <2>3. Setters[t] # {}
    BY <1>6 DEF SetTimer, OneSetterOneShots
  <2> HIDE DEF x
  <2>4. Caller(x, Setters[t], gen, payload)
    BY <2>2, <2>3, Standby DEF ArmingPcs
  <2> QED BY <2>1, <2>4, CallKeeps DEF WritingPcs
<1>7. CASE UNCHANGED vars
  BY <1>1, <1>7 DEF vars, table, history
<1> QED BY <1>2, <1>3, <1>4, <1>5, <1>6, <1>7, Zenon DEF Next

\* With one thread that sets timers, and one-shots, a poller that has validated
\* its snapshot holds one arming's payload, however many threads poll and cancel
\* and however many slots and timers there are.
THEOREM SnapshotsAreWhole ==
  ASSUME OneSetterOneShots
  PROVE  Spec => []SnapshotWhole
<1>1. BracketInv /\ TypeOK /\ TypeOK' /\ [Next]_vars => BracketInv'
  BY BracketNext
<1>2. BracketInv => SnapshotWhole
  BY TimerAssumption DEF BracketInv, PollersOK, Poller, SnapshotWhole
<1> QED BY <1>1, <1>2, BracketInit, TypeCorrect, PTL DEF Spec

-----------------------------------------------------------------------------
(* What keeps an arming.  With one thread that sets timers, a timer has at *)
(* most one slot, and a slot's flag is down while its payload is written.  *)

PublishingPcs == {"now", "load", "odd", "write", "even", "publish"}

\* A call with registers r, against the owners o, the flags a and the payloads
\* p: the slots a set has passed, or has not chosen, are not its timer's, and
\* from the drop of the flag to its publication the flag of its slot is down.
Claimant(r, o, a, p) ==
  /\ r.pc # "idle" => r.timer \in Timers
  /\ r.op = "set" /\ r.pc = "disarm" => \A q \in Slots : q < r.slot => o[q] # r.timer
  /\ r.op = "set" /\ r.pc \in {"take", "release"} \cup ArmPcs =>
       \A q \in Slots : q # r.slot => o[q] # r.timer
  /\ r.op = "set" /\ r.pc \in {"find", "claim"} => \A q \in Slots : o[q] # r.timer
  /\ r.pc \in PublishingPcs => a[r.slot] = 0
  /\ r.pc = "publish" => \A f \in Fields : p[r.slot][f] = r.id

\* A timer has one slot.
OneSlotEach ==
  \A q, s \in Slots : owner[q] = owner[s] /\ owner[s] # NoTimer => q = s

\* Where the flag is up, the payload is of the arming that raised it.
HeldIsWhole ==
  \A s \in Slots : armed[s] # 0 => \A f \in Fields : payload[s][f] = armed[s]

RealTimers == \A n \in 1 .. Len(log) : log[n].timer \in Timers

Claimants == \A t \in Threads : Claimant(call[t], owner, armed, payload)

HoldInv == RealTimers /\ OneSlotEach /\ HeldIsWhole /\ Claimants

LEMMA IdleClaimant ==
  \A r, o, a, p : r.pc = "idle" => Claimant(r, o, a, p)
BY DEF Claimant, ArmPcs, PublishingPcs

LEMMA HoldInit == Init => HoldInv
<1> SUFFICES ASSUME Init PROVE HoldInv
  OBVIOUS
<1>1. RealTimers
  BY DEF Init, RealTimers
<1>2. /\ \A s \in Slots : owner[s] = NoTimer /\ armed[s] = 0
      /\ \A t \in Threads : call[t] = IdleCall
  BY Zenon DEF Init
<1>3. OneSlotEach /\ HeldIsWhole
  BY <1>2 DEF OneSlotEach, HeldIsWhole
<1>4. IdleCall.pc = "idle"
  BY DEF IdleCall
<1>5. Claimants
  BY <1>2, <1>4, IdleClaimant, Zenon DEF Claimants
<1> QED BY <1>1, <1>3, <1>5 DEF HoldInv

\* A call's registers as others free slots and lower flags.
LEMMA ClaimantStays ==
  ASSUME NEW r, NEW o, NEW a, NEW p, NEW o2, NEW a2, Claimant(r, o, a, p), r.slot \in Slots,
         \A q \in Slots : o2[q] \in {o[q], NoTimer} /\ a2[q] \in {a[q], 0}
  PROVE  Claimant(r, o2, a2, p)
<1>1. r.pc # "idle" => r.timer # NoTimer
  BY TimerAssumption DEF Claimant
<1> QED BY <1>1 DEF Claimant, ArmPcs, PublishingPcs

\* A step that frees slots and lowers flags at most, and writes no payload.
LEMMA ShrinkHolds ==
  ASSUME TypeOK, HoldInv, UNCHANGED <<payload, log>>,
         \A q \in Slots : owner'[q] \in {owner[q], NoTimer} /\ armed'[q] \in {armed[q], 0},
         \A u \in Threads : call'[u] = call[u] \/ Claimant(call'[u], owner', armed', payload)
  PROVE  HoldInv'
<1>1. RealTimers' /\ OneSlotEach' /\ HeldIsWhole'
  BY DEF HoldInv, RealTimers, OneSlotEach, HeldIsWhole
<1>2. Claimants'
  <2> SUFFICES ASSUME NEW u \in Threads, call'[u] = call[u]
               PROVE  Claimant(call[u], owner', armed', payload)
    BY DEF Claimants
  <2>1. Claimant(call[u], owner, armed, payload) /\ call[u].slot \in Slots
    BY CallGet DEF HoldInv, Claimants
  <2> QED BY <2>1, ClaimantStays
<1> QED BY <1>1, <1>2 DEF HoldInv

\* Who does not arm keeps its registers whatever the table holds.
LEMMA OutsiderStays ==
  ASSUME OneSetterOneShots, BracketInv, HoldInv, NEW t \in Threads, call[t].pc \in ArmingPcs,
         NEW u \in Threads \ {t}, NEW o, NEW a, NEW p
  PROVE  Claimant(call[u], o, a, p)
<1>1. call[u].pc \notin ArmingPcs
  BY OthersDoNotArm
<1>2. call[u].pc # "idle" => call[u].op # "set"
  <2>1. Setters[t] # {}
    BY DEF BracketInv, Callers, Caller, ArmingPcs
  <2>2. Setters[u] = {}
    BY <2>1 DEF OneSetterOneShots
  <2> QED BY <2>2 DEF BracketInv, Callers, Caller
<1>3. call[u].pc # "idle" => call[u].timer \in Timers
  BY DEF HoldInv, Claimants, Claimant
<1> QED BY <1>1, <1>2, <1>3 DEF Claimant, ArmingPcs, ArmPcs, PublishingPcs

\* The registers of a call that goes on, ...
LEMMA GotoHas ==
  ASSUME TypeOK, NEW t \in Threads, NEW v, CallGoto(t, v)
  PROVE  /\ call'[t].pc = v /\ call'[t].slot = call[t].slot /\ call'[t].op = call[t].op
         /\ call'[t].timer = call[t].timer /\ call'[t].id = call[t].id
         /\ \A u \in Threads \ {t} : call'[u] = call[u]
<1> DEFINE x == [call[t] EXCEPT !.pc = v]
<1>1. call' = [call EXCEPT ![t] = x]
  BY Zenon DEF CallGoto
<1>2. call[t] \in CallRec
  BY CallGet
<1>3. /\ x.pc = v /\ x.slot = call[t].slot /\ x.op = call[t].op
      /\ x.timer = call[t].timer /\ x.id = call[t].id
  BY <1>2 DEF CallRec
<1>4. call'[t] = x /\ \A u \in Threads \ {t} : call'[u] = call[u]
  BY <1>1, Zenon DEF TypeOK
<1> HIDE DEF x
<1> QED BY <1>3, <1>4

\* ... that scans on, or has scanned the last slot, ...
LEMMA ScanHas ==
  ASSUME TypeOK, NEW t \in Threads, NEW next, ScanOr(t, next)
  PROVE  /\ \/ /\ call'[t].pc = call[t].pc /\ call'[t].slot = call[t].slot + 1
               /\ call'[t].op = call[t].op /\ call'[t].timer = call[t].timer
            \/ call'[t] = next /\ \A q \in Slots : q =< call[t].slot
         /\ \A u \in Threads \ {t} : call'[u] = call[u]
<1> DEFINE y == [call[t] EXCEPT !.slot = call[t].slot + 1]
           x == IF call[t].slot + 1 < NSlots THEN y ELSE next
<1>1. call' = [call EXCEPT ![t] = x]
  BY Zenon DEF ScanOr
<1>2. call[t] \in CallRec /\ call[t].slot \in Slots
  BY CallGet
<1>3. /\ y.pc = call[t].pc /\ y.slot = call[t].slot + 1
      /\ y.op = call[t].op /\ y.timer = call[t].timer
  BY <1>2 DEF CallRec
<1>4. call'[t] = x /\ \A u \in Threads \ {t} : call'[u] = call[u]
  BY <1>1, Zenon DEF TypeOK
<1>5. CASE call[t].slot + 1 < NSlots
  <2>1. call'[t] = y
    BY <1>4, <1>5
  <2> HIDE DEF y
  <2> QED BY <1>3, <1>4, <2>1
<1>6. CASE ~ (call[t].slot + 1 < NSlots)
  <2>1. call'[t] = next
    BY <1>4, <1>6
  <2>2. \A q \in Slots : q =< call[t].slot
    BY <1>2, <1>6, TimerAssumption DEF Slots
  <2> QED BY <1>4, <2>1, <2>2
<1> QED BY <1>5, <1>6

\* ... or has disarmed.
LEMMA AfterDisarmHas ==
  ASSUME TypeOK, NEW t \in Threads
  PROVE  \/ AfterDisarm(t).pc = "idle"
         \/ /\ AfterDisarm(t).pc = "find" /\ AfterDisarm(t).slot = 0
            /\ AfterDisarm(t).op = call[t].op /\ AfterDisarm(t).timer = call[t].timer
            /\ call[t].op = "set"
<1> DEFINE y == [call[t] EXCEPT !.pc = "find", !.slot = 0]
<1>1. call[t] \in CallRec
  BY CallGet
<1>2. y.pc = "find" /\ y.slot = 0 /\ y.op = call[t].op /\ y.timer = call[t].timer
      /\ call[t].op \in {"set", "cancel"}
  BY <1>1 DEF CallRec
<1>3. IdleCall.pc = "idle"
  BY DEF IdleCall
<1> HIDE DEF y
<1>4. AfterDisarm(t) = IF call[t].op = "cancel" THEN IdleCall ELSE y
  BY Zenon DEF AfterDisarm, y
<1> QED BY <1>2, <1>3, <1>4

\* The steps of a call that free slots and lower flags at most.
LEMMA CallShrinks ==
  ASSUME TypeOK, HoldInv, NEW t \in Threads,
         \/ DisarmScan(t) \/ DisarmTake(t) \/ DisarmFree(t) \/ ArmFind(t) \/ ArmDrop(t)
         \/ ArmLoad(t) \/ ArmOdd(t)
  PROVE  HoldInv'
<1> DEFINE r == call[t]
<1>0. /\ r \in CallRec /\ r.slot \in Slots /\ Claimant(r, owner, armed, payload)
      /\ owner \in [Slots -> Timers \cup {NoTimer}] /\ armed \in [Slots -> Ids]
  BY CallGet DEF HoldInv, Claimants, TypeOK
<1>1. ASSUME Claimant(call'[t], owner', armed', payload), UNCHANGED <<payload, log>>,
             \A u \in Threads \ {t} : call'[u] = call[u],
             \A q \in Slots : owner'[q] \in {owner[q], NoTimer} /\ armed'[q] \in {armed[q], 0}
      PROVE  HoldInv'
  BY <1>1, ShrinkHolds
<1>2. CASE DisarmScan(t)
  <2>1. r.pc = "disarm" /\ UNCHANGED <<owner, armed, payload, log>>
    BY <1>2 DEF DisarmScan, AtCall, table, history
  <2>2. CASE owner[r.slot] = r.timer /\ CallGoto(t, "take")
    <3>1. /\ call'[t].pc = "take" /\ call'[t].slot = r.slot /\ call'[t].timer = r.timer
          /\ \A u \in Threads \ {t} : call'[u] = call[u]
      BY <2>2, GotoHas
    <3>2. r.timer \in Timers /\ r.timer # NoTimer
      BY <1>0, <2>1, TimerAssumption DEF Claimant
    <3>3. \A q \in Slots : q # r.slot => owner[q] # r.timer
      BY <1>0, <2>2, <3>2 DEF HoldInv, OneSlotEach
    <3>4. Claimant(call'[t], owner, armed, payload)
      BY <3>1, <3>2, <3>3 DEF Claimant, ArmPcs, PublishingPcs
    <3> QED BY <1>1, <2>1, <3>1, <3>4
  <2>3. CASE owner[r.slot] # r.timer /\ ScanOr(t, AfterDisarm(t))
    <3>1. \A u \in Threads \ {t} : call'[u] = call[u]
      BY <2>3, ScanHas
    <3>2. CASE /\ call'[t].pc = r.pc /\ call'[t].slot = r.slot + 1
               /\ call'[t].op = r.op /\ call'[t].timer = r.timer
      <4>1. \A q \in Slots : q < r.slot + 1 => q < r.slot \/ q = r.slot
        BY <1>0 DEF Slots
      <4>2. Claimant(call'[t], owner, armed, payload)
        BY <1>0, <2>1, <2>3, <3>2, <4>1 DEF Claimant, ArmPcs, PublishingPcs
      <4> QED BY <1>1, <2>1, <3>1, <4>2
    <3>3. CASE call'[t] = AfterDisarm(t) /\ \A q \in Slots : q =< r.slot
      <4>1. \A q \in Slots : q < r.slot \/ q = r.slot
        BY <1>0, <3>3 DEF Slots
      <4>2. CASE AfterDisarm(t).pc = "idle"
        BY <1>1, <2>1, <3>1, <3>3, <4>2, IdleClaimant
      <4>3. CASE /\ AfterDisarm(t).pc = "find" /\ AfterDisarm(t).timer = r.timer
                 /\ r.op = "set"
        <5>1. r.timer \in Timers /\ \A q \in Slots : owner[q] # r.timer
          BY <1>0, <2>1, <2>3, <4>1, <4>3 DEF Claimant
        <5>2. Claimant(AfterDisarm(t), owner, armed, payload)
          BY <4>3, <5>1 DEF Claimant, ArmPcs, PublishingPcs
        <5> QED BY <1>1, <2>1, <3>1, <3>3, <5>2
      <4> QED BY <4>2, <4>3, AfterDisarmHas
    <3> QED BY <2>3, <3>2, <3>3, ScanHas
  <2> QED BY <1>2, <2>2, <2>3, Zenon DEF DisarmScan
<1>3. CASE DisarmTake(t)
  <2>1. /\ r.pc = "take" /\ CallGoto(t, "release") /\ UNCHANGED <<owner, payload, log>>
        /\ armed' = [armed EXCEPT ![r.slot] = 0]
    BY <1>3 DEF DisarmTake, AtCall
  <2>2. \A q \in Slots : armed'[q] \in {armed[q], 0}
    BY <1>0, <2>1
  <2>3. /\ call'[t].pc = "release" /\ call'[t].slot = r.slot /\ call'[t].timer = r.timer
        /\ call'[t].op = r.op /\ \A u \in Threads \ {t} : call'[u] = call[u]
    BY <2>1, GotoHas
  <2>4. Claimant(call'[t], owner, armed', payload)
    BY <1>0, <2>1, <2>3 DEF Claimant, ArmPcs, PublishingPcs
  <2> QED BY <1>1, <2>1, <2>2, <2>3, <2>4
<1>4. CASE DisarmFree(t)
  <2> DEFINE w == IF owner[r.slot] = r.timer THEN NoTimer ELSE owner[r.slot]
  <2>1. /\ r.pc = "release" /\ call' = [call EXCEPT ![t] = AfterDisarm(t)]
        /\ UNCHANGED <<armed, payload, log>> /\ owner' = [owner EXCEPT ![r.slot] = w]
    BY <1>4, Zenon DEF DisarmFree, AtCall, history
  <2>2. \A q \in Slots : owner'[q] = IF q = r.slot THEN w ELSE owner[q]
    BY <1>0, <2>1
  <2>3. call'[t] = AfterDisarm(t) /\ \A u \in Threads \ {t} : call'[u] = call[u]
    BY <2>1, Zenon DEF TypeOK
  <2>4. CASE AfterDisarm(t).pc = "idle"
    BY <1>1, <2>1, <2>2, <2>3, <2>4, IdleClaimant
  <2>5. CASE AfterDisarm(t).pc = "find" /\ AfterDisarm(t).timer = r.timer /\ r.op = "set"
    <3>1. r.timer \in Timers /\ r.timer # NoTimer
      BY <1>0, <2>1, TimerAssumption DEF Claimant
    <3>2. \A q \in Slots : q # r.slot => owner[q] # r.timer
      BY <1>0, <2>1, <2>5 DEF Claimant
    <3>3. \A q \in Slots : owner'[q] # r.timer
      BY <2>2, <3>1, <3>2
    <3>4. Claimant(AfterDisarm(t), owner', armed', payload)
      BY <2>5, <3>1, <3>3 DEF Claimant, ArmPcs, PublishingPcs
    <3> QED BY <1>1, <2>1, <2>2, <2>3, <3>4
  <2> QED BY <2>4, <2>5, AfterDisarmHas
<1>5. CASE ArmFind(t)
  <2> DEFINE y == [call[t] EXCEPT !.pc = "claim", !.slot = 0]
  <2>1. /\ r.pc = "find" /\ (CallGoto(t, "drop") \/ ScanOr(t, y))
        /\ owner[r.slot] = r.timer => CallGoto(t, "drop")
        /\ owner[r.slot] # r.timer => ScanOr(t, y)
        /\ UNCHANGED <<owner, armed, payload, log>>
    BY <1>5 DEF ArmFind, AtCall, table, history
  <2>2. y.pc = "claim" /\ y.op = r.op /\ y.timer = r.timer /\ r.op \in {"set", "cancel"}
    BY <1>0 DEF CallRec
  <2>3. r.timer \in Timers /\ r.timer # NoTimer
    BY <1>0, <2>1, TimerAssumption DEF Claimant
  <2> HIDE DEF y
  <2>4. CASE owner[r.slot] = r.timer
    <3>1. /\ call'[t].pc = "drop" /\ call'[t].slot = r.slot /\ call'[t].timer = r.timer
          /\ \A u \in Threads \ {t} : call'[u] = call[u]
      BY <2>1, <2>4, GotoHas
    <3>2. \A q \in Slots : q # r.slot => owner[q] # r.timer
      BY <1>0, <2>3, <2>4 DEF HoldInv, OneSlotEach
    <3>3. Claimant(call'[t], owner, armed, payload)
      BY <2>3, <3>1, <3>2 DEF Claimant, ArmPcs, PublishingPcs
    <3> QED BY <1>1, <2>1, <3>1, <3>3
  <2>5. CASE owner[r.slot] # r.timer
    <3>1. /\ \/ /\ call'[t].pc = r.pc /\ call'[t].op = r.op /\ call'[t].timer = r.timer
             \/ call'[t] = y
          /\ \A u \in Threads \ {t} : call'[u] = call[u]
      BY <2>1, <2>5, ScanHas
    <3>2. Claimant(call'[t], owner, armed, payload)
      BY <1>0, <2>1, <2>2, <2>3, <3>1 DEF Claimant, ArmPcs, PublishingPcs
    <3> QED BY <1>1, <2>1, <3>1, <3>2
  <2> QED BY <2>4, <2>5
<1>6. CASE ArmDrop(t)
  <2>1. /\ r.pc = "drop" /\ CallGoto(t, "now") /\ UNCHANGED <<owner, payload, log>>
        /\ armed' = [armed EXCEPT ![r.slot] = 0]
    BY <1>6 DEF ArmDrop, AtCall, history
  <2>2. armed'[r.slot] = 0 /\ \A q \in Slots : armed'[q] \in {armed[q], 0}
    BY <1>0, <2>1
  <2>3. /\ call'[t].pc = "now" /\ call'[t].slot = r.slot /\ call'[t].timer = r.timer
        /\ call'[t].op = r.op /\ \A u \in Threads \ {t} : call'[u] = call[u]
    BY <2>1, GotoHas
  <2>4. Claimant(call'[t], owner, armed', payload)
    BY <1>0, <2>1, <2>2, <2>3 DEF Claimant, ArmPcs, PublishingPcs
  <2> QED BY <1>1, <2>1, <2>2, <2>3, <2>4
<1>7. CASE ArmLoad(t)
  <2> DEFINE x == [call[t] EXCEPT !.pc = "odd", !.gen = gen[r.slot]]
  <2>1. call' = [call EXCEPT ![t] = x]
    BY <1>7, Zenon DEF ArmLoad
  <2>2. r.pc = "load" /\ UNCHANGED <<owner, armed, payload, log>>
    BY <1>7 DEF ArmLoad, AtCall, table, history
  <2>3. x.pc = "odd" /\ x.slot = r.slot /\ x.timer = r.timer /\ x.op = r.op
    BY <1>0 DEF CallRec
  <2> HIDE DEF x
  <2>4. call'[t] = x /\ \A u \in Threads \ {t} : call'[u] = call[u]
    BY <2>1, Zenon DEF TypeOK
  <2>5. Claimant(x, owner, armed, payload)
    BY <1>0, <2>2, <2>3 DEF Claimant, ArmPcs, PublishingPcs
  <2> QED BY <1>1, <2>2, <2>4, <2>5
<1>8. CASE ArmOdd(t)
  <2>1. r.pc = "odd" /\ CallGoto(t, "write") /\ UNCHANGED <<owner, armed, payload, log>>
    BY <1>8 DEF ArmOdd, AtCall, history
  <2>2. /\ call'[t].pc = "write" /\ call'[t].slot = r.slot /\ call'[t].timer = r.timer
        /\ call'[t].op = r.op /\ \A u \in Threads \ {t} : call'[u] = call[u]
    BY <2>1, GotoHas
  <2>3. Claimant(call'[t], owner, armed, payload)
    BY <1>0, <2>1, <2>2 DEF Claimant, ArmPcs, PublishingPcs
  <2> QED BY <1>1, <2>1, <2>2, <2>3
<1> QED BY <1>2, <1>3, <1>4, <1>5, <1>6, <1>7, <1>8

\* The step that publishes needs the payload whole, ...
LEMMA EvenHolds ==
  ASSUME TypeOK, BracketInv, HoldInv, NEW t \in Threads, ArmEven(t)
  PROVE  HoldInv'
<1> DEFINE r == call[t]
<1>0. /\ r \in CallRec /\ r.slot \in Slots /\ Claimant(r, owner, armed, payload)
      /\ Caller(r, Setters[t], gen, payload)
  BY CallGet DEF HoldInv, Claimants, BracketInv, Callers
<1>1. r.pc = "even" /\ CallGoto(t, "publish") /\ UNCHANGED <<owner, armed, payload, log>>
  BY DEF ArmEven, AtCall, history
<1>2. \A f \in Fields : payload[r.slot][f] = r.id
  BY <1>0, <1>1 DEF Caller
<1>3. /\ call'[t].pc = "publish" /\ call'[t].slot = r.slot /\ call'[t].timer = r.timer
      /\ call'[t].op = r.op /\ call'[t].id = r.id
      /\ \A u \in Threads \ {t} : call'[u] = call[u]
  BY <1>1, GotoHas
<1>4. Claimant(call'[t], owner, armed, payload)
  BY <1>0, <1>1, <1>2, <1>3 DEF Claimant, ArmPcs, PublishingPcs
<1> QED BY <1>1, <1>3, <1>4, ShrinkHolds

\* ... and the steps that take a slot, number an arming, write a word and raise
\* the flag are of the one thread that arms.
LEMMA CallGrows ==
  ASSUME TypeOK, BracketInv, HoldInv, OneSetterOneShots, NEW t \in Threads,
         ArmClaim(t) \/ ArmNow(t) \/ ArmWrite(t) \/ ArmPublish(t)
  PROVE  HoldInv'
<1> DEFINE r == call[t]
<1>0. /\ r \in CallRec /\ r.slot \in Slots /\ Claimant(r, owner, armed, payload)
      /\ owner \in [Slots -> Timers \cup {NoTimer}] /\ armed \in [Slots -> Ids]
      /\ payload \in [Slots -> [Fields -> Ids]]
  BY CallGet DEF HoldInv, Claimants, TypeOK
<1>1. r.pc \in {"claim", "now", "write", "publish"}
  BY DEF ArmClaim, ArmNow, ArmWrite, ArmPublish, AtCall
<1>2. r.op = "set" /\ r.timer \in Timers /\ r.timer # NoTimer
  <2>1. Caller(r, Setters[t], gen, payload)
    BY DEF BracketInv, Callers
  <2> QED BY <1>0, <1>1, <2>1, TimerAssumption DEF Caller, ArmingPcs, Claimant
<1>3. ASSUME Claimant(call'[t], owner', armed', payload'),
             \A u \in Threads \ {t} : call'[u] = call[u]
      PROVE  Claimants'
  <2> SUFFICES ASSUME NEW u \in Threads \ {t} PROVE Claimant(call[u], owner', armed', payload')
    BY <1>3 DEF Claimants
  <2> QED BY <1>1, OutsiderStays DEF ArmingPcs
<1>4. CASE ArmClaim(t)
  <2>1. r.pc = "claim" /\ UNCHANGED <<armed, payload, log>>
    BY <1>4 DEF ArmClaim, AtCall, history
  <2>2. \A q \in Slots : owner[q] # r.timer
    BY <1>0, <1>2, <2>1 DEF Claimant
  <2>3. CASE CallGoto(t, "drop") /\ owner' = [owner EXCEPT ![r.slot] = r.timer]
    <3>1. /\ call'[t].pc = "drop" /\ call'[t].slot = r.slot /\ call'[t].timer = r.timer
          /\ \A u \in Threads \ {t} : call'[u] = call[u]
      BY <2>3, GotoHas
    <3>2. \A q \in Slots : owner'[q] = IF q = r.slot THEN r.timer ELSE owner[q]
      BY <1>0, <2>3
    <3>3. Claimant(call'[t], owner', armed', payload')
      BY <1>2, <2>2, <3>1, <3>2 DEF Claimant, ArmPcs, PublishingPcs
    <3>4. OneSlotEach'
      BY <2>2, <3>2 DEF HoldInv, OneSlotEach
    <3>5. RealTimers' /\ HeldIsWhole'
      BY <2>1 DEF HoldInv, RealTimers, HeldIsWhole
    <3> QED BY <1>3, <3>1, <3>3, <3>4, <3>5 DEF HoldInv
  <2>4. CASE ScanOr(t, IdleCall) /\ owner' = owner
    <3>1. /\ \/ /\ call'[t].pc = r.pc /\ call'[t].op = r.op /\ call'[t].timer = r.timer
             \/ call'[t] = IdleCall
          /\ \A u \in Threads \ {t} : call'[u] = call[u]
      BY <2>4, ScanHas
    <3>2. IdleCall.pc = "idle"
      BY DEF IdleCall
    <3>3. CASE call'[t] = IdleCall
      BY <2>1, <2>4, <3>1, <3>2, <3>3, IdleClaimant, ShrinkHolds
    <3>4. CASE call'[t].pc = r.pc /\ call'[t].op = r.op /\ call'[t].timer = r.timer
      <4>1. Claimant(call'[t], owner, armed, payload)
        BY <1>2, <2>1, <2>2, <3>4 DEF Claimant, ArmPcs, PublishingPcs
      <4> QED BY <2>1, <2>4, <3>1, <4>1, ShrinkHolds
    <3> QED BY <3>1, <3>3, <3>4
  <2> QED BY <1>4, <2>3, <2>4, Zenon DEF ArmClaim
<1>5. CASE ArmNow(t)
  <2> DEFINE x == [call[t] EXCEPT !.pc = "load", !.id = Len(log) + 1]
             a == [timer |-> r.timer, at |-> clock, delay |-> r.delay, period |-> r.period]
  <2>1. call' = [call EXCEPT ![t] = x] /\ log' = Append(log, a)
    BY <1>5, Zenon DEF ArmNow
  <2>2. r.pc = "now" /\ UNCHANGED <<owner, armed, payload>>
    BY <1>5 DEF ArmNow, AtCall, table
  <2>3. x.pc = "load" /\ x.slot = r.slot /\ x.timer = r.timer /\ x.op = r.op
    BY <1>0 DEF CallRec
  <2>4. a.timer \in Timers
    BY <1>2
  <2> HIDE DEF x, a
  <2>5. RealTimers'
    <3>1. log \in Seq(ArmingRec) /\ \A n \in 1 .. Len(log) : log[n].timer \in Timers
      BY DEF TypeOK, HoldInv, RealTimers
    <3>2. \A n \in 1 .. Len(log') : log'[n] = a \/ (n \in 1 .. Len(log) /\ log'[n] = log[n])
      BY <2>1, <3>1
    <3> QED BY <2>4, <3>1, <3>2 DEF RealTimers
  <2>6. call'[t] = x /\ \A u \in Threads \ {t} : call'[u] = call[u]
    BY <2>1, Zenon DEF TypeOK
  <2>7. Claimant(x, owner, armed, payload)
    BY <1>0, <2>2, <2>3 DEF Claimant, ArmPcs, PublishingPcs
  <2>8. Claimants'
    BY <1>3, <2>2, <2>6, <2>7
  <2>9. OneSlotEach' /\ HeldIsWhole'
    BY <2>2 DEF HoldInv, OneSlotEach, HeldIsWhole
  <2> QED BY <2>5, <2>8, <2>9 DEF HoldInv
<1>6. CASE ArmWrite(t)
  <2> DEFINE i2 == IF r.i < Len(WriteOrder) THEN r.i + 1 ELSE 1
             pc2 == IF r.i < Len(WriteOrder) THEN "write" ELSE "even"
             x == [call[t] EXCEPT !.i = i2, !.pc = pc2]
             f == WriteOrder[r.i]
  <2>1. /\ call' = [call EXCEPT ![t] = x]
        /\ payload' = [payload EXCEPT ![r.slot] = [payload[r.slot] EXCEPT ![f] = r.id]]
    BY <1>6, Zenon DEF ArmWrite
  <2>2. r.pc = "write" /\ UNCHANGED <<owner, armed, log>>
    BY <1>6 DEF ArmWrite, AtCall, history
  <2>3. x.pc = pc2 /\ x.slot = r.slot /\ x.timer = r.timer /\ x.op = r.op
    BY <1>0 DEF CallRec
  <2>4. pc2 \in {"write", "even"}
    OBVIOUS
  <2> HIDE DEF x, pc2, i2, f
  <2>5. call'[t] = x /\ \A u \in Threads \ {t} : call'[u] = call[u]
    BY <2>1, Zenon DEF TypeOK
  <2>6. armed[r.slot] = 0
    BY <1>0, <2>2 DEF Claimant, PublishingPcs
  <2>7. Claimant(x, owner, armed, payload')
    BY <1>0, <2>2, <2>3, <2>4 DEF Claimant, ArmPcs, PublishingPcs
  <2>8. Claimants'
    BY <1>3, <2>2, <2>5, <2>7
  <2>9. HeldIsWhole'
    <3>1. \A s \in Slots \ {r.slot} : payload'[s] = payload[s]
      BY <1>0, <2>1
    <3> QED BY <2>2, <2>6, <3>1 DEF HoldInv, HeldIsWhole
  <2>10. RealTimers' /\ OneSlotEach'
    BY <2>2 DEF HoldInv, RealTimers, OneSlotEach
  <2> QED BY <2>8, <2>9, <2>10 DEF HoldInv
<1>7. CASE ArmPublish(t)
  <2>1. /\ r.pc = "publish" /\ call' = [call EXCEPT ![t] = IdleCall]
        /\ armed' = [armed EXCEPT ![r.slot] = r.id] /\ UNCHANGED <<owner, payload, log>>
    BY <1>7 DEF ArmPublish, AtCall, history
  <2>2. \A f \in Fields : payload[r.slot][f] = r.id
    BY <1>0, <2>1 DEF Claimant
  <2>3. HeldIsWhole'
    BY <1>0, <2>1, <2>2 DEF HoldInv, HeldIsWhole
  <2>4. call'[t].pc = "idle" /\ \A u \in Threads \ {t} : call'[u] = call[u]
    BY <2>1 DEF TypeOK, IdleCall
  <2>5. Claimants'
    BY <1>3, <2>4, IdleClaimant
  <2>6. RealTimers' /\ OneSlotEach'
    BY <2>1 DEF HoldInv, RealTimers, OneSlotEach
  <2> QED BY <2>3, <2>5, <2>6 DEF HoldInv
<1> QED BY <1>4, <1>5, <1>6, <1>7

LEMMA HoldNext ==
  ASSUME TypeOK, BracketInv, HoldInv, OneSetterOneShots, [Next]_vars
  PROVE  HoldInv'
<1>0. owner \in [Slots -> Timers \cup {NoTimer}] /\ armed \in [Slots -> Ids]
  BY Zenon DEF TypeOK
<1>1. ASSUME UNCHANGED <<owner, armed, payload, call, log>> PROVE HoldInv'
  BY <1>1, Zenon DEF HoldInv, RealTimers, OneSlotEach, HeldIsWhole, Claimants
<1>2. CASE Tick
  BY <1>1, <1>2 DEF Tick, table, history
<1>3. ASSUME NEW t \in Threads, PollBegin(t) \/ PollStep(t) PROVE HoldInv'
  <2>1. poll[t].pc \notin PeriodPcs /\ poll[t].slot \in Slots
    BY PollGet DEF BracketInv, PollersOK, Poller
  <2>2. ~ (PollLoad(t) \/ PollOdd(t) \/ PollWrite(t) \/ PollEven(t) \/ PollPublish(t))
    BY <2>1 DEF PollLoad, PollOdd, PollWrite, PollEven, PollPublish, AtPoll, PeriodPcs
  <2>3. CASE PollClaim(t)
    <3>1. armed' = [armed EXCEPT ![poll[t].slot] = 0] /\ UNCHANGED <<owner, payload, call, log>>
      BY <2>3 DEF PollClaim
    <3>2. \A q \in Slots : armed'[q] \in {armed[q], 0}
      BY <1>0, <3>1
    <3> QED BY <3>1, <3>2, ShrinkHolds
  <2>4. CASE PollFree(t)
    <3>1. /\ owner' = [owner EXCEPT ![poll[t].slot] = IF @ = poll[t].own THEN NoTimer ELSE @]
          /\ UNCHANGED <<armed, payload, call, log>>
      BY <2>4, Zenon DEF PollFree, history
    <3>2. \A q \in Slots : owner'[q] \in {owner[q], NoTimer}
      BY <1>0, <3>1
    <3> QED BY <3>1, <3>2, ShrinkHolds
  <2>5. CASE PollBegin(t) \/ PollArmed(t) \/ PollGen(t) \/ PollRead(t) \/ PollOwner(t)
               \/ PollCheck(t) \/ DpcReturn(t)
    BY <1>1, <2>5 DEF PollBegin, PollArmed, PollGen, PollRead, PollOwner, PollCheck, DpcReturn,
       table, history
  <2> QED BY <1>3, <2>2, <2>3, <2>4, <2>5, Zenon DEF PollStep
<1>4. ASSUME NEW t \in Threads, CallStep(t) PROVE HoldInv'
  BY <1>4, CallShrinks, EvenHolds, CallGrows, Zenon DEF CallStep
<1>5. ASSUME NEW t \in Threads, NEW k \in Timers, NEW x, call' = [call EXCEPT ![t] = x],
             x.pc = "disarm", x.slot = 0, x.timer = k, UNCHANGED <<owner, armed, payload, log>>
      PROVE  HoldInv'
  <2>1. Claimant(x, owner, armed, payload)
    BY <1>5 DEF Claimant, ArmPcs, PublishingPcs, Slots
  <2>2. \A u \in Threads : call'[u] = IF u = t THEN x ELSE call[u]
    BY <1>5, Zenon DEF TypeOK
  <2> QED BY <1>5, <2>1, <2>2, ShrinkHolds
<1>6. ASSUME NEW t \in Threads, NEW k \in Timers, CancelTimer(t, k) PROVE HoldInv'
  <2> DEFINE x == [IdleCall EXCEPT !.pc = "disarm", !.op = "cancel", !.timer = k]
  <2>1. call' = [call EXCEPT ![t] = x] /\ UNCHANGED <<owner, armed, payload, log>>
    BY <1>6, Zenon DEF CancelTimer, table, history
  <2>2. x.pc = "disarm" /\ x.slot = 0 /\ x.timer = k
    BY DEF IdleCall
  <2> HIDE DEF x
  <2> QED BY <1>5, <2>1, <2>2
<1>7. ASSUME NEW t \in Threads, NEW k \in Timers, NEW d \in Delays, NEW p \in Periods,
             SetTimer(t, k, d, p)
      PROVE  HoldInv'
  <2> DEFINE x == [IdleCall EXCEPT !.pc = "disarm", !.op = "set", !.timer = k, !.delay = d,
                                   !.period = p]
  <2>1. call' = [call EXCEPT ![t] = x] /\ UNCHANGED <<owner, armed, payload, log>>
    BY <1>7, Zenon DEF SetTimer, table
  <2>2. x.pc = "disarm" /\ x.slot = 0 /\ x.timer = k
    BY DEF IdleCall
  <2> HIDE DEF x
  <2> QED BY <1>5, <2>1, <2>2
<1>8. CASE UNCHANGED vars
  BY <1>1, <1>8 DEF vars, table, history
<1> QED BY <1>2, <1>3, <1>4, <1>6, <1>7, <1>8, TimerAssumption, Zenon DEF Next
-----------------------------------------------------------------------------
(* Undisturbed armings.                                                    *)

\* What a thread's poll, and its call, must not be in the way of slot s holding
\* arming n for timer k.
PollAside(r, s, n) ==
  r.slot = s => r.pc # "free" /\ (r.pc = "claim" => r.snap.deadline = n)

CallAside(r, s, k) ==
  r.slot = s => r.pc \notin ArmPcs \cup {"release"} /\ (r.pc = "take" => r.timer = k)

LEMMA UndisturbedIs ==
  ASSUME NEW s \in Slots
  PROVE  /\ Undisturbed(s) <=>
              /\ armed[s] # 0 /\ owner[s] = Arming(armed[s]).timer
              /\ \A t \in Pollers : PollAside(poll[t], s, armed[s])
              /\ \A t \in Threads : CallAside(call[t], s, owner[s])
         /\ Undisturbed(s)' <=>
              /\ armed'[s] # 0 /\ owner'[s] = Arming(armed[s])'.timer
              /\ \A t \in Pollers : PollAside(poll'[t], s, armed'[s])
              /\ \A t \in Threads : CallAside(call'[t], s, owner'[s])
BY Zenon DEF Undisturbed, PollAside, CallAside

\* What a step does that leaves the slot and the armings alone.
LEMMA SlotKept ==
  ASSUME NEW s \in Slots, Undisturbed(s), armed'[s] = armed[s], owner'[s] = owner[s],
         Arming(armed[s])' = Arming(armed[s]),
         \A t \in Pollers : poll'[t] = poll[t] \/ PollAside(poll'[t], s, armed[s]),
         \A t \in Threads : call'[t] = call[t] \/ CallAside(call'[t], s, owner[s])
  PROVE  armed'[s] = armed[s] /\ Undisturbed(s)'
BY UndisturbedIs

\* A longer log keeps the armings it had.
LEMMA ArmingsStay ==
  ASSUME TypeOK, NEW s \in Slots, armed'[s] = armed[s],
         log' = log \/ \E a : log' = Append(log, a)
  PROVE  Arming(armed[s])' = Arming(armed[s])
<1>1. armed[s] = 0 \/ armed[s] \in 1 .. Len(log)
  BY DEF TypeOK, Ids
<1>2. log \in Seq(ArmingRec)
  BY DEF TypeOK
<1>3. \A n \in 1 .. Len(log) : log'[n] = log[n]
  BY <1>2
<1> QED BY <1>1, <1>3 DEF Arming, NoArming

\* Where a poll goes when it is done with a slot.
LEMMA NextSlotAside ==
  ASSUME TypeOK, NEW t \in Threads, NextSlot(t), NEW s, NEW n
  PROVE  PollAside(poll'[t], s, n) /\ \A u \in Threads \ {t} : poll'[u] = poll[u]
<1> DEFINE y == [IdlePoll EXCEPT !.pc = "armed", !.now = poll[t].now,
                                 !.slot = poll[t].slot + 1]
           x == IF poll[t].slot + 1 < NSlots THEN y ELSE IdlePoll
<1>1. poll' = [poll EXCEPT ![t] = x]
  BY Zenon DEF NextSlot
<1>2. y.pc = "armed" /\ IdlePoll.pc = "idle"
  BY DEF IdlePoll
<1>3. x.pc \in {"armed", "idle"}
  BY <1>2
<1> HIDE DEF x
<1>4. poll'[t] = x /\ \A u \in Threads \ {t} : poll'[u] = poll[u]
  BY <1>1, Zenon DEF TypeOK
<1> QED BY <1>3, <1>4 DEF PollAside

\* Where it goes on.
LEMMA PollGotoHas ==
  ASSUME TypeOK, NEW t \in Threads, NEW v, PollGoto(t, v)
  PROVE  /\ poll'[t].pc = v /\ poll'[t].slot = poll[t].slot /\ poll'[t].snap = poll[t].snap
         /\ \A u \in Threads \ {t} : poll'[u] = poll[u]
<1> DEFINE x == [poll[t] EXCEPT !.pc = v]
<1>1. poll' = [poll EXCEPT ![t] = x]
  BY Zenon DEF PollGoto
<1>2. poll[t] \in PollRec
  BY PollGet
<1>3. x.pc = v /\ x.slot = poll[t].slot /\ x.snap = poll[t].snap
  BY <1>2 DEF PollRec
<1>4. poll'[t] = x /\ \A u \in Threads \ {t} : poll'[u] = poll[u]
  BY <1>1, Zenon DEF TypeOK
<1> HIDE DEF x
<1> QED BY <1>3, <1>4

\* What a step may do to an undisturbed slot.
Kept(s) ==
  \/ armed'[s] = armed[s] /\ Undisturbed(s)'
  \/ armed'[s] = 0 /\ (armed[s] \in cancelled' \/ TakenToFire(s))

LEMMA PollKeepsSlot ==
  ASSUME TypeOK, BracketInv, HoldInv, NEW t \in Pollers, PollBegin(t) \/ PollStep(t),
         NEW s \in Slots, Undisturbed(s)
  PROVE  Kept(s)
<1> DEFINE r == poll[t]
<1>0. /\ t \in Threads /\ r \in PollRec /\ r.slot \in Slots /\ r.snap \in [Fields -> Ids]
      /\ Poller(r, gen, payload) /\ r.pc \notin PeriodPcs
      /\ owner \in [Slots -> Timers \cup {NoTimer}] /\ armed \in [Slots -> Ids]
      /\ armed[s] # 0 /\ PollAside(r, s, armed[s])
  BY PollGet, TimerAssumption, UndisturbedIs DEF BracketInv, PollersOK, Poller, TypeOK
<1>1. ASSUME PollAside(poll'[t], s, armed[s]), \A u \in Threads \ {t} : poll'[u] = poll[u],
             UNCHANGED <<call, log>>, armed'[s] = armed[s], owner'[s] = owner[s]
      PROVE  Kept(s)
  <2>1. Arming(armed[s])' = Arming(armed[s])
    BY <1>1, ArmingsStay
  <2>2. \A u \in Pollers : poll'[u] = poll[u] \/ PollAside(poll'[u], s, armed[s])
    BY <1>1, TimerAssumption
  <2> QED BY <1>1, <2>1, <2>2, SlotKept DEF Kept
<1>2. CASE PollBegin(t)
  <2>1. poll' = [poll EXCEPT ![t] = [poll[t] EXCEPT !.pc = "armed", !.now = clock]]
    BY <1>2, Zenon DEF PollBegin
  <2>2. poll'[t].pc = "armed" /\ \A u \in Threads \ {t} : poll'[u] = poll[u]
    BY <1>0, <2>1 DEF PollRec, TypeOK
  <2> QED BY <1>1, <1>2, <2>2 DEF PollBegin, table, history, PollAside
<1>3. CASE PollArmed(t)
  <2>1. UNCHANGED <<armed, owner, call, log>> /\ (NextSlot(t) \/ PollGoto(t, "gen"))
    BY <1>3 DEF PollArmed, table, history
  <2>2. CASE PollGoto(t, "gen")
    BY <1>0, <1>1, <2>1, <2>2, PollGotoHas DEF PollAside
  <2> QED BY <1>0, <1>1, <2>1, <2>2, NextSlotAside
<1>4. CASE PollGen(t)
  <2> DEFINE x == [poll[t] EXCEPT !.pc = "read", !.gen = gen[r.slot]]
  <2>1. /\ UNCHANGED <<armed, owner, call, log>>
        /\ NextSlot(t) \/ poll' = [poll EXCEPT ![t] = x]
    <3>1. NextSlot(t) \/ poll' = [poll EXCEPT ![t] = x]
      BY <1>4, Zenon DEF PollGen
    <3> QED BY <1>4, <3>1 DEF PollGen, table, history
  <2>2. CASE poll' = [poll EXCEPT ![t] = x]
    <3>1. x.pc = "read"
      BY <1>0 DEF PollRec
    <3> HIDE DEF x
    <3>2. poll'[t] = x /\ \A u \in Threads \ {t} : poll'[u] = poll[u]
      BY <1>0, <2>2, Zenon DEF TypeOK
    <3> QED BY <1>1, <2>1, <3>1, <3>2 DEF PollAside
  <2> QED BY <1>0, <1>1, <2>1, <2>2, NextSlotAside
<1>5. CASE PollRead(t)
  <2> DEFINE f == ReadOrder[r.i]
             w == payload[r.slot][f]
             i == IF r.i < Len(ReadOrder) THEN r.i + 1 ELSE 1
             c == IF r.i < Len(ReadOrder) THEN "read" ELSE "owner"
  <2>1. poll' = [poll EXCEPT ![t].snap[f] = w, ![t].i = i, ![t].pc = c]
    BY <1>5, Zenon DEF PollRead
  <2>2. c \in {"read", "owner"} /\ poll \in [Threads -> PollRec]
    BY DEF TypeOK
  <2> HIDE DEF f, w, i, c
  <2>3. poll'[t].pc = c /\ \A u \in Threads \ {t} : poll'[u] = poll[u]
    BY <1>0, <2>1, <2>2 DEF PollRec
  <2>4. UNCHANGED <<armed, owner, call, log>>
    BY <1>5 DEF PollRead, table, history
  <2>5. PollAside(poll'[t], s, armed[s])
    BY <2>2, <2>3 DEF PollAside
  <2> QED BY <1>1, <2>3, <2>4, <2>5
<1>6. CASE PollOwner(t)
  <2>1. poll' = [poll EXCEPT ![t] = [poll[t] EXCEPT !.own = owner[r.slot], !.pc = "check"]]
    BY <1>6, Zenon DEF PollOwner
  <2>2. poll'[t].pc = "check" /\ \A u \in Threads \ {t} : poll'[u] = poll[u]
    BY <1>0, <2>1 DEF PollRec, TypeOK
  <2> QED BY <1>1, <1>6, <2>2 DEF PollOwner, table, history, PollAside
<1>7. CASE PollCheck(t)
  <2>1. r.pc = "check" /\ UNCHANGED <<armed, owner, call, log>>
    BY <1>7 DEF PollCheck, AtPoll, table, history
  <2>2. CASE NextSlot(t)
    BY <1>0, <1>1, <2>1, <2>2, NextSlotAside
  <2>3. CASE gen[r.slot] = r.gen /\ PollGoto(t, "claim")
    <3>1. ReadOrder[1] = "deadline" /\ 1 \in 1 .. 5
      BY DEF ReadOrder
    <3>2. r.snap.deadline = payload[r.slot].deadline
      BY <1>0, <2>1, <2>3, <3>1 DEF Poller
    <3>3. payload[s].deadline = armed[s]
      BY <1>0 DEF HoldInv, HeldIsWhole, Fields
    <3>4. PollAside(poll'[t], s, armed[s]) /\ \A u \in Threads \ {t} : poll'[u] = poll[u]
      BY <1>0, <2>3, <3>2, <3>3, PollGotoHas DEF PollAside
    <3> QED BY <1>1, <2>1, <3>4
  <2> QED BY <1>7, <2>2, <2>3, Zenon DEF PollCheck
<1>8. CASE PollClaim(t)
  <2>1. /\ r.pc = "claim" /\ UNCHANGED <<owner, call, log>>
        /\ armed' = [armed EXCEPT ![r.slot] = 0]
        /\ armed[r.slot] = 0 => NextSlot(t)
        /\ armed[r.slot] # 0 =>
             PollGoto(t, IF Arming(r.snap.period).period > 0 THEN "load" ELSE "free")
    BY <1>8 DEF PollClaim, AtPoll
  <2>2. Arming(r.snap.period).period = 0
    <3>1. r.snap.period = 0 \/ r.snap.period \in 1 .. Len(log)
      BY <1>0 DEF Fields, Ids, TypeOK
    <3> QED BY <3>1 DEF Arming, NoArming, BracketInv, OneShots
  <2>3. armed[r.slot] # 0 => PollGoto(t, "free")
    BY <2>1, <2>2
  <2>4. CASE r.slot = s
    <3>1. /\ poll'[t].pc = "free" /\ poll'[t].snap = r.snap /\ armed'[s] = 0
      BY <1>0, <2>1, <2>3, <2>4, PollGotoHas
    <3>2. \A f \in Fields : r.snap[f] = armed[s]
      BY <1>0, <2>1, <2>4 DEF Poller, PollAside
    <3> QED BY <2>1, <2>4, <3>1, <3>2 DEF Kept, TakenToFire
  <2>5. CASE r.slot # s
    <3>1. armed'[s] = armed[s]
      BY <1>0, <2>1, <2>5
    <3>2. CASE armed[r.slot] # 0
      <4>1. PollAside(poll'[t], s, armed[s]) /\ \A u \in Threads \ {t} : poll'[u] = poll[u]
        BY <1>0, <2>3, <2>5, <3>2, PollGotoHas DEF PollAside
      <4> QED BY <1>1, <2>1, <3>1, <4>1
    <3> QED BY <1>0, <1>1, <2>1, <3>1, <3>2, NextSlotAside
  <2> QED BY <2>4, <2>5
<1>9. CASE PollFree(t)
  <2>1. /\ r.pc = "free" /\ PollGoto(t, "dpc") /\ UNCHANGED <<armed, call, log>>
        /\ owner' = [owner EXCEPT ![r.slot] = IF @ = r.own THEN NoTimer ELSE @]
    BY <1>9, Zenon DEF PollFree, AtPoll, history
  <2>2. r.slot # s
    BY <1>0, <2>1 DEF PollAside
  <2>3. owner'[s] = owner[s]
    BY <1>0, <2>1, <2>2
  <2>4. PollAside(poll'[t], s, armed[s]) /\ \A u \in Threads \ {t} : poll'[u] = poll[u]
    BY <1>0, <2>1, PollGotoHas DEF PollAside
  <2> QED BY <1>1, <2>1, <2>3, <2>4
<1>10. CASE DpcReturn(t)
  <2>1. NextSlot(t) /\ UNCHANGED <<armed, owner, call, log>>
    BY <1>10 DEF DpcReturn, table, history
  <2> QED BY <1>0, <1>1, <2>1, NextSlotAside
<1>11. ~ (PollLoad(t) \/ PollOdd(t) \/ PollWrite(t) \/ PollEven(t) \/ PollPublish(t))
  BY <1>0 DEF PollLoad, PollOdd, PollWrite, PollEven, PollPublish, AtPoll, PeriodPcs
<1> QED BY <1>2, <1>3, <1>4, <1>5, <1>6, <1>7, <1>8, <1>9, <1>10, <1>11, Zenon DEF PollStep

LEMMA CallKeepsSlot ==
  ASSUME TypeOK, BracketInv, HoldInv, NEW t \in Threads, CallStep(t),
         NEW s \in Slots, Undisturbed(s)
  PROVE  Kept(s)
<1> DEFINE r == call[t]
<1>0. /\ r \in CallRec /\ r.slot \in Slots /\ Claimant(r, owner, armed, payload)
      /\ owner \in [Slots -> Timers \cup {NoTimer}] /\ armed \in [Slots -> Ids]
      /\ armed[s] # 0 /\ CallAside(r, s, owner[s])
  BY CallGet, UndisturbedIs DEF HoldInv, Claimants, TypeOK
<1>1. owner[s] \in Timers /\ owner[s] # NoTimer
  <2>1. owner[s] = log[armed[s]].timer
    BY <1>0, UndisturbedIs DEF Arming
  <2>2. armed[s] \in 1 .. Len(log)
    BY <1>0 DEF TypeOK, Ids
  <2> QED BY <2>1, <2>2, TimerAssumption DEF HoldInv, RealTimers
<1>2. r.pc \in ArmingPcs => r.op = "set"
  BY DEF BracketInv, Callers, Caller
<1>3. ASSUME CallAside(call'[t], s, owner[s]), \A u \in Threads \ {t} : call'[u] = call[u],
             poll' = poll, log' = log \/ \E a : log' = Append(log, a),
             armed'[s] = armed[s], owner'[s] = owner[s]
      PROVE  Kept(s)
  <2>1. Arming(armed[s])' = Arming(armed[s])
    BY <1>3, ArmingsStay
  <2> QED BY <1>3, <2>1, SlotKept DEF Kept
<1>4. CASE DisarmScan(t)
  <2>1. /\ r.pc = "disarm" /\ UNCHANGED <<owner, armed, poll, log>>
        /\ \/ owner[r.slot] = r.timer /\ CallGoto(t, "take")
           \/ ScanOr(t, AfterDisarm(t))
    BY <1>4 DEF DisarmScan, AtCall, table, history
  <2>2. CASE owner[r.slot] = r.timer /\ CallGoto(t, "take")
    BY <1>3, <2>1, <2>2, GotoHas DEF CallAside, ArmPcs
  <2>3. CASE ScanOr(t, AfterDisarm(t))
    <3>1. call'[t].pc \in {"disarm", "idle", "find"} /\ \A u \in Threads \ {t} : call'[u] = call[u]
      BY <2>1, <2>3, ScanHas, AfterDisarmHas
    <3> QED BY <1>3, <2>1, <3>1 DEF CallAside, ArmPcs
  <2> QED BY <2>1, <2>2, <2>3
<1>5. CASE DisarmTake(t)
  <2>1. /\ r.pc = "take" /\ CallGoto(t, "release") /\ UNCHANGED <<owner, poll, log>>
        /\ armed' = [armed EXCEPT ![r.slot] = 0]
        /\ cancelled' = cancelled \cup ({armed[r.slot]} \ {0})
    BY <1>5 DEF DisarmTake, AtCall
  <2>2. CASE r.slot = s
    BY <1>0, <2>1, <2>2 DEF Kept
  <2>3. CASE r.slot # s
    <3>1. armed'[s] = armed[s] /\ CallAside(call'[t], s, owner[s])
      BY <1>0, <2>1, <2>3, GotoHas DEF CallAside
    <3> QED BY <1>3, <2>1, <3>1, GotoHas
  <2> QED BY <2>2, <2>3
<1>6. CASE DisarmFree(t)
  <2> DEFINE w == IF owner[r.slot] = r.timer THEN NoTimer ELSE owner[r.slot]
  <2>1. /\ r.pc = "release" /\ call' = [call EXCEPT ![t] = AfterDisarm(t)]
        /\ UNCHANGED <<armed, poll, log>> /\ owner' = [owner EXCEPT ![r.slot] = w]
    BY <1>6, Zenon DEF DisarmFree, AtCall, history
  <2>2. r.slot # s
    BY <1>0, <2>1 DEF CallAside
  <2>3. owner'[s] = owner[s]
    BY <1>0, <2>1, <2>2
  <2>4. call'[t] = AfterDisarm(t) /\ \A u \in Threads \ {t} : call'[u] = call[u]
    BY <2>1, Zenon DEF TypeOK
  <2>5. CallAside(call'[t], s, owner[s])
    BY <2>4, AfterDisarmHas DEF CallAside, ArmPcs
  <2> QED BY <1>3, <2>1, <2>3, <2>4, <2>5
<1>7. CASE ArmFind(t)
  <2> DEFINE y == [call[t] EXCEPT !.pc = "claim", !.slot = 0]
  <2>1. /\ r.pc = "find" /\ (owner[r.slot] # r.timer => ScanOr(t, y))
        /\ UNCHANGED <<owner, armed, poll, log>>
    BY <1>7 DEF ArmFind, AtCall, table, history
  <2>2. y.pc = "claim"
    BY <1>0 DEF CallRec
  <2>3. owner[r.slot] # r.timer
    BY <1>0, <1>2, <2>1 DEF Claimant, ArmingPcs
  <2> HIDE DEF y
  <2>4. call'[t].pc \in {"find", "claim"} /\ \A u \in Threads \ {t} : call'[u] = call[u]
    BY <2>1, <2>2, <2>3, ScanHas
  <2> QED BY <1>3, <2>1, <2>4 DEF CallAside, ArmPcs
<1>8. CASE ArmClaim(t)
  <2>1. r.pc = "claim" /\ UNCHANGED <<armed, poll, log>>
    BY <1>8 DEF ArmClaim, AtCall, history
  <2>2. CASE /\ owner[r.slot] = NoTimer /\ CallGoto(t, "drop")
             /\ owner' = [owner EXCEPT ![r.slot] = r.timer]
    <3>1. r.slot # s
      BY <1>1, <2>2
    <3>2. owner'[s] = owner[s]
      BY <1>0, <2>2, <3>1
    <3> QED BY <1>3, <2>1, <2>2, <3>1, <3>2, GotoHas DEF CallAside
  <2>3. CASE ScanOr(t, IdleCall) /\ owner' = owner
    <3>1. IdleCall.pc = "idle"
      BY DEF IdleCall
    <3>2. call'[t].pc \in {"claim", "idle"} /\ \A u \in Threads \ {t} : call'[u] = call[u]
      BY <2>1, <2>3, <3>1, ScanHas
    <3> QED BY <1>3, <2>1, <2>3, <3>2 DEF CallAside, ArmPcs
  <2> QED BY <1>8, <2>2, <2>3, Zenon DEF ArmClaim
<1>9. ASSUME r.pc \in ArmPcs, poll' = poll, owner' = owner,
             \A q \in Slots \ {r.slot} : armed'[q] = armed[q],
             log' = log \/ \E a : log' = Append(log, a),
             call'[t].pc = "idle" \/ call'[t].slot = r.slot,
             \A u \in Threads \ {t} : call'[u] = call[u]
      PROVE  Kept(s)
  <2>1. r.slot # s
    BY <1>0, <1>9 DEF CallAside
  <2>2. armed'[s] = armed[s] /\ CallAside(call'[t], s, owner[s])
    BY <1>9, <2>1 DEF CallAside, ArmPcs
  <2> QED BY <1>3, <1>9, <2>2
<1>10. CASE ArmDrop(t)
  <2>1. /\ r.pc \in ArmPcs /\ CallGoto(t, "now") /\ UNCHANGED <<poll, owner, log>>
        /\ armed' = [armed EXCEPT ![r.slot] = 0]
    BY <1>10 DEF ArmDrop, AtCall, history, ArmPcs
  <2>2. \A q \in Slots \ {r.slot} : armed'[q] = armed[q]
    BY <1>0, <2>1
  <2> QED BY <1>9, <2>1, <2>2, GotoHas
<1>11. CASE ArmNow(t)
  <2> DEFINE x == [call[t] EXCEPT !.pc = "load", !.id = Len(log) + 1]
  <2>1. call' = [call EXCEPT ![t] = x]
    BY <1>11, Zenon DEF ArmNow
  <2>2. /\ r.pc \in ArmPcs /\ UNCHANGED <<poll, owner, armed>>
        /\ \E a : log' = Append(log, a)
    BY <1>11 DEF ArmNow, AtCall, table, ArmPcs
  <2>3. x.slot = r.slot
    BY <1>0 DEF CallRec
  <2> HIDE DEF x
  <2>4. call'[t] = x /\ \A u \in Threads \ {t} : call'[u] = call[u]
    BY <2>1, Zenon DEF TypeOK
  <2> QED BY <1>9, <2>2, <2>3, <2>4
<1>12. CASE ArmLoad(t)
  <2> DEFINE x == [call[t] EXCEPT !.pc = "odd", !.gen = gen[r.slot]]
  <2>1. call' = [call EXCEPT ![t] = x]
    BY <1>12, Zenon DEF ArmLoad
  <2>2. r.pc \in ArmPcs /\ UNCHANGED <<poll, owner, armed, log>>
    BY <1>12 DEF ArmLoad, AtCall, table, history, ArmPcs
  <2>3. x.slot = r.slot
    BY <1>0 DEF CallRec
  <2> HIDE DEF x
  <2>4. call'[t] = x /\ \A u \in Threads \ {t} : call'[u] = call[u]
    BY <2>1, Zenon DEF TypeOK
  <2> QED BY <1>9, <2>2, <2>3, <2>4
<1>13. CASE ArmOdd(t)
  <2>1. r.pc \in ArmPcs /\ CallGoto(t, "write") /\ UNCHANGED <<poll, owner, armed, log>>
    BY <1>13 DEF ArmOdd, AtCall, history, ArmPcs
  <2> QED BY <1>9, <2>1, GotoHas
<1>14. CASE ArmWrite(t)
  <2> DEFINE i2 == IF r.i < Len(WriteOrder) THEN r.i + 1 ELSE 1
             pc2 == IF r.i < Len(WriteOrder) THEN "write" ELSE "even"
             x == [call[t] EXCEPT !.i = i2, !.pc = pc2]
  <2>1. call' = [call EXCEPT ![t] = x]
    BY <1>14, Zenon DEF ArmWrite
  <2>2. r.pc \in ArmPcs /\ UNCHANGED <<poll, owner, armed, log>>
    BY <1>14 DEF ArmWrite, AtCall, history, ArmPcs
  <2>3. x.slot = r.slot
    BY <1>0 DEF CallRec
  <2> HIDE DEF x, pc2, i2
  <2>4. call'[t] = x /\ \A u \in Threads \ {t} : call'[u] = call[u]
    BY <2>1, Zenon DEF TypeOK
  <2> QED BY <1>9, <2>2, <2>3, <2>4
<1>15. CASE ArmEven(t)
  <2>1. r.pc \in ArmPcs /\ CallGoto(t, "publish") /\ UNCHANGED <<poll, owner, armed, log>>
    BY <1>15 DEF ArmEven, AtCall, history, ArmPcs
  <2> QED BY <1>9, <2>1, GotoHas
<1>16. CASE ArmPublish(t)
  <2>1. /\ r.pc \in ArmPcs /\ call' = [call EXCEPT ![t] = IdleCall]
        /\ armed' = [armed EXCEPT ![r.slot] = r.id] /\ UNCHANGED <<owner, poll, log>>
    BY <1>16 DEF ArmPublish, AtCall, history, ArmPcs
  <2>2. \A q \in Slots \ {r.slot} : armed'[q] = armed[q]
    BY <1>0, <2>1
  <2>3. call'[t].pc = "idle" /\ \A u \in Threads \ {t} : call'[u] = call[u]
    BY <2>1 DEF TypeOK, IdleCall
  <2> QED BY <1>9, <2>1, <2>2, <2>3
<1> QED BY <1>4, <1>5, <1>6, <1>7, <1>8, <1>10, <1>11, <1>12, <1>13, <1>14, <1>15, <1>16,
           Zenon DEF CallStep

LEMMA NextKeepsSlot ==
  ASSUME TypeOK, BracketInv, HoldInv, [Next]_vars, NEW s \in Slots, Undisturbed(s)
  PROVE  Kept(s)
<1>1. ASSUME UNCHANGED <<owner, armed, poll, log>>, NEW t \in Threads,
             call'[t].pc = "disarm" \/ call'[t] = call[t],
             \A u \in Threads \ {t} : call'[u] = call[u]
      PROVE  Kept(s)
  <2>1. Arming(armed[s])' = Arming(armed[s])
    BY <1>1, ArmingsStay
  <2>2. \A u \in Threads : call'[u] = call[u] \/ CallAside(call'[u], s, owner[s])
    BY <1>1 DEF CallAside, ArmPcs
  <2> QED BY <1>1, <2>1, <2>2, SlotKept DEF Kept
<1>2. ASSUME UNCHANGED <<owner, armed, poll, call, log>> PROVE Kept(s)
  <2>1. Arming(armed[s])' = Arming(armed[s])
    BY <1>2, ArmingsStay
  <2> QED BY <1>2, <2>1, SlotKept DEF Kept
<1>3. CASE Tick
  BY <1>2, <1>3 DEF Tick, table, history
<1>4. ASSUME NEW t \in Threads, NEW k \in Timers, CancelTimer(t, k) PROVE Kept(s)
  <2> DEFINE x == [IdleCall EXCEPT !.pc = "disarm", !.op = "cancel", !.timer = k]
  <2>1. call' = [call EXCEPT ![t] = x] /\ UNCHANGED <<owner, armed, poll, log>>
    BY <1>4, Zenon DEF CancelTimer, table, history
  <2>2. x.pc = "disarm"
    BY DEF IdleCall
  <2> HIDE DEF x
  <2>3. call'[t] = x /\ \A u \in Threads \ {t} : call'[u] = call[u]
    BY <2>1, Zenon DEF TypeOK
  <2> QED BY <1>1, <2>1, <2>2, <2>3
<1>5. ASSUME NEW t \in Threads, NEW k \in Timers, NEW d \in Delays, NEW p \in Periods,
             SetTimer(t, k, d, p)
      PROVE  Kept(s)
  <2> DEFINE x == [IdleCall EXCEPT !.pc = "disarm", !.op = "set", !.timer = k, !.delay = d,
                                   !.period = p]
  <2>1. call' = [call EXCEPT ![t] = x] /\ UNCHANGED <<owner, armed, poll, log>>
    BY <1>5, Zenon DEF SetTimer, table
  <2>2. x.pc = "disarm"
    BY DEF IdleCall
  <2> HIDE DEF x
  <2>3. call'[t] = x /\ \A u \in Threads \ {t} : call'[u] = call[u]
    BY <2>1, Zenon DEF TypeOK
  <2> QED BY <1>1, <2>1, <2>2, <2>3
<1>6. CASE UNCHANGED vars
  BY <1>2, <1>6 DEF vars, table, history
<1> QED BY <1>3, <1>4, <1>5, <1>6, PollKeepsSlot, CallKeepsSlot, Zenon DEF Next

\* With one thread that sets timers, and one-shots, an arming that nobody has
\* an outdated look at stays in its slot, undisturbed, until a call takes it back
\* or a poll takes it with that arming's own payload.
THEOREM UndisturbedAreKept ==
  ASSUME OneSetterOneShots
  PROVE  Spec => UndisturbedIsKept
<1>1. BracketInv /\ TypeOK /\ TypeOK' /\ [Next]_vars => BracketInv'
  BY BracketNext
<1>2. TypeOK /\ BracketInv /\ HoldInv /\ [Next]_vars => HoldInv'
  BY HoldNext
<1>3. TypeOK /\ BracketInv /\ HoldInv /\ [Next]_vars =>
        [\A s \in Slots : Undisturbed(s) =>
           \/ armed'[s] = armed[s] /\ Undisturbed(s)'
           \/ armed'[s] = 0 /\ (armed[s] \in cancelled' \/ TakenToFire(s))]_vars
  BY NextKeepsSlot DEF Kept
<1> QED BY <1>1, <1>2, <1>3, BracketInit, HoldInit, TypeCorrect, PTL
        DEF Spec, UndisturbedIsKept
=============================================================================
