---------------------------- MODULE TimerTable ----------------------------
(***************************************************************************)
(* The table of guest timers in src/src/kernel/kernel_bridge.c: KeSetTimer,*)
(* KeSetTimerEx and KeCancelTimer write it, and bridge_timers_poll, called *)
(* by every guest thread on every kernel call and by the interrupt thread  *)
(* once a millisecond, fires what is due.  There is no lock: `owner' is    *)
(* allocated by compare-and-swap, the payload is bracketed by the          *)
(* generation `gen', and `armed' is claimed by an atomic exchange.         *)
(*                                                                         *)
(* Each access to a shared word is one action.  A read of the clock is     *)
(* merged with the shared access that follows it.                          *)
(*                                                                         *)
(* Every arming has a number, given when its time is read, and `log' keeps *)
(* what it asked for.  Where the code stores 1 in `armed' the model stores *)
(* the number of the arming that stored it, and where it stores a payload  *)
(* value the model stores the number of the arming the value belongs to:   *)
(* nothing reads the number except to get the value, and the properties.   *)
(***************************************************************************)
EXTENDS Integers, Sequences

CONSTANTS
  Threads,   \* guest threads and the interrupt thread
  Timers,    \* addresses of guest KTIMER objects
  NoTimer,   \* the null address
  NSlots,    \* BRIDGE_MAX_TIMERS
  Pollers,   \* threads whose polls are modelled
  Setters,   \* per thread: the timers it sets
  Cancels,   \* per thread: the timers it cancels
  Rearmed,   \* timers whose DPC routine sets them again
  Delays,    \* due times, in milliseconds
  Periods,   \* periods, 0 for a one-shot
  Word,      \* 2^32: the clock and the deadlines wrap at it
  Start,     \* the clock at the start
  MaxTicks,  \* bound on the time that passes
  MaxSets    \* bound on the calls that set a timer

ASSUME TimerAssumption ==
  /\ NoTimer \notin Timers
  /\ NSlots \in Nat \ {0}
  /\ Pollers \subseteq Threads
  /\ Setters \in [Threads -> SUBSET Timers]
  /\ Cancels \in [Threads -> SUBSET Timers]
  /\ Rearmed \subseteq Timers
  /\ Delays \subseteq Nat /\ Periods \subseteq Nat
  /\ Word \in Nat \ {0} /\ Start \in 0 .. Word - 1
  /\ MaxTicks \in Nat /\ MaxSets \in Nat

Slots == 0 .. NSlots - 1

\* The payload of a slot, in the order it is written, read, and rewritten for
\* the next period.
WriteOrder   == <<"dpc", "period", "deadline", "armed_at", "delay">>
ReadOrder    == <<"deadline", "dpc", "period", "armed_at", "delay">>
PeriodOrder  == <<"deadline", "armed_at", "delay">>
Fields == {"dpc", "period", "deadline", "armed_at", "delay"}

VARIABLES
  clock,      \* GetTickCount()
  owner,      \* per slot: the timer it is allocated to, or NoTimer
  gen,        \* per slot: generation, odd while the payload is in flux
  armed,      \* per slot: 0, or the arming that set the flag
  payload,    \* per slot and field: the arming the value belongs to
  poll,       \* per thread: where it is in bridge_timers_poll
  call,       \* per thread: where it is in KeSetTimer or KeCancelTimer
  sets,       \* calls that set a timer so far
  log,        \* the armings
  taken,      \* the armings whose flag an exchange took
  cancelled   \* those of them that bridge_disarm_timer took

table == <<owner, gen, armed, payload>>
history == <<sets, log, taken, cancelled>>
vars == <<clock, table, poll, call, history>>

NoArming == [timer |-> NoTimer, at |-> 0, delay |-> 0, period |-> 0]
Arming(n) == IF n = 0 THEN NoArming ELSE log[n]
Deadline(n) == (Arming(n).at + Arming(n).delay) % Word

\* Fault: compares the clock and the deadline as they are, unsigned.
Due_Unsigned(now, deadline) == now >= deadline

\* (int32_t)(now - deadline) >= 0
Due(now, deadline) == (now - deadline) % Word < Word \div 2

IdlePoll == [pc |-> "idle", now |-> 0, slot |-> 0, gen |-> 0, i |-> 1,
             snap |-> [f \in Fields |-> 0], own |-> NoTimer,
             id |-> 0]
IdleCall == [pc |-> "idle", op |-> "set", timer |-> NoTimer, delay |-> 0,
             period |-> 0, slot |-> 0, gen |-> 0, i |-> 1, id |-> 0]

Init ==
  /\ clock = Start
  /\ owner = [s \in Slots |-> NoTimer]
  /\ gen = [s \in Slots |-> 0]
  /\ armed = [s \in Slots |-> 0]
  /\ payload = [s \in Slots |-> [f \in Fields |-> 0]]
  /\ poll = [t \in Threads |-> IdlePoll]
  /\ call = [t \in Threads |-> IdleCall]
  /\ sets = 0
  /\ log = <<>>
  /\ taken = {}
  /\ cancelled = {}

Elapsed == (clock - Start) % Word

Tick ==
  /\ Elapsed < MaxTicks
  /\ clock' = (clock + 1) % Word
  /\ UNCHANGED <<table, poll, call, history>>

-----------------------------------------------------------------------------
(* bridge_timers_poll.                                                     *)

\* A thread inside a DPC makes calls; otherwise a poll runs to its end before
\* the thread does anything else.
AtPoll(t, pc) == poll[t].pc = pc /\ call[t].pc = "idle"

PollGoto(t, pc) == poll' = [poll EXCEPT ![t].pc = pc]

NextSlot(t) ==
  poll' = [poll EXCEPT ![t] =
    IF poll[t].slot + 1 < NSlots
    THEN [IdlePoll EXCEPT !.pc = "armed", !.now = poll[t].now, !.slot = poll[t].slot + 1]
    ELSE IdlePoll]

\* Not reached with g_in_dpc set: a thread inside a DPC is not idle here.
PollBegin(t) ==
  /\ AtPoll(t, "idle")
  /\ poll' = [poll EXCEPT ![t].pc = "armed", ![t].now = clock]
  /\ UNCHANGED <<clock, table, call, history>>

PollArmed(t) ==
  /\ AtPoll(t, "armed")
  /\ IF armed[poll[t].slot] = 0 THEN NextSlot(t) ELSE PollGoto(t, "gen")
  /\ UNCHANGED <<clock, table, call, history>>

PollGen(t) ==
  /\ AtPoll(t, "gen")
  /\ LET g == gen[poll[t].slot]
     IN  IF g % 2 = 1
         THEN NextSlot(t)
         ELSE poll' = [poll EXCEPT ![t].pc = "read", ![t].gen = g]
  /\ UNCHANGED <<clock, table, call, history>>

PollRead(t) ==
  /\ AtPoll(t, "read")
  /\ LET f == ReadOrder[poll[t].i]
     IN  poll' = [poll EXCEPT
           ![t].snap[f] = payload[poll[t].slot][f],
           ![t].i  = IF poll[t].i < Len(ReadOrder) THEN poll[t].i + 1 ELSE 1,
           ![t].pc = IF poll[t].i < Len(ReadOrder) THEN "read" ELSE "owner"]
  /\ UNCHANGED <<clock, table, call, history>>

PollOwner(t) ==
  /\ AtPoll(t, "owner")
  /\ poll' = [poll EXCEPT ![t].own = owner[poll[t].slot], ![t].pc = "check"]
  /\ UNCHANGED <<clock, table, call, history>>

\* The second load of the generation, then the due test on the snapshot.
PollCheck(t) ==
  /\ AtPoll(t, "check")
  /\ IF /\ gen[poll[t].slot] = poll[t].gen
        /\ Due(poll[t].now, Deadline(poll[t].snap.deadline))
     THEN PollGoto(t, "claim")
     ELSE NextSlot(t)
  /\ UNCHANGED <<clock, table, call, history>>

\* Fault: the flag is tested and left set.
PollClaim_TestOnly(t) ==
  /\ AtPoll(t, "claim")
  /\ LET n == armed[poll[t].slot]
     IN  IF n = 0
         THEN NextSlot(t) /\ UNCHANGED taken
         ELSE /\ PollGoto(t, "free")
              /\ taken' = taken \cup {n}
  /\ UNCHANGED <<clock, table, call, sets, log, cancelled>>

\* The exchange.  What it read decides: a loser moves on, the winner acts on
\* its snapshot.
PollClaim(t) ==
  /\ AtPoll(t, "claim")
  /\ LET n == armed[poll[t].slot]
     IN  /\ armed' = [armed EXCEPT ![poll[t].slot] = 0]
         /\ IF n = 0
            THEN NextSlot(t) /\ UNCHANGED taken
            ELSE /\ PollGoto(t, IF Arming(poll[t].snap.period).period > 0
                             THEN "load" ELSE "free")
                 /\ taken' = taken \cup {n}
  /\ UNCHANGED <<clock, owner, gen, payload, call, sets, log, cancelled>>

\* One-shot: owner goes back to 0 if it still is what the snapshot says.
PollFree(t) ==
  /\ AtPoll(t, "free")
  /\ owner' = [owner EXCEPT ![poll[t].slot] = IF @ = poll[t].own THEN NoTimer ELSE @]
  /\ PollGoto(t, "dpc")
  /\ UNCHANGED <<clock, gen, armed, payload, call, history>>

\* Periodic: publish the next period in the same slot.
PollLoad(t) ==
  /\ AtPoll(t, "load")
  /\ log' = Append(log, [timer |-> Arming(poll[t].snap.dpc).timer, at |-> poll[t].now,
                         delay |-> Arming(poll[t].snap.period).period,
                         period |-> Arming(poll[t].snap.period).period])
  /\ poll' = [poll EXCEPT ![t].gen = gen[poll[t].slot], ![t].pc = "odd",
                          ![t].id = Len(log) + 1]
  /\ UNCHANGED <<clock, table, call, sets, taken, cancelled>>

PollOdd(t) ==
  /\ AtPoll(t, "odd")
  /\ gen' = [gen EXCEPT ![poll[t].slot] = poll[t].gen + 1]
  /\ PollGoto(t, "write")
  /\ UNCHANGED <<clock, owner, armed, payload, call, history>>

PollWrite(t) ==
  /\ AtPoll(t, "write")
  /\ payload' = [payload EXCEPT ![poll[t].slot][PeriodOrder[poll[t].i]] = poll[t].id]
  /\ poll' = [poll EXCEPT
       ![t].i  = IF poll[t].i < Len(PeriodOrder) THEN poll[t].i + 1 ELSE 1,
       ![t].pc = IF poll[t].i < Len(PeriodOrder) THEN "write" ELSE "even"]
  /\ UNCHANGED <<clock, owner, gen, armed, call, history>>

PollEven(t) ==
  /\ AtPoll(t, "even")
  /\ gen' = [gen EXCEPT ![poll[t].slot] = poll[t].gen + 2]
  /\ PollGoto(t, "publish")
  /\ UNCHANGED <<clock, owner, armed, payload, call, history>>

PollPublish(t) ==
  /\ AtPoll(t, "publish")
  /\ armed' = [armed EXCEPT ![poll[t].slot] = poll[t].id]
  /\ PollGoto(t, "dpc")
  /\ UNCHANGED <<clock, owner, gen, payload, call, history>>

\* The DPC returns.  While it runs it may set its timer: see SetTimer.
DpcReturn(t) ==
  /\ AtPoll(t, "dpc")
  /\ NextSlot(t)
  /\ UNCHANGED <<clock, table, call, history>>

-----------------------------------------------------------------------------
(* KeSetTimer, KeSetTimerEx and KeCancelTimer.                             *)

AtCall(t, pc) == call[t].pc = pc

CallGoto(t, pc) == call' = [call EXCEPT ![t].pc = pc]

\* Fault: the scan goes one slot past the table.
ScanOr_PastEnd(t, next) ==
  call' = [call EXCEPT ![t] =
    IF call[t].slot < NSlots THEN [call[t] EXCEPT !.slot = call[t].slot + 1] ELSE next]

\* The next slot of the scan the call is in, or what follows the last one.
ScanOr(t, next) ==
  call' = [call EXCEPT ![t] =
    IF call[t].slot + 1 < NSlots
    THEN [call[t] EXCEPT !.slot = call[t].slot + 1]
    ELSE next]

\* The timer a thread's DPC belongs to sets it again, if its routine does.
InDpcOf(t, k) == poll[t].pc = "dpc" /\ Arming(poll[t].snap.dpc).timer = k

SetTimer(t, k, d, p) ==
  /\ AtCall(t, "idle")
  /\ \/ poll[t].pc = "idle" /\ k \in Setters[t]
     \/ InDpcOf(t, k) /\ k \in Rearmed
  /\ sets < MaxSets
  /\ sets' = sets + 1
  /\ call' = [call EXCEPT ![t] = [IdleCall EXCEPT
       !.pc = "disarm", !.op = "set", !.timer = k, !.delay = d, !.period = p]]
  /\ UNCHANGED <<clock, table, poll, log, taken, cancelled>>

CancelTimer(t, k) ==
  /\ AtCall(t, "idle") /\ poll[t].pc = "idle"
  /\ k \in Cancels[t]
  /\ call' = [call EXCEPT ![t] = [IdleCall EXCEPT
       !.pc = "disarm", !.op = "cancel", !.timer = k]]
  /\ UNCHANGED <<clock, table, poll, history>>

\* bridge_disarm_timer is over: a cancel returns, a set goes on to arm.
AfterDisarm(t) ==
  IF call[t].op = "cancel"
  THEN IdleCall
  ELSE [call[t] EXCEPT !.pc = "find", !.slot = 0]

DisarmScan(t) ==
  /\ AtCall(t, "disarm")
  /\ IF owner[call[t].slot] = call[t].timer
     THEN CallGoto(t, "take")
     ELSE ScanOr(t, AfterDisarm(t))
  /\ UNCHANGED <<clock, table, poll, history>>

\* The exchange; what it read is what the guest is told.
DisarmTake(t) ==
  /\ AtCall(t, "take")
  /\ LET n == armed[call[t].slot]
     IN  /\ armed' = [armed EXCEPT ![call[t].slot] = 0]
         /\ taken' = taken \cup ({n} \ {0})
         /\ cancelled' = cancelled \cup ({n} \ {0})
  /\ CallGoto(t, "release")
  /\ UNCHANGED <<clock, owner, gen, payload, poll, sets, log>>

DisarmFree(t) ==
  /\ AtCall(t, "release")
  /\ owner' = [owner EXCEPT ![call[t].slot] = IF @ = call[t].timer THEN NoTimer ELSE @]
  /\ call' = [call EXCEPT ![t] = AfterDisarm(t)]
  /\ UNCHANGED <<clock, gen, armed, payload, poll, history>>

\* bridge_arm_timer: the slot the timer already has, ...
ArmFind(t) ==
  /\ AtCall(t, "find")
  /\ IF owner[call[t].slot] = call[t].timer
     THEN CallGoto(t, "drop")
     ELSE ScanOr(t, [call[t] EXCEPT !.pc = "claim", !.slot = 0])
  /\ UNCHANGED <<clock, table, poll, history>>

\* ... or the first free one; if there is none, the call is refused.
ArmClaim(t) ==
  /\ AtCall(t, "claim")
  /\ IF owner[call[t].slot] = NoTimer
     THEN /\ owner' = [owner EXCEPT ![call[t].slot] = call[t].timer]
          /\ CallGoto(t, "drop")
     ELSE ScanOr(t, IdleCall) /\ UNCHANGED owner
  /\ UNCHANGED <<clock, gen, armed, payload, poll, history>>

ArmDrop(t) ==
  /\ AtCall(t, "drop")
  /\ armed' = [armed EXCEPT ![call[t].slot] = 0]
  /\ CallGoto(t, "now")
  /\ UNCHANGED <<clock, owner, gen, payload, poll, history>>

ArmNow(t) ==
  /\ AtCall(t, "now")
  /\ log' = Append(log, [timer |-> call[t].timer, at |-> clock,
                         delay |-> call[t].delay, period |-> call[t].period])
  /\ call' = [call EXCEPT ![t].pc = "load", ![t].id = Len(log) + 1]
  /\ UNCHANGED <<clock, table, poll, sets, taken, cancelled>>

ArmLoad(t) ==
  /\ AtCall(t, "load")
  /\ call' = [call EXCEPT ![t].pc = "odd", ![t].gen = gen[call[t].slot]]
  /\ UNCHANGED <<clock, table, poll, history>>

\* Fault: the generation is left even while the payload is written.
ArmOdd_StaysEven(t) ==
  /\ AtCall(t, "odd")
  /\ CallGoto(t, "write")
  /\ UNCHANGED <<clock, table, poll, history>>

ArmOdd(t) ==
  /\ AtCall(t, "odd")
  /\ gen' = [gen EXCEPT ![call[t].slot] = call[t].gen + 1]
  /\ CallGoto(t, "write")
  /\ UNCHANGED <<clock, owner, armed, payload, poll, history>>

ArmWrite(t) ==
  /\ AtCall(t, "write")
  /\ payload' = [payload EXCEPT ![call[t].slot][WriteOrder[call[t].i]] = call[t].id]
  /\ call' = [call EXCEPT
       ![t].i  = IF call[t].i < Len(WriteOrder) THEN call[t].i + 1 ELSE 1,
       ![t].pc = IF call[t].i < Len(WriteOrder) THEN "write" ELSE "even"]
  /\ UNCHANGED <<clock, owner, gen, armed, poll, history>>

\* Fault: the generation goes back to what it was.
ArmEven_Unmoved(t) ==
  /\ AtCall(t, "even")
  /\ gen' = [gen EXCEPT ![call[t].slot] = call[t].gen]
  /\ CallGoto(t, "publish")
  /\ UNCHANGED <<clock, owner, armed, payload, poll, history>>

ArmEven(t) ==
  /\ AtCall(t, "even")
  /\ gen' = [gen EXCEPT ![call[t].slot] = call[t].gen + 2]
  /\ CallGoto(t, "publish")
  /\ UNCHANGED <<clock, owner, armed, payload, poll, history>>

ArmPublish(t) ==
  /\ AtCall(t, "publish")
  /\ armed' = [armed EXCEPT ![call[t].slot] = call[t].id]
  /\ call' = [call EXCEPT ![t] = IdleCall]
  /\ UNCHANGED <<clock, owner, gen, payload, poll, history>>

-----------------------------------------------------------------------------
PollStep(t) ==
  \/ PollArmed(t) \/ PollGen(t) \/ PollRead(t) \/ PollOwner(t) \/ PollCheck(t)
  \/ PollClaim(t) \/ PollFree(t) \/ PollLoad(t) \/ PollOdd(t) \/ PollWrite(t)
  \/ PollEven(t) \/ PollPublish(t) \/ DpcReturn(t)

CallStep(t) ==
  \/ DisarmScan(t) \/ DisarmTake(t) \/ DisarmFree(t) \/ ArmFind(t)
  \/ ArmClaim(t) \/ ArmDrop(t) \/ ArmNow(t) \/ ArmLoad(t) \/ ArmOdd(t)
  \/ ArmWrite(t) \/ ArmEven(t) \/ ArmPublish(t)

Next ==
  \/ Tick
  \/ \E t \in Pollers : PollBegin(t) \/ PollStep(t)
  \/ \E t \in Threads : CallStep(t)
  \/ \E t \in Threads, k \in Timers :
       \/ CancelTimer(t, k)
       \/ \E d \in Delays, p \in Periods : SetTimer(t, k, d, p)

Spec == Init /\ [][Next]_vars

\* Time passes, every thread polls (the interrupt thread does so once a
\* millisecond) and no thread stops inside a poll or a call.  Nobody has to
\* make a call.
FairSpec ==
  /\ Spec
  /\ WF_vars(Tick)
  /\ \A t \in Pollers : WF_vars(PollBegin(t) \/ PollStep(t))
  /\ \A t \in Threads : WF_vars(CallStep(t))

-----------------------------------------------------------------------------
(* Properties.                                                             *)

Ids == 0 .. Len(log)

ArmingRec == [timer : Timers \cup {NoTimer}, at : 0 .. Word - 1, delay : Nat, period : Nat]

PollRec == [pc : {"idle", "armed", "gen", "read", "owner", "check", "claim", "free",
                  "load", "odd", "write", "even", "publish", "dpc"},
            now : 0 .. Word - 1, slot : Slots, gen : Nat, i : 1 .. 5,
            snap : [Fields -> Ids], own : Timers \cup {NoTimer},
            id : Ids]

CallRec == [pc : {"idle", "disarm", "take", "release", "find", "claim", "drop",
                  "now", "load", "odd", "write", "even", "publish"},
            op : {"set", "cancel"}, timer : Timers \cup {NoTimer}, delay : Delays \cup {0},
            period : Periods \cup {0}, slot : Slots, gen : Nat, i : 1 .. 5, id : Ids]

\* Every variable has its type; the ids that are stored are of armings in the
\* log.
TypeOK ==
  /\ clock \in 0 .. Word - 1
  /\ owner \in [Slots -> Timers \cup {NoTimer}]
  /\ gen \in [Slots -> Nat]
  /\ armed \in [Slots -> Ids]
  /\ payload \in [Slots -> [Fields -> Ids]]
  /\ poll \in [Threads -> PollRec]
  /\ call \in [Threads -> CallRec]
  /\ sets \in Nat
  /\ log \in Seq(ArmingRec)
  /\ taken \subseteq Ids \ {0}
  /\ cancelled \subseteq taken

\* "EXACTLY ONE thread can observe the old value 1": an arming that an exchange
\* took is never in a slot again, nor can two slots offer the same one.
TakenOnce ==
  \A s \in Slots : armed[s] # 0 =>
    /\ armed[s] \notin taken
    /\ \A r \in Slots : armed[r] = armed[s] => r = s

\* Past the second load of gen, a poller's snapshot is one arming's payload:
\* "a poller can no longer act on half an arming".  This is for one thread that
\* sets timers, and one-shots: with two writers the bracket is no lock.
SnapshotWhole ==
  \A t \in Pollers : poll[t].pc \in {"claim", "free", "dpc"} =>
    \A f \in Fields : poll[t].snap[f] = poll[t].snap.deadline

\* An arming that a call took back is never run: "cancelling and firing cannot
\* both happen".
CancelledNeverRuns ==
  \A t \in Pollers : poll[t].pc = "dpc" => poll[t].snap.dpc \notin cancelled

\* A generation is odd only while a thread is writing: a poller that finds it
\* odd loses one pass.
OddIsTransient ==
  \A s \in Slots : gen[s] % 2 = 1 =>
    \E t \in Threads :
      \/ poll[t].slot = s /\ poll[t].pc \in {"odd", "write", "even"}
      \/ call[t].slot = s /\ call[t].pc \in {"odd", "write", "even"}

\* Where a call stores in a slot it has chosen.
ArmPcs == {"drop", "now", "load", "odd", "write", "even", "publish"}

\* Slot s holds an arming of the timer it is allocated to, and nobody is about
\* to exchange or release on the strength of an earlier look at it: no poll whose
\* snapshot is of an earlier arming, no poll or call that has taken an earlier
\* one and has yet to release its slot, and no call that chose the slot before.
Undisturbed(s) ==
  /\ armed[s] # 0
  /\ owner[s] = Arming(armed[s]).timer
  /\ \A t \in Pollers : poll[t].slot = s =>
       /\ poll[t].pc # "free"
       /\ poll[t].pc = "claim" => poll[t].snap.deadline = armed[s]
  /\ \A t \in Threads : call[t].slot = s =>
       /\ call[t].pc \notin ArmPcs \cup {"release"}
       /\ call[t].pc = "take" => call[t].timer = owner[s]

\* A poll takes the arming in slot s, with that arming's payload.
TakenToFire(s) ==
  \E t \in Pollers :
    /\ poll[t].slot = s /\ poll[t].pc = "claim" /\ poll'[t].pc = "free"
    /\ \A f \in Fields : poll'[t].snap[f] = armed[s]

\* An undisturbed arming stays so, in its slot, until a call takes it back or a
\* poll takes it to run the DPC it asked for: no step can bring an outdated look
\* at the slot up to the exchange.  This is for one thread that sets timers, and
\* one-shots.  It says nothing of the arming that a poll with an earlier
\* snapshot takes (see CancelledNeverRuns), or whose slot is released under it.
UndisturbedIsKept ==
  [][\A s \in Slots : Undisturbed(s) =>
       \/ armed'[s] = armed[s] /\ Undisturbed(s)'
       \/ armed'[s] = 0 /\ (armed[s] \in cancelled' \/ TakenToFire(s))]_vars

\* The clock reaches the deadline within the bound.
Comes(n) == ((Arming(n).at - Start) % Word) + Arming(n).delay <= MaxTicks

\* The DPC that arming n asked for is run.
Runs(n) == \E t \in Pollers : poll[t].pc = "dpc" /\ poll[t].snap.dpc = n

\* An undisturbed arming whose time comes has its own DPC run, unless a call
\* takes it back: it does not stay, and no other DPC is run in its place.  The
\* clock wraps on the way.
ArmedFires ==
  \A s \in Slots, n \in 1 .. MaxSets :
    (armed[s] = n /\ Comes(n) /\ Undisturbed(s)) ~> (Runs(n) \/ n \in cancelled)

=============================================================================
