------------------------------ MODULE UsbOhci ------------------------------
(***************************************************************************)
(* Completion of USB transfers (xbox_usb_ohci.c, xbox_memory_layout.c).    *)
(* The title's driver keeps a list of transfer descriptors for each        *)
(* endpoint; the control list is walked in the trap of the doorbell, on    *)
(* the guest thread that rang it, and again by the periodic tick, on a     *)
(* host thread, which walks the interrupt endpoint too.  A walk runs under *)
(* a spin lock; what it owes the registers is stored after the lock is     *)
(* released.  One action per access to a shared word.  The driver is the   *)
(* title's own code: it is modelled from the calls the comments record.    *)
(***************************************************************************)
EXTENDS Naturals

CONSTANTS
  Submitters,  \* guest threads that submit transfers
  Ringers,     \* guest threads that ring the doorbell
  Tick,        \* the thread of ohci_periodic_tick
  NoWalker,    \* the walk lock is free
  MaxControl, MaxPeriodic   \* bounds on the TDs of an endpoint

Eds     == {"control", "periodic"}
Walkers == Ringers \cup {Tick}
Tds     == ({"control"} \X (0..MaxControl - 1)) \cup ({"periodic"} \X (0..MaxPeriodic - 1))
MaxOf(e) == IF e = "control" THEN MaxControl ELSE MaxPeriodic

ASSUME UsbAssumption ==
  /\ MaxControl \in Nat /\ MaxPeriodic \in Nat
  /\ Tick \notin Ringers \cup Submitters /\ NoWalker \notin Walkers

VARIABLES
  ed,        \* endpoint descriptors: HeadP, TailP, and the Halted bit
  built,     \* the threads that see all of a TD
  times,     \* how often a TD was retired
  hc,        \* HcDoneHead, and WritebackDoneHead of HcInterruptStatus
  hcca,      \* the done queue in the HCCA, until the driver takes it
  walkLock,  \* g_ohci_walk_lock
  retry,     \* g_ohci_retry_control
  walk,      \* what a thread is doing, with its xbox_ohci_service
  xpp        \* the title's driver: between taking and acknowledging, and owing a doorbell

usbVars == <<ed, built, times, hc, hcca, walkLock, retry, walk, xpp>>

IdleWalk == [pc |-> "idle", e |-> "control", cur |-> 0, tail |-> 0, done |-> {},
             wdh |-> FALSE, retired |-> FALSE]

UsbInit ==
  /\ ed = [e \in Eds |-> [head |-> 0, tail |-> 0, halted |-> FALSE]]
  /\ built = [td \in Tds |-> {}]
  /\ times = [td \in Tds |-> 0]
  /\ hc = [done |-> {}, wdh |-> FALSE]
  /\ hcca = {}
  /\ walkLock = NoWalker
  /\ retry = FALSE
  /\ walk = [t \in Walkers |-> IdleWalk]
  /\ xpp = [took |-> FALSE, owed |-> FALSE]

Walks(t, p) == walk[t].pc = p

\* mcpx_lock is held between the two stores of a commit.
Storing == \E t \in Walkers : Walks(t, "post")

-----------------------------------------------------------------------------
(* The driver.                                                             *)

\* The thread that submits sees its own stores; the others see TailP now, and
\* NextTD and the buffer of the TD some time later.
Submit(t, e) ==
  LET i == ed[e].tail IN
  /\ t \in Ringers => Walks(t, "idle")
  /\ i < MaxOf(e)
  /\ ed' = [ed EXCEPT ![e].tail = i + 1]
  /\ built' = [built EXCEPT ![<<e, i>>] = {t} \cap Walkers]
  /\ xpp' = [xpp EXCEPT !.owed = @ \/ e = "control"]
  /\ UNCHANGED <<times, hc, hcca, walkLock, retry, walk>>

Arrive(td) ==
  /\ td[2] < ed[td[1]].tail /\ built[td] # Walkers
  /\ built' = [built EXCEPT ![td] = Walkers]
  /\ UNCHANGED <<ed, times, hc, hcca, walkLock, retry, walk, xpp>>

\* ControlListFilled, from whichever guest thread: the store traps.
RingDoorbell(t) ==
  /\ t \in Ringers /\ Walks(t, "idle") /\ xpp.owed
  /\ xpp' = [xpp EXCEPT !.owed = FALSE]
  /\ walk' = [walk EXCEPT ![t].pc = "lock"]
  /\ UNCHANGED <<ed, built, times, hc, hcca, walkLock, retry>>

\* The service routine and its DPC take the queue and acknowledge it afterwards;
\* what is submitted in between rings before the acknowledgement.
TakeQueue ==
  /\ hc.wdh /\ ~xpp.took
  /\ hcca' = {}
  /\ xpp' = [xpp EXCEPT !.took = TRUE]
  /\ UNCHANGED <<ed, built, times, hc, walkLock, retry, walk>>

Acknowledge ==
  /\ xpp.took /\ ~Storing
  /\ hc' = [hc EXCEPT !.wdh = FALSE]
  /\ xpp' = [xpp EXCEPT !.took = FALSE]
  /\ UNCHANGED <<ed, built, times, hcca, walkLock, retry, walk>>

-----------------------------------------------------------------------------
(* ohci_periodic_tick, past the frame counter.  StartOfFrame, which the    *)
(* driver enables for some milliseconds of enumeration, is left out.       *)

\* Nothing is walked over an unacknowledged queue; a control list that was left
\* with a half-built TD comes before the periodic list.
TickGate ==
  /\ Walks(Tick, "idle") /\ ~hc.wdh
  /\ walk' = [walk EXCEPT ![Tick].pc = "lock", ![Tick].e = IF retry THEN "control" ELSE "periodic"]
  /\ retry' = FALSE
  /\ UNCHANGED <<ed, built, times, hc, hcca, walkLock, xpp>>

-----------------------------------------------------------------------------
(* ohci_service and xbox_OhciServiceList.                                  *)

\* HcDoneHead, and then HcInterruptStatus: neither load is under mcpx_lock.
Begun(t) == [walk EXCEPT ![t].pc = "status", ![t].done = hc.done]

LockWalk_NoLock(t) ==
  /\ Walks(t, "lock")
  /\ walkLock' = t
  /\ walk' = Begun(t)
  /\ UNCHANGED <<ed, built, times, hc, hcca, retry, xpp>>

LockWalk(t) ==
  /\ Walks(t, "lock") /\ walkLock = NoWalker
  /\ walkLock' = t
  /\ walk' = Begun(t)
  /\ UNCHANGED <<ed, built, times, hc, hcca, retry, xpp>>

ReadStatus(t) ==
  /\ Walks(t, "status")
  /\ walk' = [walk EXCEPT ![t].pc = "ed", ![t].wdh = hc.wdh]
  /\ UNCHANGED <<ed, built, times, hc, hcca, walkLock, retry, xpp>>

ReadEd(t) ==
  LET d == ed[walk[t].e] IN
  /\ Walks(t, "ed")
  /\ walk' = [walk EXCEPT ![t].pc = IF d.halted THEN "end" ELSE "run",
                          ![t].cur = d.head, ![t].tail = d.tail]
  /\ UNCHANGED <<ed, built, times, hc, hcca, walkLock, retry, xpp>>

Here(t) == <<walk[t].e, walk[t].cur>>
HalfBuilt(t, td) == t \notin built[td]
EndsAt(t) == walk' = [walk EXCEPT ![t].pc = "end", ![t].cur = 0, ![t].tail = 0]

\* Nothing is left, or the device has nothing to report on an interrupt
\* endpoint: the TD stays.
StopTds(t) ==
  /\ Walks(t, "run")
  /\ \/ walk[t].cur = walk[t].tail
     \/ /\ walk[t].e = "periodic" /\ walk[t].cur # walk[t].tail
        /\ ~HalfBuilt(t, Here(t))
  /\ EndsAt(t)
  /\ UNCHANGED <<ed, built, times, hc, hcca, walkLock, retry, xpp>>

LeaveTd_Forgets(t) ==
  /\ Walks(t, "run") /\ walk[t].cur # walk[t].tail
  /\ HalfBuilt(t, Here(t))
  /\ EndsAt(t)
  /\ UNCHANGED <<ed, built, times, hc, hcca, walkLock, retry, xpp>>

\* "A TD the driver has not finished writing" is left for the tick.
LeaveTd(t) ==
  /\ Walks(t, "run") /\ walk[t].cur # walk[t].tail
  /\ HalfBuilt(t, Here(t))
  /\ retry' = TRUE
  /\ EndsAt(t)
  /\ UNCHANGED <<ed, built, times, hc, hcca, walkLock, xpp>>

\* ohci_run_td, the done queue, and HeadP; a TD that fails halts the endpoint.
RetireTd(t) ==
  /\ Walks(t, "run") /\ walk[t].cur # walk[t].tail
  /\ ~HalfBuilt(t, Here(t))
  /\ times' = [times EXCEPT ![Here(t)] = @ + 1]
  /\ \E fails \in BOOLEAN :
       /\ ed' = [ed EXCEPT ![walk[t].e].head = walk[t].cur + 1, ![walk[t].e].halted = fails]
       /\ walk' = [walk EXCEPT ![t].cur = @ + 1, ![t].done = @ \cup {Here(t)},
                               ![t].retired = TRUE, ![t].pc = IF fails THEN "end" ELSE "run"]
  /\ UNCHANGED <<built, hc, hcca, walkLock, retry, xpp>>

\* The queue is published unless the status that was read held one back, and
\* the lock is released with the registers still to be stored.  A retry that
\* owes nothing goes on to the periodic list.
EndWalk(t) ==
  LET w == walk[t]
      publish == ~w.wdh /\ w.done # {} IN
  /\ Walks(t, "end")
  /\ walkLock' = NoWalker
  /\ hcca' = IF publish THEN w.done ELSE hcca
  /\ walk' = [walk EXCEPT ![t] =
       IF publish THEN [IdleWalk EXCEPT !.pc = "commit", !.wdh = TRUE]
       ELSE IF w.retired THEN [IdleWalk EXCEPT !.pc = "commit", !.wdh = w.wdh, !.done = w.done]
       ELSE IF t = Tick /\ w.e = "control" THEN [IdleWalk EXCEPT !.pc = "lock", !.e = "periodic"]
       ELSE IdleWalk]
  /\ UNCHANGED <<ed, built, times, hc, retry, xpp>>

\* ohci_service_commit, and mcpx_hw_store_n_or_last from the tick: HcDoneHead
\* and then the status, under mcpx_lock.
Commit(t) ==
  /\ Walks(t, "commit") /\ ~Storing
  /\ hc' = [hc EXCEPT !.done = walk[t].done]
  /\ walk' = [walk EXCEPT ![t].pc = "post"]
  /\ UNCHANGED <<ed, built, times, hcca, walkLock, retry, xpp>>

PostStatus(t) ==
  /\ Walks(t, "post")
  /\ hc' = [hc EXCEPT !.wdh = @ \/ walk[t].wdh]
  /\ walk' = [walk EXCEPT ![t] = IdleWalk]
  /\ UNCHANGED <<ed, built, times, hcca, walkLock, retry, xpp>>

WalkStep(t) ==
  \/ ReadStatus(t) \/ ReadEd(t) \/ StopTds(t) \/ LeaveTd(t) \/ RetireTd(t) \/ EndWalk(t)
  \/ Commit(t) \/ PostStatus(t)

UsbNext ==
  \/ \E t \in Ringers : RingDoorbell(t)
  \/ \E t \in Submitters, e \in Eds : Submit(t, e)
  \/ \E td \in Tds : Arrive(td)
  \/ TakeQueue \/ Acknowledge \/ TickGate
  \/ \E t \in Walkers : LockWalk(t) \/ WalkStep(t)

UsbSpec == UsbInit /\ [][UsbNext]_usbVars

-----------------------------------------------------------------------------

WalkPcs == {"idle", "lock", "status", "ed", "run", "end", "commit", "post"}
WalkRec == [pc : WalkPcs, e : Eds, cur : Nat, tail : Nat, done : SUBSET Tds,
            wdh : BOOLEAN, retired : BOOLEAN]

\* Types of the schedule, the registers and the walks.
UsbTypeOK ==
  /\ ed \in [Eds -> [head : Nat, tail : Nat, halted : BOOLEAN]]
  /\ \A e \in Eds : ed[e].head <= ed[e].tail /\ ed[e].tail <= MaxOf(e)
  /\ times \in [Tds -> Nat]
  /\ hc \in [done : SUBSET Tds, wdh : BOOLEAN] /\ hcca \subseteq Tds
  /\ built \in [Tds -> SUBSET Walkers]
  /\ walkLock \in Walkers \cup {NoWalker} /\ retry \in BOOLEAN
  /\ walk \in [Walkers -> WalkRec] /\ xpp \in [took : BOOLEAN, owed : BOOLEAN]

\* "two concurrent walks would run the same TD twice": a TD that HeadP has
\* passed was run once, and none that it has not passed.
RetiredOnce ==
  \A td \in Tds : times[td] = IF td[2] < ed[td[1]].head THEN 1 ELSE 0

\* "leave it queued and let the tick retry": a control TD is retired, or is behind
\* one that failed, although it was found half built after its doorbell had rung
\* and whatever the walks and acknowledgements do to the status in between.
QueuedServed ==
  \A td \in Tds : (td[1] = "control" /\ td[2] < ed[td[1]].tail) ~>
                    (times[td] > 0 \/ ed[td[1]].halted)

\* "A done queue the driver has not acknowledged yet is not ours to replace":
\* what is published stays until the driver takes it.
QueueNotReplaced == [][hcca # {} => hcca' \in {hcca, {}}]_usbVars

=============================================================================
