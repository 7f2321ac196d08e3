---------------------------- MODULE NvInterrupts ----------------------------
(***************************************************************************)
(* The two interrupts of the GPU (kernel_bridge.c, xbox_memory_layout.c).  *)
(* A source (PCRTC for the vertical blank, PGRAPH for software methods) is *)
(* raised by the runtime and acknowledged by the guest through a page      *)
(* fault; NV_PMC_INTR_0 is meant to summarise both, but is plain memory    *)
(* that the raise, the acknowledgement, every pump and the guest's own     *)
(* stores write separately.  One action per access to a shared register;   *)
(* the handler of the guest is external, as the comments above             *)
(* NV_PMC_INTR_0 and jsrf_vblank_ack_probe list it.                        *)
(***************************************************************************)
EXTENDS Naturals

CONSTANTS
  NvPumps,      \* guest threads that wait, and so pump
  NvFree,       \* nobody
  UpMirror,     \* RECOMP_NV2A_PMC_UPMIRROR
  MaxStray,     \* bound: plain guest stores to NV_PMC_INTR_0
  MaxMethods    \* bound: software methods

ASSUME NvAssumption ==
  NvFree \notin NvPumps /\ UpMirror \in BOOLEAN /\ MaxStray \in Nat /\ MaxMethods \in Nat

VARIABLES
  pcrtc,        \* NV_PCRTC_INTR_0, bit VBLANK
  pmc,          \* NV_PMC_INTR_0: [crtc, graph]
  graph,        \* PGRAPH: [err: INTR error, data: a trap is there, fifo: access]
  regLock,      \* mcpx_lock
  vbDue,        \* next_vblank has passed
  busy,         \* the thread that has vector 3 in service
  nv,           \* what each pump is doing
  pusher,       \* what the pusher thread is doing
  stray,        \* plain stores so far
  methods       \* software methods so far

nvVars == <<pcrtc, pmc, graph, regLock, vbDue, busy, nv, pusher, stray, methods>>

NvPcs == {"idle", "down", "sum", "up", "err", "trap", "upg", "method", "pmc", "due",
          "take", "pending", "raise", "raisesum", "deliver", "isr", "ack", "acksum",
          "spin", "signal", "isrgraph", "ackgraph", "ackpmc", "fifo", "return"}
\* then: where a pump goes on when the routine returns.
NvRec == [pc : NvPcs, then : {"due", "idle"}]
PusherPcs == {"idle", "check", "refused", "lock", "fifo0", "err1", "pmc1", "wait"}
Pusher == "pusher"

NvInit ==
  /\ pcrtc = 0
  /\ pmc = [crtc |-> 0, graph |-> 0]
  /\ graph = [err |-> 0, data |-> 0, fifo |-> 1]
  /\ regLock = NvFree
  /\ vbDue = FALSE
  /\ busy = NvFree
  /\ nv = [t \in NvPumps |-> [pc |-> "idle", then |-> "idle"]]
  /\ pusher = "idle"
  /\ stray = 0 /\ methods = 0

Is(t, p) == nv[t].pc = p
Move(t, p) == nv' = [nv EXCEPT ![t] = [pc |-> p, then |-> nv[t].then]]
Call(t, after) == nv' = [nv EXCEPT ![t] = [pc |-> "deliver", then |-> after]]
Return(t) == nv' = [nv EXCEPT ![t] = [pc |-> nv[t].then, then |-> "idle"]]

-----------------------------------------------------------------------------
(* bridge_nv2a_mirror_intr.                                                *)

MirrorSource(t) ==
  /\ Is(t, "idle")
  /\ Move(t, IF pcrtc = 0 THEN "down" ELSE "sum")
  /\ UNCHANGED <<pcrtc, pmc, graph, regLock, vbDue, busy, pusher, stray, methods>>

MirrorDown(t) ==
  /\ Is(t, "down")
  /\ pmc' = [pmc EXCEPT !.crtc = 0]
  /\ Move(t, "err")
  /\ UNCHANGED <<pcrtc, graph, regLock, vbDue, busy, pusher, stray, methods>>

MirrorSum_DownOnly(t) ==
  /\ Is(t, "sum") /\ Move(t, "err")
  /\ UNCHANGED <<pcrtc, pmc, graph, regLock, vbDue, busy, pusher, stray, methods>>

MirrorSum(t) ==
  /\ Is(t, "sum")
  /\ Move(t, IF pmc.crtc = 0 /\ UpMirror THEN "up" ELSE "err")
  /\ UNCHANGED <<pcrtc, pmc, graph, regLock, vbDue, busy, pusher, stray, methods>>

MirrorUp(t) ==
  /\ Is(t, "up")
  /\ pmc' = [pmc EXCEPT !.crtc = 1]
  /\ Move(t, "err")
  /\ UNCHANGED <<pcrtc, graph, regLock, vbDue, busy, pusher, stray, methods>>

MirrorErr(t) ==
  /\ Is(t, "err")
  /\ Move(t, IF graph.err = 1 THEN "trap" ELSE "method")
  /\ UNCHANGED <<pcrtc, pmc, graph, regLock, vbDue, busy, pusher, stray, methods>>

\* The trap registers are the pusher's until the guest gives FIFO access back.
MirrorTrap(t) ==
  /\ Is(t, "trap")
  /\ Move(t, IF graph.data = 1 /\ graph.fifo = 0 THEN "upg" ELSE "method")
  /\ UNCHANGED <<pcrtc, pmc, graph, regLock, vbDue, busy, pusher, stray, methods>>


MirrorGraph(t) ==
  /\ Is(t, "upg")
  /\ pmc' = [pmc EXCEPT !.graph = 1]
  /\ Move(t, "method")
  /\ UNCHANGED <<pcrtc, graph, regLock, vbDue, busy, pusher, stray, methods>>

-----------------------------------------------------------------------------
(* bridge_vblank_poll after the mirror.                                    *)

\* xbox_Nv2aSoftwareMethodPending.
MethodPending == graph.err = 1 \/ (graph.data = 1 /\ graph.fifo = 0)

PollMethod(t) ==
  /\ Is(t, "method")
  /\ Move(t, IF MethodPending THEN "pmc" ELSE "due")
  /\ UNCHANGED <<pcrtc, pmc, graph, regLock, vbDue, busy, pusher, stray, methods>>

PollPmc(t) ==
  /\ Is(t, "pmc")
  /\ IF pmc.graph = 1 THEN Call(t, "due") ELSE Move(t, "due")
  /\ UNCHANGED <<pcrtc, pmc, graph, regLock, vbDue, busy, pusher, stray, methods>>

\* The deadline is read and then moved on: two pumps can both find it passed.
PollDue(t) ==
  /\ Is(t, "due")
  /\ Move(t, IF vbDue THEN "take" ELSE "idle")
  /\ UNCHANGED <<pcrtc, pmc, graph, regLock, vbDue, busy, pusher, stray, methods>>

PollTake(t) ==
  /\ Is(t, "take")
  /\ vbDue' = FALSE
  /\ Move(t, "pending")
  /\ UNCHANGED <<pcrtc, pmc, graph, regLock, busy, pusher, stray, methods>>

PollPending_NoService(t) ==
  /\ Is(t, "pending")
  /\ Move(t, IF pcrtc = 1 THEN "idle" ELSE "raise")
  /\ UNCHANGED <<pcrtc, pmc, graph, regLock, vbDue, busy, pusher, stray, methods>>

\* "skip the raise, keep the service".
PollPending(t) ==
  /\ Is(t, "pending")
  /\ IF pcrtc = 1 THEN Call(t, "idle") ELSE Move(t, "raise")
  /\ UNCHANGED <<pcrtc, pmc, graph, regLock, vbDue, busy, pusher, stray, methods>>

RaiseSource_Adds(t) ==
  /\ Is(t, "raise") /\ regLock = NvFree
  /\ pcrtc' = pcrtc + 1
  /\ Move(t, "raisesum")
  /\ UNCHANGED <<pmc, graph, regLock, vbDue, busy, pusher, stray, methods>>

\* xbox_Nv2aRaiseVblank: the source under the lock, the summary outside it.
RaiseSource(t) ==
  /\ Is(t, "raise") /\ regLock = NvFree
  /\ pcrtc' = 1
  /\ Move(t, "raisesum")
  /\ UNCHANGED <<pmc, graph, regLock, vbDue, busy, pusher, stray, methods>>

RaiseSum(t) ==
  /\ Is(t, "raisesum")
  /\ pmc' = [pmc EXCEPT !.crtc = 1]
  /\ Call(t, "idle")
  /\ UNCHANGED <<pcrtc, graph, regLock, vbDue, busy, pusher, stray, methods>>

\* bridge_deliver_isr_ex (Interrupts has its steps): one thread at a time.
DeliverGpu(t) ==
  /\ Is(t, "deliver")
  /\ IF busy = NvFree THEN busy' = t /\ Move(t, "isr")
     ELSE UNCHANGED busy /\ Return(t)
  /\ UNCHANGED <<pcrtc, pmc, graph, regLock, vbDue, pusher, stray, methods>>

-----------------------------------------------------------------------------
(* The guest's handler, and the page faults its acknowledgements take.     *)

GuestReadsPmc(t) ==
  /\ \/ Is(t, "isr") /\ Move(t, IF pmc.crtc = 1 THEN "ack" ELSE "isrgraph")
     \/ Is(t, "spin") /\ Move(t, IF pmc.crtc = 1 THEN "ack" ELSE "signal")
     \/ Is(t, "isrgraph") /\ Move(t, IF pmc.graph = 1 THEN "ackgraph" ELSE "return")
  /\ UNCHANGED <<pcrtc, pmc, graph, regLock, vbDue, busy, pusher, stray, methods>>

GuestSignals(t) ==    \* KeSetEvent of the vertical blank
  /\ Is(t, "signal") /\ Move(t, "isrgraph")
  /\ UNCHANGED <<pcrtc, pmc, graph, regLock, vbDue, busy, pusher, stray, methods>>

\* mcpx_trap_handler: write-1-to-clear, whatever the source is by now, and
\* the summary under the same lock.
AckStore(t) ==
  /\ Is(t, "ack") /\ regLock = NvFree
  /\ pcrtc' = 0
  /\ regLock' = t
  /\ Move(t, "acksum")
  /\ UNCHANGED <<pmc, graph, vbDue, busy, pusher, stray, methods>>

AckSum(t) ==
  /\ Is(t, "acksum")
  /\ pmc' = [pmc EXCEPT !.crtc = 0]
  /\ regLock' = NvFree
  /\ Move(t, "spin")
  /\ UNCHANGED <<pcrtc, graph, vbDue, busy, pusher, stray, methods>>

AckGraph(t) ==
  /\ Is(t, "ackgraph") /\ regLock = NvFree
  /\ graph' = [graph EXCEPT !.err = 0]
  /\ regLock' = t
  /\ Move(t, "ackpmc")
  /\ UNCHANGED <<pcrtc, pmc, vbDue, busy, pusher, stray, methods>>

AckPmc(t) ==
  /\ Is(t, "ackpmc")
  /\ pmc' = [pmc EXCEPT !.graph = 0]
  /\ regLock' = NvFree
  /\ Move(t, "fifo")
  /\ UNCHANGED <<pcrtc, graph, vbDue, busy, pusher, stray, methods>>

GuestFifo(t) ==       \* the guest gives FIFO access back
  /\ Is(t, "fifo")
  /\ graph' = [graph EXCEPT !.fifo = 1]
  /\ Move(t, "return")
  /\ UNCHANGED <<pcrtc, pmc, regLock, vbDue, busy, pusher, stray, methods>>

GuestReturns(t) ==
  /\ Is(t, "return")
  /\ busy' = NvFree
  /\ Return(t)
  /\ UNCHANGED <<pcrtc, pmc, graph, regLock, vbDue, pusher, stray, methods>>

\* A plain store of recompiled code to the summary: PMC is not guarded.
GuestStray ==
  /\ stray < MaxStray
  /\ stray' = stray + 1
  /\ \E c, g \in {0, 1} : c =< pmc.crtc /\ g =< pmc.graph /\ pmc' = [crtc |-> c, graph |-> g]
  /\ UNCHANGED <<pcrtc, graph, regLock, vbDue, busy, nv, pusher, methods>>

VblankDue ==
  /\ ~ vbDue /\ vbDue' = TRUE
  /\ UNCHANGED <<pcrtc, pmc, graph, regLock, busy, nv, pusher, stray, methods>>

-----------------------------------------------------------------------------
(* The pusher: xbox_Nv2aRaiseSoftwareMethod and the wait for the answer.   *)

Raises(from, to) == pusher = from /\ pusher' = to

PusherMethod ==
  /\ Raises("idle", "check")
  /\ methods < MaxMethods /\ methods' = methods + 1
  /\ UNCHANGED <<pcrtc, pmc, graph, regLock, vbDue, busy, nv, stray>>

\* A method is not raised over one that is pending: the raise fails, and
\* jsrf_software_method waits for ever for what was not raised.
PusherCheck ==
  /\ Raises("check", IF MethodPending THEN "refused" ELSE "lock")
  /\ UNCHANGED <<pcrtc, pmc, graph, regLock, vbDue, busy, nv, stray, methods>>

PusherTrap_ErrorFirst ==
  /\ Raises("lock", "fifo0")
  /\ regLock = NvFree /\ regLock' = Pusher
  /\ graph' = [graph EXCEPT !.err = 1]
  /\ UNCHANGED <<pcrtc, pmc, vbDue, busy, nv, stray, methods>>

PusherTrap ==
  /\ Raises("lock", "fifo0")
  /\ regLock = NvFree /\ regLock' = Pusher
  /\ graph' = [graph EXCEPT !.data = 1]
  /\ UNCHANGED <<pcrtc, pmc, vbDue, busy, nv, stray, methods>>

PusherFifo ==
  /\ Raises("fifo0", "err1")
  /\ graph' = [graph EXCEPT !.fifo = 0]
  /\ UNCHANGED <<pcrtc, pmc, regLock, vbDue, busy, nv, stray, methods>>

PusherError ==
  /\ Raises("err1", "pmc1")
  /\ graph' = [graph EXCEPT !.err = 1]
  /\ UNCHANGED <<pcrtc, pmc, regLock, vbDue, busy, nv, stray, methods>>

PusherPmc ==
  /\ Raises("pmc1", "wait")
  /\ pmc' = [pmc EXCEPT !.graph = 1]
  /\ regLock' = NvFree
  /\ UNCHANGED <<pcrtc, graph, vbDue, busy, nv, stray, methods>>

PusherWait ==         \* jsrf_software_method
  /\ Raises("wait", "idle")
  /\ ~ MethodPending
  /\ UNCHANGED <<pcrtc, pmc, graph, regLock, vbDue, busy, nv, stray, methods>>

PusherStep ==
  PusherCheck \/ PusherTrap \/ PusherFifo \/ PusherError \/ PusherPmc \/ PusherWait

PumpStep(t) ==
  \/ MirrorSource(t) \/ MirrorDown(t) \/ MirrorSum(t) \/ MirrorUp(t)
  \/ MirrorErr(t) \/ MirrorTrap(t) \/ MirrorGraph(t)
  \/ PollMethod(t) \/ PollPmc(t) \/ PollDue(t) \/ PollTake(t) \/ PollPending(t)
  \/ RaiseSource(t) \/ RaiseSum(t) \/ DeliverGpu(t)
  \/ GuestReadsPmc(t) \/ GuestSignals(t) \/ AckStore(t) \/ AckSum(t)
  \/ AckGraph(t) \/ AckPmc(t) \/ GuestFifo(t) \/ GuestReturns(t)

NvNext ==
  \/ \E t \in NvPumps : PumpStep(t)
  \/ PusherMethod \/ PusherStep \/ GuestStray \/ VblankDue

NvSpec == NvInit /\ [][NvNext]_nvVars

-----------------------------------------------------------------------------

\* Types of the registers and of the threads.
NvTypeOK ==
  /\ pcrtc \in {0, 1}
  /\ pmc \in [crtc : {0, 1}, graph : {0, 1}]
  /\ graph \in [err : {0, 1}, data : {0, 1}, fifo : {0, 1}]
  /\ regLock \in NvPumps \cup {NvFree, Pusher}
  /\ vbDue \in BOOLEAN
  /\ busy \in NvPumps \cup {NvFree}
  /\ nv \in [NvPumps -> NvRec]
  /\ pusher \in PusherPcs
  /\ stray \in 0..MaxStray /\ methods \in 0..MaxMethods

\* A trap that was raised is whole for as long as the pusher waits on it: the
\* handler that the guest runs never sees an error without its data, and no
\* second method is written over the first.
TrapWhole ==
  /\ graph.err = 1 => graph.data = 1
  /\ pusher = "lock" => ~ MethodPending

\* The guest's handler is never left waiting on the summary of a source that
\* it has acknowledged: every vertical blank that falls due leads to the event
\* being set, whatever store of the summary is lost.
VblankSignalled == vbDue ~> \E t \in NvPumps : Is(t, "signal")

\* "no interleaving can leave the pair disagreeing": a source that is raised
\* and its summary agree again.
SummaryConverges == pcrtc # pmc.crtc ~> pcrtc = pmc.crtc


=============================================================================
