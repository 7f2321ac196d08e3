------------------------------ MODULE RingFence ------------------------------
(***************************************************************************)
(* The fence a title spins on (d3d8_ring.c, the pump of                    *)
(* diagnostics/jsrf_first_fault/main.c).  D3D_SetFence writes a release    *)
(* packet with the current value of the counter [dev+0x30] and then raises *)
(* the counter; the pump executes the packet and stores the value in the   *)
(* fence word.  For a title that writes no release packets the pump stores *)
(* the counter itself, sampled before it drains the ring, until it has     *)
(* seen a release.  The title is external: d3d8_ring.h disassembles it.    *)
(* Fence v is the v-th, and the counter is the next one to be issued.      *)
(***************************************************************************)
EXTENDS Naturals

CONSTANT MaxFences    \* bound: fences the title sets

ASSUME RingFenceAssumption == MaxFences \in Nat

VARIABLES
  emits,       \* the title's D3D8 writes release packets
  counter,     \* [dev+0x30]
  fence,       \* the word that [dev+0x34] points at
  submitted,   \* fences whose packets PUT covers
  drawn,       \* fences whose packets have been executed
  behind,      \* packets submitted when the counter took a value
  releases,    \* s_releases > 0
  pump,        \* pc, the sample of the counter, and of PUT
  waits        \* what D3D_BlockOnTime waits for, or MaxFences + 1

rfVars == <<emits, counter, fence, submitted, drawn, behind, releases, pump, waits>>

NoWait == MaxFences + 1
IdlePump == [pc |-> "sample", counter |-> 0, put |-> 0]

RfInit ==
  /\ emits \in BOOLEAN
  /\ counter = 1 /\ fence = 0 /\ submitted = 0 /\ drawn = 0
  /\ behind = [v \in 0..MaxFences + 1 |-> 0]
  /\ releases = FALSE
  /\ pump = IdlePump
  /\ waits = NoWait

SetFence ==
  /\ waits = NoWait /\ counter =< MaxFences
  /\ counter' = counter + 1
  /\ behind' = [behind EXCEPT ![counter + 1] = submitted]
  /\ UNCHANGED <<emits, fence, submitted, drawn, releases, pump, waits>>

KickOff ==
  /\ submitted < counter - 1
  /\ submitted' = counter - 1
  /\ UNCHANGED <<emits, counter, fence, drawn, behind, releases, pump, waits>>

BlockOnTime ==
  /\ waits = NoWait
  /\ waits' \in 1..counter - 1
  /\ UNCHANGED <<emits, counter, fence, submitted, drawn, behind, releases, pump>>

BlockReturns ==
  /\ waits # NoWait /\ fence >= waits
  /\ waits' = NoWait
  /\ UNCHANGED <<emits, counter, fence, submitted, drawn, behind, releases, pump>>

-----------------------------------------------------------------------------
(* One turn of the pump.                                                   *)

PumpSample ==
  /\ pump.pc = "sample"
  /\ pump' = [pc |-> "put", counter |-> counter, put |-> 0]
  /\ UNCHANGED <<emits, counter, fence, submitted, drawn, behind, releases, waits>>

PumpPut ==            \* jsrf_pb_poll reads PUT once
  /\ pump.pc = "put"
  /\ pump' = [pump EXCEPT !.pc = "drain", !.put = submitted]
  /\ UNCHANGED <<emits, counter, fence, submitted, drawn, behind, releases, waits>>

\* d3d8_ring_fence_release, when the parser gets to the packet.
PumpExecutes ==
  /\ pump.pc = "drain" /\ drawn < pump.put
  /\ drawn' = drawn + 1
  /\ fence' = IF emits THEN drawn + 1 ELSE fence
  /\ releases' = (releases \/ emits)
  /\ UNCHANGED <<emits, counter, submitted, behind, pump, waits>>

PumpPublish_NoGate ==
  /\ pump.pc = "drain"
  /\ fence' = IF ~ releases THEN pump.counter ELSE fence
  /\ pump' = IdlePump
  /\ UNCHANGED <<emits, counter, submitted, drawn, behind, releases, waits>>

PumpPublish_Always ==
  /\ pump.pc = "drain"
  /\ fence' = IF drawn = pump.put THEN pump.counter ELSE fence
  /\ pump' = IdlePump
  /\ UNCHANGED <<emits, counter, submitted, drawn, behind, releases, waits>>

PumpPublish_OnRelease ==
  /\ pump.pc = "drain"
  /\ fence' = IF releases /\ drawn = pump.put THEN pump.counter ELSE fence
  /\ pump' = IdlePump
  /\ UNCHANGED <<emits, counter, submitted, drawn, behind, releases, waits>>

\* d3d8_ring_publish_fence; the poll may return before it has drained the
\* ring, at the end of a frame or of its segments.
PumpPublish ==
  /\ pump.pc = "drain"
  /\ fence' = IF ~ releases /\ drawn = pump.put THEN pump.counter ELSE fence
  /\ pump' = IdlePump
  /\ UNCHANGED <<emits, counter, submitted, drawn, behind, releases, waits>>

RfPump == PumpSample \/ PumpPut \/ PumpExecutes \/ PumpPublish
RfNext == SetFence \/ KickOff \/ BlockOnTime \/ BlockReturns \/ RfPump

RfSpec == RfInit /\ [][RfNext]_rfVars

-----------------------------------------------------------------------------

\* "the semaphore only ever receives values that have ALREADY been issued, and
\* it can never equal the counter": from the first release on, the fence says
\* what has been executed and no more, whatever the pump sampled before it.
FenceHonest == releases => fence =< drawn /\ fence < counter

\* The fallback is "one generation high by construction", but never tells the
\* title that the ring is free while what had been submitted when the counter
\* took that value is still being read.
FallbackDrained == ~ releases => drawn >= behind[fence]

\* A title that blocks on a fence it has set goes on, whether or not its D3D8
\* writes release packets.
BlockEnds == waits # NoWait ~> waits = NoWait

=============================================================================
