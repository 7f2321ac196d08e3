----------------------------- MODULE MCServices -----------------------------
(***************************************************************************)
(* Five services of the runtime, in one run: delivery of interrupts, the   *)
(* guest heap, completion of file I/O, the host mixer's table of buffers,  *)
(* and completion of USB transfers.  The five share no state that is       *)
(* modelled: a behaviour is of one of them, chosen in the initial state,   *)
(* and the rest stand still.                                               *)
(***************************************************************************)
EXTENDS Interrupts, GuestHeap, FileApc, VoiceTable, UsbOhci, TLC

CONSTANTS w1, w2, gpu, usb, b1, b2, b3, b4
VARIABLE part

\* USB is vector 0 here, and the GPU vector 1; both are tracked.
MCVector == (gpu :> 1) @@ (usb :> 0)
MCGiven == (0 :> 5) @@ (1 :> 3)
\* w1 waits at PASSIVE_LEVEL and above the device, w2 is the host thread.
MCLevels == (w1 :> {0, 5}) @@ (w2 :> {0})
MCSwitches == {{}, {"retry"}, {"legacy", "sync"}}

\* Three of four handles compete for two neighbouring slots of three.
MCHash == (b1 :> 0) @@ (b2 :> 0) @@ (b3 :> 1) @@ (b4 :> 2)

vars == <<part, irqVars, heapVars, apcVars, voiceVars, usbVars>>

Init ==
  /\ part \in {"irq", "heap", "apc", "voice", "usb"}
  /\ IrqInit /\ HeapInit /\ ApcInit /\ VoiceInit /\ UsbInit
  /\ part # "irq" => irqOn = {}

Next ==
  \/ /\ part = "irq" /\ IrqNext
     /\ UNCHANGED <<part, heapVars, apcVars, voiceVars, usbVars>>
  \/ /\ part = "heap" /\ HeapNext
     /\ UNCHANGED <<part, irqVars, apcVars, voiceVars, usbVars>>
  \/ /\ part = "apc" /\ ApcNext
     /\ UNCHANGED <<part, irqVars, heapVars, voiceVars, usbVars>>
  \/ /\ part = "voice" /\ VoiceNext
     /\ UNCHANGED <<part, irqVars, heapVars, apcVars, usbVars>>
  \/ /\ part = "usb" /\ UsbNext
     /\ UNCHANGED <<part, irqVars, heapVars, apcVars, voiceVars>>

Spec == Init /\ [][Next]_vars

\* Deadlines pass; a thread that waits polls again and again, and one that was
\* begun goes on.
Goes(t) == part = "irq" /\ (Deliver(t) \/ ConnectTest(t) \/ ConnectStore(t) \/ SyncReturn(t))
IrqFairness ==
  /\ WF_irqVars(part = "irq" /\ DeviceDue)
  /\ \A t \in IrqThreads : WF_irqVars(Goes(t)) /\ SF_irqVars(part = "irq" /\ Poll(t))

\* The host schedules every thread and the spin lock lets each of them in; the
\* tick comes every millisecond, a doorbell owed is rung, stores become visible,
\* and the driver serves its interrupt.
UsbFairness ==
  /\ WF_usbVars(part = "usb" /\ TickGate)
  /\ WF_usbVars(part = "usb" /\ (TakeQueue \/ Acknowledge))
  /\ WF_usbVars(part = "usb" /\ \E td \in Tds : Arrive(td))
  /\ WF_usbVars(part = "usb" /\ \E t \in Ringers : RingDoorbell(t))
  /\ \A t \in Walkers :
       WF_usbVars(part = "usb" /\ WalkStep(t)) /\ SF_usbVars(part = "usb" /\ LockWalk(t))

FairSpec == Spec /\ IrqFairness /\ UsbFairness

\* Types of the five: no scan runs past the table of vectors, no block past
\* that of the heap, no completion past its ring.
ServicesTypeOK == IrqTypeOK /\ HeapTypeOK /\ ApcTypeOK /\ UsbTypeOK

=============================================================================
