----------------------------- MODULE MCGpuSide -----------------------------
(***************************************************************************)
(* What passes between the guest and the GPU, in one run: its two          *)
(* interrupts, the push buffer, the fence, and the map of memory it owes   *)
(* pixels to.  The four share no state that is modelled: a behaviour is of *)
(* one of them, chosen in the initial state, and the rest stand still.     *)
(***************************************************************************)
EXTENDS NvInterrupts, PushRing, RingFence, GpuOwn

CONSTANTS w1, w2
VARIABLE part

\* Targets that begin on a granule, that span two, and that an access from the
\* granule below reaches.
MCTargets == {[lo |-> 4, size |-> 2], [lo |-> 5, size |-> 3], [lo |-> 0, size |-> 3]}

vars == <<part, nvVars, pbVars, rfVars, goVars>>

Init ==
  /\ part \in {"nv", "push", "fence", "own"}
  /\ NvInit /\ PbInit /\ RfInit /\ GoInit
  /\ part # "fence" => ~ emits

Next ==
  \/ /\ part = "nv" /\ NvNext
     /\ UNCHANGED <<part, pbVars, rfVars, goVars>>
  \/ /\ part = "push" /\ PbNext
     /\ UNCHANGED <<part, nvVars, rfVars, goVars>>
  \/ /\ part = "fence" /\ RfNext
     /\ UNCHANGED <<part, nvVars, pbVars, goVars>>
  \/ /\ part = "own" /\ GoNext
     /\ UNCHANGED <<part, nvVars, pbVars, rfVars>>

\* The handler's spin on the summary lasts less than a period of the display,
\* so it reads it between two vertical blanks; the lock is fair to the pusher;
\* and a thread that the host schedules goes on.  The pump polls in a loop, gets
\* to what is in the ring, and ends a turn with the ring drained again and
\* again; the title goes on as long as it has room and kicks off what it has
\* written.  As a behaviour is of one part, each condition states one of them
\* for every part, with the variables of that part.
here == CASE part = "nv" -> nvVars [] part = "push" -> pbVars [] OTHER -> rfVars
SpinEnds(t) == Is(t, "spin") /\ pmc.crtc = 0 /\ GuestReadsPmc(t)
Fairness ==
  /\ WF_here(/\ UNCHANGED part
             /\ \/ part = "nv" /\ VblankDue
                \/ part = "push" /\ PollStep
                \/ part = "fence" /\ KickOff)
  /\ WF_here(/\ UNCHANGED part
             /\ \/ part = "nv" /\ PusherStep
                \/ part = "push" /\ TitleStep
                \/ part = "fence" /\ BlockReturns)
  /\ SF_here(/\ UNCHANGED part
             /\ \/ part = "nv" /\ PusherTrap
                \/ part = "fence" /\ PumpExecutes)
  /\ \A t \in NvPumps :
       /\ WF_here(/\ UNCHANGED part
                  /\ \/ part = "nv" /\ PumpStep(t)
                     \/ part = "fence" /\ RfPump)
       /\ SF_here(/\ UNCHANGED part
                  /\ \/ part = "nv" /\ SpinEnds(t)
                     \/ part = "fence" /\ PumpPublish /\ drawn = pump.put)

FairSpec == Init /\ [][Next]_vars /\ Fairness

\* Types of the registers, and of the ring and its cursors, which stay in it.
GpuSideTypeOK == NvTypeOK /\ PbTypeOK

=============================================================================
