-------------------------- MODULE NvInterrupts_proof --------------------------
(***************************************************************************)
(* Types of the interrupt registers of the GPU, and that a software method *)
(* is seen whole, for any number of threads that pump.                     *)
(***************************************************************************)
EXTENDS NvInterrupts, TLAPS

\* A trap stays in the registers, and only the pusher raises an error or takes
\* FIFO access away: the data is there from before the error, and what the
\* pusher found clear stays clear until it has the lock.
TrapInv ==
  /\ graph.err = 1 => graph.data = 1
  /\ pusher \in {"fifo0", "err1", "pmc1", "wait"} => graph.data = 1
  /\ pusher = "lock" => ~ MethodPending

NvInv == NvTypeOK /\ TrapInv

\* A step of a pump leaves the thread at one of its places.
LEMMA Moves ==
  ASSUME nv \in [NvPumps -> NvRec], NEW t \in NvPumps, NEW p \in NvPcs
  PROVE  /\ Move(t, p) => nv' \in [NvPumps -> NvRec]
         /\ \A a \in {"due", "idle"} : Call(t, a) => nv' \in [NvPumps -> NvRec]
         /\ Return(t) => nv' \in [NvPumps -> NvRec]
<1>1. nv[t].then \in {"due", "idle"}
  BY DEF NvRec
<1>2. \A q \in NvPcs, a \in {"due", "idle"} : [pc |-> q, then |-> a] \in NvRec
  BY DEF NvRec
<1>3. nv[t].then \in NvPcs /\ "deliver" \in NvPcs
  BY <1>1 DEF NvPcs
<1>4. \A r \in NvRec : [nv EXCEPT ![t] = r] \in [NvPumps -> NvRec]
  OBVIOUS
<1> QED
  BY <1>1, <1>2, <1>3, <1>4 DEF Move, Call, Return

-----------------------------------------------------------------------------

LEMMA InitHolds == NvInit => NvInv
<1> SUFFICES ASSUME NvInit PROVE NvInv
  OBVIOUS
<1>1. NvTypeOK
  <2>1. [pc |-> "idle", then |-> "idle"] \in NvRec
    BY DEF NvRec, NvPcs
  <2>2. nv \in [NvPumps -> NvRec]
    BY <2>1 DEF NvInit
  <2>3. stray \in 0..MaxStray /\ methods \in 0..MaxMethods
    BY NvAssumption DEF NvAssumption, NvInit
  <2> QED
    BY <2>2, <2>3 DEF NvInit, NvTypeOK, PusherPcs
<1>2. TrapInv
  BY DEF NvInit, TrapInv
<1> QED
  BY <1>1, <1>2 DEF NvInv

\* No step of a pump or of the guest's handler takes a trap away or raises an
\* error; they only acknowledge one and give FIFO access back.
LEMMA PumpStepHolds ==
  ASSUME NvInv, NEW t \in NvPumps, PumpStep(t)
  PROVE  NvInv'
<1> USE DEF NvInv
<1> DEFINE Rest == /\ pcrtc' \in {0, 1} /\ pmc' \in [crtc : {0, 1}, graph : {0, 1}]
                   /\ graph' \in [err : {0, 1}, data : {0, 1}, fifo : {0, 1}]
                   /\ regLock' \in NvPumps \cup {NvFree, Pusher}
                   /\ vbDue' \in BOOLEAN /\ busy' \in NvPumps \cup {NvFree}
           Places == nv' \in [NvPumps -> NvRec]
           Others == pusher' = pusher /\ stray' = stray /\ methods' = methods
           Clears == /\ graph'.data = graph.data
                     /\ graph'.err = 1 => graph.err = 1
                     /\ graph'.fifo = 0 => graph.fifo = 0
           Goal == Rest /\ Places /\ Others /\ Clears
<1>a. nv \in [NvPumps -> NvRec]
  BY DEF NvTypeOK
<1>b. \A p \in NvPcs : Move(t, p) => Places
  BY <1>a, Moves
<1>c. \A a \in {"due", "idle"} : Call(t, a) => Places
  BY <1>a, Moves DEF NvPcs
<1>d. Return(t) => Places
  BY <1>a, Moves DEF NvPcs
<1>e. /\ pcrtc \in {0, 1} /\ pmc \in [crtc : {0, 1}, graph : {0, 1}]
      /\ graph \in [err : {0, 1}, data : {0, 1}, fifo : {0, 1}]
      /\ regLock \in NvPumps \cup {NvFree, Pusher}
      /\ vbDue \in BOOLEAN /\ busy \in NvPumps \cup {NvFree}
  BY DEF NvTypeOK
<1> HIDE DEF Places, NvInv
<1>1. ASSUME MirrorSource(t) PROVE Goal
  <2>1. Places
    BY <1>1, <1>b, <1>c, <1>d DEF MirrorSource, NvPcs
  <2>2. Rest
    BY <1>1, <1>e DEF MirrorSource
  <2>3. Others /\ Clears
    BY <1>1, <1>e DEF MirrorSource
  <2> QED
    BY <2>1, <2>2, <2>3
<1>2. ASSUME MirrorDown(t) PROVE Goal
  <2>1. Places
    BY <1>2, <1>b, <1>c, <1>d DEF MirrorDown, NvPcs
  <2>2. Rest
    BY <1>2, <1>e DEF MirrorDown
  <2>3. Others /\ Clears
    BY <1>2, <1>e DEF MirrorDown
  <2> QED
    BY <2>1, <2>2, <2>3
<1>3. ASSUME MirrorSum(t) PROVE Goal
  <2>1. Places
    BY <1>3, <1>b, <1>c, <1>d DEF MirrorSum, NvPcs
  <2>2. Rest
    BY <1>3, <1>e DEF MirrorSum
  <2>3. Others /\ Clears
    BY <1>3, <1>e DEF MirrorSum
  <2> QED
    BY <2>1, <2>2, <2>3
<1>4. ASSUME MirrorUp(t) PROVE Goal
  <2>1. Places
    BY <1>4, <1>b, <1>c, <1>d DEF MirrorUp, NvPcs
  <2>2. Rest
    BY <1>4, <1>e DEF MirrorUp
  <2>3. Others /\ Clears
    BY <1>4, <1>e DEF MirrorUp
  <2> QED
    BY <2>1, <2>2, <2>3
<1>5. ASSUME MirrorErr(t) PROVE Goal
  <2>1. Places
    BY <1>5, <1>b, <1>c, <1>d DEF MirrorErr, NvPcs
  <2>2. Rest
    BY <1>5, <1>e DEF MirrorErr
  <2>3. Others /\ Clears
    BY <1>5, <1>e DEF MirrorErr
  <2> QED
    BY <2>1, <2>2, <2>3
<1>6. ASSUME MirrorTrap(t) PROVE Goal
  <2>1. Places
    BY <1>6, <1>b, <1>c, <1>d DEF MirrorTrap, NvPcs
  <2>2. Rest
    BY <1>6, <1>e DEF MirrorTrap
  <2>3. Others /\ Clears
    BY <1>6, <1>e DEF MirrorTrap
  <2> QED
    BY <2>1, <2>2, <2>3
<1>7. ASSUME MirrorGraph(t) PROVE Goal
  <2>1. Places
    BY <1>7, <1>b, <1>c, <1>d DEF MirrorGraph, NvPcs
  <2>2. Rest
    BY <1>7, <1>e DEF MirrorGraph
  <2>3. Others /\ Clears
    BY <1>7, <1>e DEF MirrorGraph
  <2> QED
    BY <2>1, <2>2, <2>3
<1>8. ASSUME PollMethod(t) PROVE Goal
  <2>1. Places
    BY <1>8, <1>b, <1>c, <1>d DEF PollMethod, NvPcs
  <2>2. Rest
    BY <1>8, <1>e DEF PollMethod
  <2>3. Others /\ Clears
    BY <1>8, <1>e DEF PollMethod
  <2> QED
    BY <2>1, <2>2, <2>3
<1>9. ASSUME PollPmc(t) PROVE Goal
  <2>1. Places
    BY <1>9, <1>b, <1>c, <1>d DEF PollPmc, NvPcs
  <2>2. Rest
    BY <1>9, <1>e DEF PollPmc
  <2>3. Others /\ Clears
    BY <1>9, <1>e DEF PollPmc
  <2> QED
    BY <2>1, <2>2, <2>3
<1>10. ASSUME PollDue(t) PROVE Goal
  <2>1. Places
    BY <1>10, <1>b, <1>c, <1>d DEF PollDue, NvPcs
  <2>2. Rest
    BY <1>10, <1>e DEF PollDue
  <2>3. Others /\ Clears
    BY <1>10, <1>e DEF PollDue
  <2> QED
    BY <2>1, <2>2, <2>3
<1>11. ASSUME PollTake(t) PROVE Goal
  <2>1. Places
    BY <1>11, <1>b, <1>c, <1>d DEF PollTake, NvPcs
  <2>2. Rest
    BY <1>11, <1>e DEF PollTake
  <2>3. Others /\ Clears
    BY <1>11, <1>e DEF PollTake
  <2> QED
    BY <2>1, <2>2, <2>3
<1>12. ASSUME PollPending(t) PROVE Goal
  <2>1. Places
    BY <1>12, <1>b, <1>c, <1>d DEF PollPending, NvPcs
  <2>2. Rest
    BY <1>12, <1>e DEF PollPending
  <2>3. Others /\ Clears
    BY <1>12, <1>e DEF PollPending
  <2> QED
    BY <2>1, <2>2, <2>3
<1>13. ASSUME RaiseSource(t) PROVE Goal
  <2>1. Places
    BY <1>13, <1>b, <1>c, <1>d DEF RaiseSource, NvPcs
  <2>2. Rest
    BY <1>13, <1>e DEF RaiseSource
  <2>3. Others /\ Clears
    BY <1>13, <1>e DEF RaiseSource
  <2> QED
    BY <2>1, <2>2, <2>3
<1>14. ASSUME RaiseSum(t) PROVE Goal
  <2>1. Places
    BY <1>14, <1>b, <1>c, <1>d DEF RaiseSum, NvPcs
  <2>2. Rest
    BY <1>14, <1>e DEF RaiseSum
  <2>3. Others /\ Clears
    BY <1>14, <1>e DEF RaiseSum
  <2> QED
    BY <2>1, <2>2, <2>3
<1>15. ASSUME DeliverGpu(t) PROVE Goal
  <2>1. Places
    BY <1>15, <1>b, <1>c, <1>d DEF DeliverGpu, NvPcs
  <2>2. Rest
    BY <1>15, <1>e DEF DeliverGpu
  <2>3. Others /\ Clears
    BY <1>15, <1>e DEF DeliverGpu
  <2> QED
    BY <2>1, <2>2, <2>3
<1>16. ASSUME GuestReadsPmc(t) PROVE Goal
  <2>1. Places
    BY <1>16, <1>b, <1>c, <1>d DEF GuestReadsPmc, NvPcs
  <2>2. Rest
    BY <1>16, <1>e DEF GuestReadsPmc
  <2>3. Others /\ Clears
    BY <1>16, <1>e DEF GuestReadsPmc
  <2> QED
    BY <2>1, <2>2, <2>3
<1>17. ASSUME GuestSignals(t) PROVE Goal
  <2>1. Places
    BY <1>17, <1>b, <1>c, <1>d DEF GuestSignals, NvPcs
  <2>2. Rest
    BY <1>17, <1>e DEF GuestSignals
  <2>3. Others /\ Clears
    BY <1>17, <1>e DEF GuestSignals
  <2> QED
    BY <2>1, <2>2, <2>3
<1>18. ASSUME AckStore(t) PROVE Goal
  <2>1. Places
    BY <1>18, <1>b, <1>c, <1>d DEF AckStore, NvPcs
  <2>2. Rest
    BY <1>18, <1>e DEF AckStore
  <2>3. Others /\ Clears
    BY <1>18, <1>e DEF AckStore
  <2> QED
    BY <2>1, <2>2, <2>3
<1>19. ASSUME AckSum(t) PROVE Goal
  <2>1. Places
    BY <1>19, <1>b, <1>c, <1>d DEF AckSum, NvPcs
  <2>2. Rest
    BY <1>19, <1>e DEF AckSum
  <2>3. Others /\ Clears
    BY <1>19, <1>e DEF AckSum
  <2> QED
    BY <2>1, <2>2, <2>3
<1>20. ASSUME AckGraph(t) PROVE Goal
  <2>1. Places
    BY <1>20, <1>b, <1>c, <1>d DEF AckGraph, NvPcs
  <2>2. Rest
    BY <1>20, <1>e DEF AckGraph
  <2>3. Others /\ Clears
    BY <1>20, <1>e DEF AckGraph
  <2> QED
    BY <2>1, <2>2, <2>3
<1>21. ASSUME AckPmc(t) PROVE Goal
  <2>1. Places
    BY <1>21, <1>b, <1>c, <1>d DEF AckPmc, NvPcs
  <2>2. Rest
    BY <1>21, <1>e DEF AckPmc
  <2>3. Others /\ Clears
    BY <1>21, <1>e DEF AckPmc
  <2> QED
    BY <2>1, <2>2, <2>3
<1>22. ASSUME GuestFifo(t) PROVE Goal
  <2>1. Places
    BY <1>22, <1>b, <1>c, <1>d DEF GuestFifo, NvPcs
  <2>2. Rest
    BY <1>22, <1>e DEF GuestFifo
  <2>3. Others /\ Clears
    BY <1>22, <1>e DEF GuestFifo
  <2> QED
    BY <2>1, <2>2, <2>3
<1>23. ASSUME GuestReturns(t) PROVE Goal
  <2>1. Places
    BY <1>23, <1>b, <1>c, <1>d DEF GuestReturns, NvPcs
  <2>2. Rest
    BY <1>23, <1>e DEF GuestReturns
  <2>3. Others /\ Clears
    BY <1>23, <1>e DEF GuestReturns
  <2> QED
    BY <2>1, <2>2, <2>3
<1>24. Goal
  BY <1>1, <1>2, <1>3, <1>4, <1>5, <1>6, <1>7, <1>8, <1>9, <1>10, <1>11, <1>12, <1>13, <1>14, <1>15, <1>16, <1>17, <1>18, <1>19, <1>20, <1>21, <1>22, <1>23, PumpStep(t) DEF PumpStep
<1>25. NvTypeOK'
  BY <1>24 DEF NvInv, NvTypeOK, Places
<1>26. TrapInv'
  BY <1>24, <1>e DEF NvInv, TrapInv, MethodPending
<1> QED
  BY <1>25, <1>26 DEF NvInv

\* The pusher stores the trap registers first and the error last, under the
\* lock of the registers.
LEMMA PusherHolds ==
  ASSUME NvInv, PusherMethod \/ PusherStep \/ GuestStray \/ VblankDue
  PROVE  NvInv'
<1> USE DEF NvInv, NvTypeOK
<1>1. CASE PusherMethod
  <2>1. NvTypeOK'
    BY <1>1, NvAssumption DEF PusherMethod, Raises, NvAssumption, PusherPcs
  <2>2. TrapInv'
    BY <1>1 DEF PusherMethod, Raises, TrapInv, MethodPending
  <2> QED
    BY <2>1, <2>2
<1>2. CASE PusherCheck
  <2>1. NvTypeOK'
    BY <1>2, NvAssumption DEF PusherCheck, Raises, NvAssumption, PusherPcs
  <2>2. TrapInv'
    BY <1>2 DEF PusherCheck, Raises, TrapInv, MethodPending
  <2> QED
    BY <2>1, <2>2
<1>3. CASE PusherTrap
  <2>1. NvTypeOK'
    BY <1>3, NvAssumption DEF PusherTrap, Raises, NvAssumption, PusherPcs
  <2>2. TrapInv'
    BY <1>3 DEF PusherTrap, Raises, TrapInv, MethodPending
  <2> QED
    BY <2>1, <2>2
<1>4. CASE PusherFifo
  <2>1. NvTypeOK'
    BY <1>4, NvAssumption DEF PusherFifo, Raises, NvAssumption, PusherPcs
  <2>2. TrapInv'
    BY <1>4 DEF PusherFifo, Raises, TrapInv, MethodPending
  <2> QED
    BY <2>1, <2>2
<1>5. CASE PusherError
  <2>1. NvTypeOK'
    BY <1>5, NvAssumption DEF PusherError, Raises, NvAssumption, PusherPcs
  <2>2. TrapInv'
    BY <1>5 DEF PusherError, Raises, TrapInv, MethodPending
  <2> QED
    BY <2>1, <2>2
<1>6. CASE PusherPmc
  <2>1. NvTypeOK'
    BY <1>6, NvAssumption DEF PusherPmc, Raises, NvAssumption, PusherPcs
  <2>2. TrapInv'
    BY <1>6 DEF PusherPmc, Raises, TrapInv, MethodPending
  <2> QED
    BY <2>1, <2>2
<1>7. CASE PusherWait
  <2>1. NvTypeOK'
    BY <1>7, NvAssumption DEF PusherWait, Raises, NvAssumption, PusherPcs
  <2>2. TrapInv'
    BY <1>7 DEF PusherWait, Raises, TrapInv, MethodPending
  <2> QED
    BY <2>1, <2>2
<1>8. CASE GuestStray
  <2>1. NvTypeOK'
    BY <1>8, NvAssumption DEF GuestStray, Raises, NvAssumption, PusherPcs
  <2>2. TrapInv'
    BY <1>8 DEF GuestStray, Raises, TrapInv, MethodPending
  <2> QED
    BY <2>1, <2>2
<1>9. CASE VblankDue
  <2>1. NvTypeOK'
    BY <1>9, NvAssumption DEF VblankDue, Raises, NvAssumption, PusherPcs
  <2>2. TrapInv'
    BY <1>9 DEF VblankDue, Raises, TrapInv, MethodPending
  <2> QED
    BY <2>1, <2>2
<1> QED
  BY <1>1, <1>2, <1>3, <1>4, <1>5, <1>6, <1>7, <1>8, <1>9 DEF PusherStep

LEMMA Stutter == NvInv /\ UNCHANGED nvVars => NvInv'
BY DEF NvInv, NvTypeOK, TrapInv, MethodPending, nvVars

\* The inductive invariant of the registers.
THEOREM Invariance == NvSpec => []NvInv
<1>1. NvInit => NvInv
  BY InitHolds
<1>2. NvInv /\ [NvNext]_nvVars => NvInv'
  BY PumpStepHolds, PusherHolds, Stutter DEF NvNext
<1> QED
  BY <1>1, <1>2, PTL DEF NvSpec

\* Every register, flag and thread of the two interrupts has its type, whoever
\* raises, mirrors, acknowledges or overwrites.
THEOREM RegistersTyped == NvSpec => []NvTypeOK
<1>1. NvInv => NvTypeOK
  BY DEF NvInv
<1> QED
  BY <1>1, Invariance, PTL

\* xbox_Nv2aRaiseSoftwareMethod: no thread sees an error without its trap, and
\* no method is raised over one that is pending.
THEOREM TrapsAreWhole == NvSpec => []TrapWhole
<1>1. NvInv => TrapWhole
  BY DEF NvInv, TrapInv, TrapWhole
<1> QED
  BY <1>1, Invariance, PTL

=============================================================================
