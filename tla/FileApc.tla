------------------------------- MODULE FileApc -------------------------------
(***************************************************************************)
(* Completion of file I/O (kernel_bridge.c).  The host's file calls are    *)
(* synchronous, but the completion routine the title asked for must not    *)
(* run inside the call: it is put in a ring of the thread's own and run by *)
(* the thread's next alertable wait.  The routine is guest code, which may *)
(* start more I/O and wait itself.  The ring is thread-local, so one       *)
(* thread is the whole of it; the event of a request is set at once and    *)
(* left out.  Request n is the thread's n-th with a routine.               *)
(***************************************************************************)
EXTENDS Naturals, Sequences

CONSTANTS
  ApcMax,     \* BRIDGE_PENDING_APC_MAX
  MaxIo,      \* bound: requests
  MaxNest     \* bound: waits and routines on the stack

ASSUME FileApcAssumption == ApcMax \in Nat \ {0} /\ MaxIo \in Nat /\ MaxNest \in Nat

VARIABLES
  apcs,        \* s_pending_apcs
  apcHead,     \* s_pending_apc_head
  apcCount,    \* s_pending_apc_count
  stack,       \* what the thread is in: the drain loop, a routine
  issued,      \* requests completed by the host
  ran,         \* requests whose routine was called, in order
  inlined      \* those whose routine ran inside the call, for a full ring

apcVars == <<apcs, apcHead, apcCount, stack, issued, ran, inlined>>

Ring == 0..ApcMax - 1
Requests == 1..MaxIo

ApcInit ==
  /\ apcs = [i \in Ring |-> 0]
  /\ apcHead = 0 /\ apcCount = 0
  /\ stack = <<>> /\ issued = 0 /\ ran = <<>> /\ inlined = {}

InDrain == stack # <<>> /\ Head(stack) = "drain"

\* The slot of a new entry.
ApcTail(head, count) == (head + count) % ApcMax

\* bridge_complete_file_io with a routine, at the end of NtReadFile and others.
CompleteIo ==
  /\ ~ InDrain /\ issued < MaxIo /\ apcCount < ApcMax
  /\ issued' = issued + 1
  /\ apcs' = [apcs EXCEPT ![ApcTail(apcHead, apcCount)] = issued + 1]
  /\ apcCount' = apcCount + 1
  /\ UNCHANGED <<apcHead, stack, ran, inlined>>

\* bridge_queue_file_apc with the ring full: "Losing an I/O completion
\* deadlocks its owner", so the routine runs here and now.
CompleteInline ==
  /\ ~ InDrain /\ issued < MaxIo /\ apcCount = ApcMax /\ Len(stack) < MaxNest
  /\ issued' = issued + 1
  /\ ran' = Append(ran, issued + 1)
  /\ inlined' = inlined \cup {issued + 1}
  /\ stack' = <<"routine">> \o stack
  /\ UNCHANGED <<apcs, apcHead, apcCount>>

\* An alertable wait begins with bridge_deliver_pending_apcs.
AlertableWait ==
  /\ ~ InDrain /\ apcCount > 0 /\ Len(stack) < MaxNest
  /\ stack' = <<"drain">> \o stack
  /\ UNCHANGED <<apcs, apcHead, apcCount, issued, ran, inlined>>

Deliver_KeepsEntry ==
  /\ InDrain /\ apcCount > 0 /\ Len(stack) < MaxNest
  /\ apcCount' = apcCount - 1
  /\ ran' = Append(ran, apcs[apcHead])
  /\ stack' = <<"routine">> \o stack
  /\ UNCHANGED <<apcs, apcHead, issued, inlined>>

\* "Removing an item before invoking guest code makes re-entrant file I/O
\* safe."
DeliverApc ==
  /\ InDrain /\ apcCount > 0 /\ Len(stack) < MaxNest
  /\ apcHead' = (apcHead + 1) % ApcMax
  /\ apcCount' = apcCount - 1
  /\ ran' = Append(ran, apcs[apcHead])
  /\ stack' = <<"routine">> \o stack
  /\ UNCHANGED <<apcs, issued, inlined>>

\* A routine returns, or a wait with nothing left to deliver.
ReturnApc ==
  /\ stack # <<>> /\ (InDrain => apcCount = 0)
  /\ stack' = Tail(stack)
  /\ UNCHANGED <<apcs, apcHead, apcCount, issued, ran, inlined>>

ApcNext == CompleteIo \/ CompleteInline \/ AlertableWait \/ DeliverApc \/ ReturnApc

ApcSpec == ApcInit /\ [][ApcNext]_apcVars

-----------------------------------------------------------------------------

\* Types of the ring and of the thread's stack.
ApcTypeOK ==
  /\ apcs \in [Ring -> 0..MaxIo]
  /\ apcHead \in Ring /\ apcCount \in 0..ApcMax
  /\ stack \in Seq({"drain", "routine"}) /\ Len(stack) =< MaxNest
  /\ issued \in 0..MaxIo
  /\ ran \in Seq(Requests)
  /\ inlined \subseteq Requests

\* The i-th request in the order of the calls: those whose routine was called,
\* then those in the ring.
Turn(i) == IF i =< Len(ran) THEN ran[i] ELSE apcs[ApcTail(apcHead, i - Len(ran) - 1)]

\* Every request's routine is called exactly once or is still queued, in the
\* order of the requests but for those that met a full ring, whatever is
\* started from inside a routine and wherever the ring has wrapped.
CompletedInTurn ==
  /\ Len(ran) + apcCount = issued
  /\ {Turn(i) : i \in 1..issued} = 1..issued
  /\ \A i, j \in 1..issued :
       i < j /\ Turn(i) \notin inlined /\ Turn(j) \notin inlined => Turn(i) < Turn(j)
  /\ inlined \subseteq {ran[i] : i \in 1..Len(ran)}

=============================================================================
