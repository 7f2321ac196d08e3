---------------------------- MODULE Services_proof ----------------------------
(***************************************************************************)
(* The services of the runtime.  Completion routines of file I/O run once  *)
(* and in turn, for any capacity of the ring, any number of requests and   *)
(* any nesting.  The host mixer's table implements a set of buffers, for   *)
(* any table size, any hash and any handles: tombstones hide nothing and   *)
(* nothing is in the table twice.  The USB host controller's lists are     *)
(* walked by one thread at a time: for any number of guest threads that    *)
(* ring and any number of transfers, each descriptor is run once and in    *)
(* turn.  With delivery of interrupts (Interrupts_proof) and the heap      *)
(* (GuestHeap_proof) they keep their types in the composition.             *)
(***************************************************************************)
EXTENDS MCServices, GuestHeap_proof, Interrupts_proof, WellFoundedInduction, TLAPS

(***************************************************************************)
(* Completion of file I/O.                                                 *)
(***************************************************************************)

\* The requests in the order of their calls: each is there, those that did not
\* meet a full ring in the order they were made.
ApcOrder ==
  /\ \A i \in 1..issued : Turn(i) \in 1..issued
  /\ \A n \in 1..issued : \E i \in 1..issued : Turn(i) = n
  /\ \A i, j \in 1..issued :
       i < j /\ Turn(i) \notin inlined /\ Turn(j) \notin inlined => Turn(i) < Turn(j)

ApcInv ==
  /\ ApcTypeOK
  /\ Len(ran) + apcCount = issued
  /\ ApcOrder
  /\ \A n \in inlined : \E i \in 1..Len(ran) : ran[i] = n

-----------------------------------------------------------------------------
(* The ring.                                                               *)

LEMMA ApcBounds == ApcMax \in Nat /\ ApcMax > 0 /\ MaxIo \in Nat /\ MaxNest \in Nat
BY FileApcAssumption DEF FileApcAssumption

\* Below the capacity the tail is one subtraction away, and it is a slot.
LEMMA TailIs ==
  ASSUME NEW h \in Ring, NEW k \in 0..ApcMax
  PROVE  /\ ApcTail(h, k) = IF h + k < ApcMax THEN h + k ELSE h + k - ApcMax
         /\ ApcTail(h, k) \in Ring
<1> DEFINE x == h + k
<1>1. x \in Nat /\ x < 2 * ApcMax /\ ApcMax \in Nat /\ ApcMax > 0
  BY ApcBounds DEF Ring
<1> HIDE DEF x
<1>2. x % ApcMax = IF x < ApcMax THEN x ELSE x - ApcMax
  BY <1>1
<1>3. ApcTail(h, k) = IF x < ApcMax THEN x ELSE x - ApcMax
  BY <1>2 DEF ApcTail, x
<1> QED
  BY <1>1, <1>3 DEF Ring, x

\* Two entries of the ring are in two slots.
LEMMA TailsApart ==
  ASSUME NEW h \in Ring, NEW k \in 0..ApcMax - 1, NEW l \in 0..ApcMax - 1, k # l
  PROVE  ApcTail(h, k) # ApcTail(h, l)
<1>1. h \in 0..ApcMax - 1 /\ ApcMax \in Nat /\ k \in 0..ApcMax /\ l \in 0..ApcMax
  BY ApcBounds DEF Ring
<1>2. /\ ApcTail(h, k) = IF h + k < ApcMax THEN h + k ELSE h + k - ApcMax
      /\ ApcTail(h, l) = IF h + l < ApcMax THEN h + l ELSE h + l - ApcMax
  BY <1>1, TailIs
<1> QED
  BY <1>1, <1>2

\* Taking the first entry out moves every other one step up.
LEMMA TailAfter ==
  ASSUME NEW h \in Ring, NEW k \in 0..ApcMax - 1
  PROVE  /\ (h + 1) % ApcMax \in Ring
         /\ ApcTail((h + 1) % ApcMax, k) = ApcTail(h, k + 1)
<1>1. (h + 1) % ApcMax = ApcTail(h, 1) /\ 1 \in 0..ApcMax /\ k \in 0..ApcMax /\ k + 1 \in 0..ApcMax
  BY ApcBounds DEF ApcTail
<1>2. ApcTail(h, 1) \in Ring /\ ApcTail(h, 1) = IF h + 1 < ApcMax THEN h + 1 ELSE h + 1 - ApcMax
  BY <1>1, TailIs
<1>3. ApcTail(h, k + 1) = IF h + (k + 1) < ApcMax THEN h + (k + 1) ELSE h + (k + 1) - ApcMax
  BY <1>1, TailIs
<1> DEFINE g == ApcTail(h, 1)
<1>4. g \in Ring
  BY <1>2
<1> HIDE DEF g
<1>5. ApcTail(g, k) = IF g + k < ApcMax THEN g + k ELSE g + k - ApcMax
  BY <1>1, <1>4, TailIs
<1> QED
  BY <1>1, <1>2, <1>3, <1>5, ApcBounds DEF Ring, g

-----------------------------------------------------------------------------
(* The invariant.                                                          *)

LEMMA ApcInitHolds == ApcInit => ApcInv
<1> SUFFICES ASSUME ApcInit PROVE ApcInv
  OBVIOUS
<1>1. ApcTypeOK
  BY ApcBounds DEF ApcInit, ApcTypeOK, Ring
<1> QED
  BY <1>1 DEF ApcInit, ApcInv, ApcOrder

LEMMA ApcNumbers ==
  ASSUME ApcInv
  PROVE  /\ issued \in Nat /\ issued =< MaxIo
         /\ Len(ran) \in Nat /\ apcCount \in 0..ApcMax /\ apcHead \in Ring
         /\ Len(ran) + apcCount = issued
BY ApcBounds DEF ApcInv, ApcTypeOK

\* A request queued is last in turn.
LEMMA CompleteHolds == ASSUME ApcInv, CompleteIo PROVE ApcInv'
<1> DEFINE tail == ApcTail(apcHead, apcCount)
<1>1. /\ issued' = issued + 1 /\ apcCount' = apcCount + 1 /\ apcHead' = apcHead
      /\ ran' = ran /\ inlined' = inlined /\ stack' = stack
      /\ apcs' = [apcs EXCEPT ![tail] = issued + 1]
      /\ apcCount < ApcMax /\ issued < MaxIo
  BY DEF CompleteIo
<1>2. tail \in Ring
  BY ApcNumbers, TailIs
<1>3. \A k \in 0..apcCount - 1 : ApcTail(apcHead, k) # tail /\ ApcTail(apcHead, k) \in Ring
  BY <1>1, ApcNumbers, ApcBounds, TailsApart, TailIs
<1> HIDE DEF tail
<1>4. \A s \in Ring : apcs'[s] = IF s = tail THEN issued + 1 ELSE apcs[s]
  BY <1>1, <1>2 DEF ApcInv, ApcTypeOK
<1>5. ApcTypeOK'
  BY <1>1, <1>2, ApcBounds DEF ApcInv, ApcTypeOK, Requests
<1>6. \A i \in 1..issued : Turn(i)' = Turn(i)
  <2> SUFFICES ASSUME NEW i \in 1..issued PROVE Turn(i)' = Turn(i)
    OBVIOUS
  <2>1. CASE i =< Len(ran)
    BY <1>1, <2>1 DEF Turn
  <2>2. CASE ~ (i =< Len(ran))
    <3>1. i - Len(ran) - 1 \in 0..apcCount - 1
      BY <2>2, ApcNumbers
    <3>2. apcs'[ApcTail(apcHead, i - Len(ran) - 1)] = apcs[ApcTail(apcHead, i - Len(ran) - 1)]
      BY <1>3, <1>4, <3>1
    <3> QED
      BY <1>1, <2>2, <3>2 DEF Turn
  <2> QED
    BY <2>1, <2>2
<1>7. \A i \in {issued + 1} : Turn(i)' = issued + 1
  <2> SUFFICES ASSUME NEW i \in {issued + 1} PROVE Turn(i)' = issued + 1
    OBVIOUS
  <2>1. ~ (i =< Len(ran)) /\ i - Len(ran) - 1 = apcCount
    BY ApcNumbers
  <2>2. apcs'[tail] = issued + 1
    BY <1>2, <1>4
  <2> QED
    BY <1>1, <2>1, <2>2 DEF Turn, tail
<1>8. ApcOrder'
  <2>1. \A i \in 1..issued' : i \in 1..issued \/ i = issued + 1
    BY <1>1, ApcNumbers
  <2>2. 1..issued \subseteq 1..issued' /\ issued + 1 \in 1..issued'
    BY <1>1, ApcNumbers
  <2>3. \A i \in 1..issued : Turn(i)' \in 1..issued
    BY <1>6 DEF ApcInv, ApcOrder
  <2>4. \A i \in 1..issued' : Turn(i)' \in 1..issued'
    <3>1. \A n \in 1..issued : n \in 1..issued'
      BY <2>2
    <3> QED
      BY <1>7, <2>1, <2>2, <2>3, <3>1
  <2>5. \A n \in 1..issued' : \E i \in 1..issued' : Turn(i)' = n
    BY <1>6, <1>7, <2>1, <2>2 DEF ApcInv, ApcOrder
  <2>6. ASSUME NEW i \in 1..issued', NEW j \in 1..issued', i < j,
               Turn(i)' \notin inlined', Turn(j)' \notin inlined'
        PROVE  Turn(i)' < Turn(j)'
    <3>1. i \in 1..issued
      BY <1>1, <2>6, ApcNumbers
    <3>2. CASE j \in 1..issued
      BY <1>1, <1>6, <2>6, <3>1, <3>2 DEF ApcInv, ApcOrder
    <3>3. CASE j = issued + 1
      <4>1. Turn(i)' \in 1..issued /\ Turn(j)' = issued + 1
        BY <1>7, <2>3, <3>1, <3>3
      <4> QED
        BY <4>1, ApcNumbers
    <3> QED
      BY <2>1, <3>2, <3>3
  <2> QED
    BY <2>4, <2>5, <2>6 DEF ApcOrder
<1> QED
  BY <1>1, <1>5, <1>8, ApcNumbers DEF ApcInv

\* A request that meets a full ring goes in before those queued.
LEMMA InlineHolds == ASSUME ApcInv, CompleteInline PROVE ApcInv'
<1> DEFINE m == Len(ran)
<1>1. /\ issued' = issued + 1 /\ apcCount' = apcCount /\ apcHead' = apcHead /\ apcs' = apcs
      /\ ran' = Append(ran, issued + 1) /\ inlined' = inlined \cup {issued + 1}
      /\ stack' = <<"routine">> \o stack
      /\ issued < MaxIo /\ Len(stack) < MaxNest
  BY DEF CompleteInline
<1>2. /\ Len(ran') = m + 1
      /\ \A i \in 1..m : ran'[i] = ran[i]
      /\ ran'[m + 1] = issued + 1
  BY <1>1 DEF ApcInv, ApcTypeOK
<1>3. m \in Nat /\ issued \in Nat /\ m =< issued
  BY ApcNumbers
<1>4. ApcTypeOK'
  <2>1. stack' \in Seq({"drain", "routine"}) /\ Len(stack') = Len(stack) + 1
    BY <1>1 DEF ApcInv, ApcTypeOK
  <2>2. ran' \in Seq(Requests) /\ issued + 1 \in Requests
    BY <1>1, ApcNumbers, ApcBounds DEF ApcInv, ApcTypeOK, Requests
  <2> QED
    BY <1>1, <2>1, <2>2, ApcBounds DEF ApcInv, ApcTypeOK, Requests
<1> HIDE DEF m
<1>5. \A i \in 1..m : Turn(i)' = Turn(i)
  BY <1>2, <1>3 DEF Turn, m
<1>6. \A i \in {m + 1} : Turn(i)' = issued + 1
  BY <1>2, <1>3 DEF Turn
<1>7. \A i \in m + 1..issued : Turn(i + 1)' = Turn(i)
  <2> SUFFICES ASSUME NEW i \in m + 1..issued PROVE Turn(i + 1)' = Turn(i)
    OBVIOUS
  <2>1. ~ (i =< m) /\ ~ (i + 1 =< m + 1) /\ i + 1 - (m + 1) - 1 = i - m - 1
    BY <1>3
  <2> QED
    BY <1>1, <1>2, <2>1 DEF Turn, m
<1> DEFINE Old(i) == IF i =< m THEN i ELSE i - 1
<1>8. \A i \in 1..issued' : i = m + 1 \/ (i # m + 1 /\ Old(i) \in 1..issued /\ Turn(i)' = Turn(Old(i)))
  <2> SUFFICES ASSUME NEW i \in 1..issued', i # m + 1
               PROVE Old(i) \in 1..issued /\ Turn(i)' = Turn(Old(i))
    OBVIOUS
  <2>1. CASE i =< m
    BY <1>1, <1>3, <1>5, <2>1
  <2>2. CASE ~ (i =< m)
    <3>1. i - 1 \in m + 1..issued /\ i - 1 \in 1..issued /\ i - 1 + 1 = i
      BY <1>1, <1>3, <2>2
    <3>2. Turn(i - 1 + 1)' = Turn(i - 1)
      BY <1>7, <3>1
    <3> QED
      BY <2>2, <3>1, <3>2
  <2> QED
    BY <2>1, <2>2
<1>9. ApcOrder'
  <2>1. \A i \in 1..issued : Turn(i) \in 1..issued
    BY DEF ApcInv, ApcOrder
  <2>2. \A i \in 1..issued' : Turn(i)' \in 1..issued'
    <3>1. \A n \in 1..issued : n \in 1..issued'
      BY <1>1, <1>3
    <3>2. issued + 1 \in 1..issued'
      BY <1>1, <1>3
    <3> QED
      BY <1>6, <1>8, <2>1, <3>1, <3>2
  <2>3. \A n \in 1..issued' : \E i \in 1..issued' : Turn(i)' = n
    <3> SUFFICES ASSUME NEW n \in 1..issued' PROVE \E i \in 1..issued' : Turn(i)' = n
      OBVIOUS
    <3>1. CASE n = issued + 1
      <4>1. m + 1 \in 1..issued'
        BY <1>1, <1>3
      <4> QED
        BY <1>6, <3>1, <4>1
    <3>2. CASE n # issued + 1
      <4>1. n \in 1..issued
        BY <1>1, <1>3, <3>2
      <4>2. PICK i \in 1..issued : Turn(i) = n
        BY <4>1 DEF ApcInv, ApcOrder
      <4>3. CASE i =< m
        BY <1>1, <1>3, <1>5, <4>2, <4>3
      <4>4. CASE ~ (i =< m)
        <5>1. i \in m + 1..issued /\ i + 1 \in 1..issued'
          BY <1>1, <1>3, <4>4
        <5> QED
          BY <1>7, <4>2, <5>1
      <4> QED
        BY <4>3, <4>4
    <3> QED
      BY <3>1, <3>2
  <2>4. ASSUME NEW i \in 1..issued', NEW j \in 1..issued', i < j,
               Turn(i)' \notin inlined', Turn(j)' \notin inlined'
        PROVE  Turn(i)' < Turn(j)'
    <3>1. i # m + 1 /\ j # m + 1
      <4>1. issued + 1 \in inlined'
        BY <1>1
      <4> QED
        BY <1>6, <2>4, <4>1
    <3>2. Old(i) < Old(j)
      BY <1>1, <1>3, <2>4, <3>1
    <3>3. /\ Old(i) \in 1..issued /\ Turn(i)' = Turn(Old(i))
          /\ Old(j) \in 1..issued /\ Turn(j)' = Turn(Old(j))
      BY <1>8, <3>1
    <3>4. Turn(Old(i)) \notin inlined /\ Turn(Old(j)) \notin inlined
      BY <1>1, <2>4, <3>3
    <3> HIDE DEF Old
    <3> QED
      BY <3>2, <3>3, <3>4 DEF ApcInv, ApcOrder
  <2> QED
    BY <2>2, <2>3, <2>4 DEF ApcOrder
<1>10. Len(ran') + apcCount' = issued'
  BY <1>1, <1>2, <1>3, ApcNumbers DEF m
<1>11. \A n \in inlined' : \E i \in 1..Len(ran') : ran'[i] = n
  BY <1>1, <1>2, <1>3 DEF ApcInv, m
<1> QED
  BY <1>4, <1>9, <1>10, <1>11 DEF ApcInv

\* Calling the first routine queued leaves every request its turn.
LEMMA DeliverHolds == ASSUME ApcInv, DeliverApc PROVE ApcInv'
<1> DEFINE m == Len(ran)
           n == apcs[apcHead]
<1>1. /\ issued' = issued /\ inlined' = inlined /\ apcs' = apcs
      /\ apcHead' = (apcHead + 1) % ApcMax /\ apcCount' = apcCount - 1
      /\ ran' = Append(ran, n) /\ stack' = <<"routine">> \o stack
      /\ apcCount > 0 /\ Len(stack) < MaxNest
  BY DEF DeliverApc
<1>2. m \in Nat /\ m + 1 \in 1..issued /\ apcCount \in 1..ApcMax /\ apcHead \in Ring
  BY <1>1, ApcNumbers, ApcBounds
<1>3. Turn(m + 1) = n
  <2>1. ApcTail(apcHead, 0) = apcHead
    BY <1>2, TailIs, ApcBounds DEF Ring
  <2> QED
    BY <1>2, <2>1 DEF Turn
<1>4. n \in 1..issued
  BY <1>2, <1>3 DEF ApcInv, ApcOrder
<1>5. n \in Requests
  BY <1>4, ApcNumbers, ApcBounds DEF Requests
<1>6. ApcTypeOK'
  <2>1. stack' \in Seq({"drain", "routine"}) /\ Len(stack') = Len(stack) + 1
    BY <1>1 DEF ApcInv, ApcTypeOK
  <2>2. ran' \in Seq(Requests)
    BY <1>1, <1>5 DEF ApcInv, ApcTypeOK
  <2>3. apcHead' \in Ring
    <3>1. 0 \in 0..ApcMax - 1
      BY ApcBounds
    <3> QED
      BY <1>1, <1>2, <3>1, TailAfter
  <2> QED
    BY <1>1, <1>2, <2>1, <2>2, <2>3, ApcBounds DEF ApcInv, ApcTypeOK
<1>7. /\ Len(ran') = m + 1
      /\ \A i \in 1..m : ran'[i] = ran[i]
      /\ ran'[m + 1] = n
  BY <1>1 DEF ApcInv, ApcTypeOK
<1> HIDE DEF m, n
<1>8. \A i \in 1..issued : Turn(i)' = Turn(i)
  <2> SUFFICES ASSUME NEW i \in 1..issued PROVE Turn(i)' = Turn(i)
    OBVIOUS
  <2>1. CASE i =< m
    BY <1>2, <1>7, <2>1 DEF Turn, m
  <2>2. CASE i = m + 1
    <3>1. Turn(i)' = n
      BY <1>7, <2>2 DEF Turn
    <3> QED
      BY <1>3, <2>2, <3>1
  <2>3. CASE i > m + 1
    <3> DEFINE k == i - (m + 1) - 1
    <3>1. k \in 0..ApcMax - 1 /\ k + 1 = i - m - 1 /\ ~ (i =< m) /\ ~ (i =< m + 1)
      BY <1>2, <2>3, ApcNumbers, ApcBounds DEF m
    <3>2. ApcTail(apcHead', k) = ApcTail(apcHead, k + 1)
      BY <1>1, <1>2, <3>1, TailAfter
    <3>3. Turn(i)' = apcs[ApcTail(apcHead', k)]
      BY <1>1, <1>7, <3>1 DEF Turn
    <3>4. Turn(i) = apcs[ApcTail(apcHead, k + 1)]
      BY <3>1 DEF Turn, m
    <3> QED
      BY <3>2, <3>3, <3>4
  <2> QED
    BY <1>2, <2>1, <2>2, <2>3
<1>9. ApcOrder'
  BY <1>1, <1>8 DEF ApcInv, ApcOrder
<1>10. Len(ran') + apcCount' = issued'
  BY <1>1, <1>2, <1>7, ApcNumbers DEF m
<1>11. \A k \in inlined' : \E i \in 1..Len(ran') : ran'[i] = k
  BY <1>1, <1>2, <1>7 DEF ApcInv, m
<1> QED
  BY <1>6, <1>9, <1>10, <1>11 DEF ApcInv

\* A step of the stack alone.
LEMMA StackHolds ==
  ASSUME ApcInv, UNCHANGED <<apcs, apcHead, apcCount, issued, ran, inlined>>,
         stack' \in Seq({"drain", "routine"}), Len(stack') =< MaxNest
  PROVE  ApcInv'
<1>1. ApcTypeOK'
  BY DEF ApcInv, ApcTypeOK
<1> QED
  BY <1>1 DEF ApcInv, ApcOrder, Turn

LEMMA ApcNextHolds == ApcInv /\ [ApcNext]_apcVars => ApcInv'
<1> SUFFICES ASSUME ApcInv, [ApcNext]_apcVars PROVE ApcInv'
  OBVIOUS
<1>1. stack \in Seq({"drain", "routine"}) /\ Len(stack) =< MaxNest
  BY DEF ApcInv, ApcTypeOK
<1>2. CASE AlertableWait
  <2>1. stack' \in Seq({"drain", "routine"}) /\ Len(stack') = Len(stack) + 1 /\ Len(stack) < MaxNest
    BY <1>1, <1>2 DEF AlertableWait
  <2> QED
    BY <1>1, <1>2, <2>1, ApcBounds, StackHolds DEF AlertableWait
<1>3. CASE ReturnApc
  <2>1. stack' \in Seq({"drain", "routine"}) /\ Len(stack') = Len(stack) - 1
    BY <1>1, <1>3 DEF ReturnApc
  <2> QED
    BY <1>1, <1>3, <2>1, ApcBounds, StackHolds DEF ReturnApc
<1>4. CASE UNCHANGED apcVars
  BY <1>1, <1>4, StackHolds DEF apcVars
<1> QED
  BY <1>2, <1>3, <1>4, CompleteHolds, InlineHolds, DeliverHolds DEF ApcNext

-----------------------------------------------------------------------------

\* The invariant of the ring of completions.
THEOREM ApcInvariance == ApcSpec => []ApcInv
BY ApcInitHolds, ApcNextHolds, PTL DEF ApcSpec

\* Every completion routine is called once, in turn, for any capacity of the
\* ring, any number of requests and any nesting of waits and routines.
THEOREM CompletedOnce == ApcSpec => []CompletedInTurn
<1>1. ApcInv => CompletedInTurn
  <2> SUFFICES ASSUME ApcInv PROVE CompletedInTurn
    OBVIOUS
  <2>1. {Turn(i) : i \in 1..issued} = 1..issued
    BY DEF ApcInv, ApcOrder
  <2>2. inlined \subseteq {ran[i] : i \in 1..Len(ran)}
    BY DEF ApcInv
  <2> QED
    BY <2>1, <2>2 DEF ApcInv, ApcOrder, CompletedInTurn
<1> QED
  BY <1>1, ApcInvariance, PTL

-----------------------------------------------------------------------------
(***************************************************************************)
(* The host mixer's table of buffers.                                      *)
(***************************************************************************)

\* Types of the table.
VoiceTypeOK ==
  /\ voices \in [VoiceSlots -> Handles \cup {Empty, Tomb}]
  /\ playing \subseteq VoiceSlots

\* The i-th step of a handle's probe is the first that could end its search.
FirstHitIn(table, h, i) ==
  \A j \in VoiceSlots : j < i => table[ProbeAt(h, j)] \notin {h, Empty}

\* A handle in the table is where its probe first ends: everything the probe
\* passes before it holds another handle or a tombstone.
ReachedIn(table) ==
  \A k \in VoiceSlots : table[k] \in Handles =>
    \E i \in VoiceSlots : ProbeAt(table[k], i) = k /\ FirstHitIn(table, table[k], i)

VoiceInv == VoiceTypeOK /\ ReachedIn(voices)

-----------------------------------------------------------------------------
(* Probes, and what find and insert return.                                *)

LEMMA ProbeInTable ==
  ASSUME NEW h \in Handles, NEW i \in VoiceSlots
  PROVE  ProbeAt(h, i) \in VoiceSlots
<1>1. HashOf[h] + i \in Nat /\ VoiceMax \in Nat /\ VoiceMax > 0
  BY VoiceAssumption DEF VoiceAssumption, VoiceSlots
<1>2. \A n \in Nat : n % VoiceMax \in 0..VoiceMax - 1
  BY <1>1
<1> QED
  BY <1>1, <1>2 DEF ProbeAt, VoiceSlots

LEMMA SlotsAreNat == VoiceSlots \subseteq Nat /\ None \notin VoiceSlots
BY VoiceAssumption DEF VoiceAssumption, VoiceSlots, None

LEMMA Order ==
  /\ \A i, j \in VoiceSlots :
       /\ i < j <=> ~ (j =< i)
       /\ i = j <=> (i =< j /\ j =< i)
       /\ i < j \/ j < i \/ i = j
  /\ \A i, j, k \in VoiceSlots : i < j /\ j < k => i < k
<1>1. \A i \in VoiceSlots : i \in Nat
  BY SlotsAreNat
<1> QED
  BY <1>1

LEMMA WordsApart == Empty \notin Handles /\ Tomb \notin Handles /\ Empty # Tomb
BY VoiceAssumption DEF VoiceAssumption

LEMMA FirstOfIs ==
  ASSUME NEW S \in SUBSET VoiceSlots, S # {}
  PROVE  FirstOf(S) \in S /\ \A j \in S : FirstOf(S) =< j
<1>1. S \in SUBSET Nat
  BY SlotsAreNat
<1> DEFINE Less == OpToRel(<, Nat)
<1>2. \A i, j \in Nat : <<j, i>> \in Less <=> j < i
  BY DEF OpToRel
<1>3. IsWellFoundedOn(Less, Nat)
  BY NatLessThanWellFounded
<1> HIDE DEF Less
<1>4. PICK i \in S : \A j \in S : ~ (<<j, i>> \in Less)
  BY <1>1, <1>3, WFMin
<1>5. \A j \in S : i =< j
  <2>1. \A j \in S : j \in VoiceSlots /\ i \in VoiceSlots /\ i \in Nat /\ j \in Nat
    BY <1>1
  <2> QED
    BY <2>1, <1>2, <1>4, Order
<1> QED
  BY <1>5 DEF FirstOf

\* A set has one least element.
LEMMA FirstOfOnly ==
  ASSUME NEW S \in SUBSET VoiceSlots, NEW i \in S, \A j \in S : i =< j
  PROVE  FirstOf(S) = i
<1>1. FirstOf(S) \in S /\ FirstOf(S) =< i /\ i =< FirstOf(S)
  <2>1. S # {}
    OBVIOUS
  <2> QED
    BY <2>1, FirstOfIs
<1> QED
  BY <1>1, Order

LEMMA MeetsAre ==
  ASSUME NEW h, NEW words
  PROVE  /\ Meets(h, words) \in SUBSET VoiceSlots
         /\ \A i \in VoiceSlots : i \in Meets(h, words) <=> voices[ProbeAt(h, i)] \in words
BY DEF Meets

\* find goes to the slot that holds the handle, and to no other.
LEMMA FindIs ==
  ASSUME VoiceInv, NEW h \in Handles
  PROVE  /\ \A k \in VoiceSlots : Find(h) = k <=> voices[k] = h
         /\ Find(h) \in VoiceSlots \cup {None}
<1> DEFINE ends == Meets(h, {h, Empty})
<1>1. ASSUME NEW k \in VoiceSlots, voices[k] = h
      PROVE  Find(h) = k
  <2>1. PICK i \in VoiceSlots : ProbeAt(h, i) = k /\ FirstHitIn(voices, h, i)
    BY <1>1 DEF VoiceInv, ReachedIn
  <2>2. i \in ends /\ \A j \in ends : ~ (j < i)
    BY <1>1, <2>1, MeetsAre DEF FirstHitIn
  <2>3. \A j \in ends : i =< j
    BY <2>2, Order, MeetsAre
  <2>4. FirstOf(ends) = i
    BY <2>2, <2>3, FirstOfOnly, MeetsAre
  <2> QED
    BY <1>1, <2>1, <2>2, <2>4 DEF Find
<1>2. CASE Find(h) = None
  BY <1>1, <1>2, SlotsAreNat
<1>3. CASE Find(h) # None
  <2>1. ends # {} /\ voices[ProbeAt(h, FirstOf(ends))] = h /\ Find(h) = ProbeAt(h, FirstOf(ends))
    BY <1>3 DEF Find
  <2>2. FirstOf(ends) \in VoiceSlots
    BY <2>1, FirstOfIs, MeetsAre
  <2>3. Find(h) \in VoiceSlots /\ voices[Find(h)] = h
    BY <2>1, <2>2, ProbeInTable
  <2> QED
    BY <1>1, <2>3
<1> QED
  BY <1>2, <1>3

\* insert goes to the handle's slot, or to a free one that its probe reaches.
LEMMA InsertIs ==
  ASSUME VoiceInv, NEW h \in Handles, Insert(h) # None
  PROVE  \/ Insert(h) \in VoiceSlots /\ voices[Insert(h)] = h
         \/ /\ Insert(h) \in VoiceSlots /\ voices[Insert(h)] \in {Empty, Tomb}
            /\ \A k \in VoiceSlots : voices[k] # h
            /\ \E i \in VoiceSlots :
                 /\ ProbeAt(h, i) = Insert(h)
                 /\ \A j \in VoiceSlots : j < i => /\ voices[ProbeAt(h, j)] \notin {h, Empty}
                                                   /\ ProbeAt(h, j) # Insert(h)
<1> DEFINE ends == Meets(h, {h, Empty})
           tombs == {i \in Meets(h, {Tomb}) : \A j \in ends : i < FirstOf(ends)}
<1>1. CASE Find(h) # None
  <2>1. Insert(h) = Find(h)
    BY <1>1 DEF Insert
  <2> QED
    BY <1>1, <2>1, FindIs
<1>2. CASE Find(h) = None
  <2>1. \A k \in VoiceSlots : voices[k] # h
    BY <1>2, FindIs, SlotsAreNat
  <2>2. ends \in SUBSET VoiceSlots /\ tombs \in SUBSET VoiceSlots
    BY MeetsAre
  <2>3. ends # {} => FirstOf(ends) \in ends /\ \A j \in ends : FirstOf(ends) =< j
    BY <2>2, FirstOfIs
  <2>4. CASE tombs # {}
    <3> DEFINE i == FirstOf(tombs)
    <3>1. Insert(h) = ProbeAt(h, i)
      BY <1>2, <2>4 DEF Insert
    <3>2. i \in tombs /\ \A j \in tombs : i =< j
      BY <2>2, <2>4, FirstOfIs
    <3>3. i \in VoiceSlots /\ voices[ProbeAt(h, i)] = Tomb
      BY <2>2, <3>2, MeetsAre
    <3>4. ASSUME NEW j \in VoiceSlots, j < i
          PROVE  j \notin ends /\ j \notin Meets(h, {Tomb})
      <4>1. j \notin tombs
        BY <3>2, <3>3, <3>4, Order
      <4>2. j \notin ends
        <5>1. ASSUME j \in ends PROVE FALSE
          <6>1. i < FirstOf(ends) /\ FirstOf(ends) \in VoiceSlots /\ FirstOf(ends) =< j
            BY <2>2, <2>3, <3>2, <5>1
          <6> HIDE DEF i
          <6>2. i < j
            BY <6>1, <3>3, <3>4, Order
          <6> QED
            BY <6>2, <3>3, <3>4, Order
        <5> QED
          BY <5>1
      <4>3. ASSUME ends # {} PROVE j < FirstOf(ends)
        <5>1. i < FirstOf(ends) /\ FirstOf(ends) \in VoiceSlots
          BY <2>2, <2>3, <3>2, <4>3
        <5> HIDE DEF i
        <5> QED
          BY <3>3, <3>4, <5>1, Order
      <4> QED
        BY <4>1, <4>2, <4>3
    <3>5. \A j \in VoiceSlots : j < i => voices[ProbeAt(h, j)] \notin {h, Empty, Tomb}
      BY <3>4, MeetsAre
    <3>6. ProbeAt(h, i) \in VoiceSlots
      BY <3>3, ProbeInTable
    <3> HIDE DEF i
    <3> QED
      BY <2>1, <3>1, <3>3, <3>5, <3>6
  <2>5. CASE tombs = {}
    <3> DEFINE i == FirstOf(ends)
    <3>1. ends # {} /\ Insert(h) = ProbeAt(h, i)
      BY <1>2, <2>5 DEF Insert
    <3>2. i \in VoiceSlots /\ voices[ProbeAt(h, i)] \in {h, Empty}
      BY <2>2, <2>3, <3>1, MeetsAre
    <3>3. ProbeAt(h, i) \in VoiceSlots
      BY <3>2, ProbeInTable
    <3>4. voices[ProbeAt(h, i)] = Empty
      BY <2>1, <3>2, <3>3
    <3>5. \A j \in VoiceSlots : j < i => j \notin ends
      BY <2>2, <2>3, <3>1, <3>2, Order
    <3>6. \A j \in VoiceSlots : j < i => voices[ProbeAt(h, j)] \notin {h, Empty}
      BY <3>5, MeetsAre
    <3> HIDE DEF i
    <3> QED
      BY <2>1, <3>1, <3>2, <3>3, <3>4, <3>6
  <2> QED
    BY <2>4, <2>5
<1> QED
  BY <1>1, <1>2

-----------------------------------------------------------------------------
(* The invariant.                                                          *)

LEMMA VoiceInitHolds == VoiceInit => VoiceInv
<1> SUFFICES ASSUME VoiceInit PROVE VoiceInv
  OBVIOUS
<1> QED
  BY WordsApart DEF VoiceInit, VoiceInv, VoiceTypeOK, ReachedIn

\* Storing a handle in a free slot that its probe reaches hides no other.
LEMMA StoreHolds ==
  ASSUME VoiceInv, NEW h \in Handles, NEW k \in VoiceSlots, voices[k] \in {Empty, Tomb},
         \A m \in VoiceSlots : voices[m] # h,
         NEW i \in VoiceSlots, ProbeAt(h, i) = k,
         \A j \in VoiceSlots : j < i => voices[ProbeAt(h, j)] \notin {h, Empty} /\ ProbeAt(h, j) # k
  PROVE  ReachedIn([voices EXCEPT ![k] = h])
<1> DEFINE table == [voices EXCEPT ![k] = h]
<1> SUFFICES ASSUME NEW m \in VoiceSlots, table[m] \in Handles
             PROVE \E n \in VoiceSlots : ProbeAt(table[m], n) = m /\ FirstHitIn(table, table[m], n)
  BY DEF ReachedIn
<1>1. \A n \in VoiceSlots : table[n] = IF n = k THEN h ELSE voices[n]
  BY DEF VoiceInv, VoiceTypeOK
<1> HIDE DEF table
<1>2. CASE m = k
  <2>1. FirstHitIn(table, h, i)
    BY <1>1, ProbeInTable DEF FirstHitIn
  <2> QED
    BY <1>1, <1>2, <2>1
<1>3. CASE m # k
  <2>1. voices[m] \in Handles /\ table[m] = voices[m]
    BY <1>1, <1>3
  <2>2. PICK n \in VoiceSlots : ProbeAt(voices[m], n) = m /\ FirstHitIn(voices, voices[m], n)
    BY <2>1 DEF VoiceInv, ReachedIn
  <2>3. voices[m] # h
    OBVIOUS
  <2>4. FirstHitIn(table, voices[m], n)
    BY <1>1, <2>1, <2>2, <2>3, WordsApart, ProbeInTable DEF FirstHitIn
  <2> QED
    BY <2>1, <2>2, <2>4
<1> QED
  BY <1>2, <1>3

\* A tombstone hides nothing.
LEMMA TombHolds ==
  ASSUME VoiceInv, NEW k \in VoiceSlots
  PROVE  ReachedIn([voices EXCEPT ![k] = Tomb])
<1> DEFINE table == [voices EXCEPT ![k] = Tomb]
<1> SUFFICES ASSUME NEW m \in VoiceSlots, table[m] \in Handles
             PROVE \E n \in VoiceSlots : ProbeAt(table[m], n) = m /\ FirstHitIn(table, table[m], n)
  BY DEF ReachedIn
<1>1. \A n \in VoiceSlots : table[n] = IF n = k THEN Tomb ELSE voices[n]
  BY DEF VoiceInv, VoiceTypeOK
<1> HIDE DEF table
<1>2. voices[m] \in Handles /\ table[m] = voices[m]
  BY <1>1, WordsApart
<1>3. PICK n \in VoiceSlots : ProbeAt(voices[m], n) = m /\ FirstHitIn(voices, voices[m], n)
  BY <1>2 DEF VoiceInv, ReachedIn
<1>4. FirstHitIn(table, voices[m], n)
  BY <1>1, <1>2, <1>3, WordsApart, ProbeInTable DEF FirstHitIn
<1> QED
  BY <1>2, <1>3, <1>4

LEMMA CreateHolds == ASSUME VoiceInv, NEW h \in Handles, Create(h) PROVE VoiceInv'
<1> DEFINE k == Insert(h)
<1>1. k # None /\ voices' = [voices EXCEPT ![k] = h] /\ playing' = playing \ {k}
  BY DEF Create
<1>2. k \in VoiceSlots
  BY <1>1, InsertIs
<1>3. VoiceTypeOK'
  BY <1>1, <1>2 DEF VoiceInv, VoiceTypeOK
<1>4. ReachedIn(voices')
  <2>1. CASE voices[k] = h
    <3>1. voices' = voices
      BY <1>1, <1>2, <2>1 DEF VoiceInv, VoiceTypeOK
    <3> QED
      BY <3>1 DEF VoiceInv
  <2>2. CASE voices[k] # h
    BY <1>1, <1>2, <2>2, InsertIs, StoreHolds
  <2> QED
    BY <2>1, <2>2
<1> QED
  BY <1>3, <1>4 DEF VoiceInv, ReachedIn, FirstHitIn, ProbeAt

LEMMA VoiceNextHolds == VoiceInv /\ [VoiceNext]_voiceVars => VoiceInv'
<1> SUFFICES ASSUME VoiceInv, [VoiceNext]_voiceVars PROVE VoiceInv'
  OBVIOUS
<1>1. CASE ResetVoices
  BY <1>1, WordsApart DEF ResetVoices, VoiceInv, VoiceTypeOK, ReachedIn
<1>2. ASSUME NEW h \in Handles, Create(h) PROVE VoiceInv'
  BY <1>2, CreateHolds
<1>3. ASSUME NEW h \in Handles, ReleaseVoice(h) PROVE VoiceInv'
  <2> DEFINE k == Find(h)
  <2>1. k \in VoiceSlots /\ voices' = [voices EXCEPT ![k] = Tomb] /\ playing' = playing \ {k}
    BY <1>3, FindIs DEF ReleaseVoice
  <2>2. ReachedIn(voices')
    BY <2>1, TombHolds
  <2> QED
    BY <2>1, <2>2 DEF VoiceInv, VoiceTypeOK, ReachedIn, FirstHitIn, ProbeAt
<1>4. ASSUME NEW h \in Handles, PlayStop(h) PROVE VoiceInv'
  <2>1. playing' \subseteq VoiceSlots /\ voices' = voices
    BY <1>4, FindIs DEF PlayStop, VoiceInv, VoiceTypeOK
  <2> QED
    BY <2>1 DEF VoiceInv, VoiceTypeOK, ReachedIn, FirstHitIn, ProbeAt
<1>5. CASE UNCHANGED voiceVars
  BY <1>5 DEF voiceVars, VoiceInv, VoiceTypeOK, ReachedIn, FirstHitIn, ProbeAt
<1> QED
  BY <1>1, <1>2, <1>3, <1>4, <1>5 DEF VoiceNext

\* The invariant of the table.
THEOREM VoiceInvariance == VoiceSpec => []VoiceInv
BY VoiceInitHolds, VoiceNextHolds, PTL DEF VoiceSpec

-----------------------------------------------------------------------------
(* The refinement.                                                         *)

Seen == [h \in Found |-> Find(h) \in playing]

\* A handle is seen if a slot holds it, and plays if that slot does.
SeenOK ==
  /\ Found = {h \in Handles : \E k \in VoiceSlots : voices[k] = h}
  /\ \A h \in Handles, k \in VoiceSlots : voices[k] = h => Find(h) = k

LEMMA SeenIs == VoiceInv => SeenOK
<1> SUFFICES ASSUME VoiceInv PROVE SeenOK
  OBVIOUS
<1>1. \A h \in Handles : Find(h) # None <=> \E k \in VoiceSlots : voices[k] = h
  BY FindIs, SlotsAreNat
<1> QED
  BY <1>1, FindIs DEF Found, SeenOK

LEMMA SeenAfter == VoiceInv' => SeenOK'
BY SeenIs, PTL

LEMMA StartShows == VoiceInit => BufferSpec!Init
<1> SUFFICES ASSUME VoiceInit PROVE BufferSpec!Init
  OBVIOUS
<1>1. Found = {}
  BY VoiceInitHolds, SeenIs, WordsApart DEF VoiceInit, SeenOK
<1> QED
  BY <1>1 DEF BufferSpec!Init, BufferSpec!NoBuffers

\* dsh_reset leaves no buffer.
LEMMA ResetShows == ASSUME VoiceInv', ResetVoices PROVE BufferSpec!Reset
<1>1. Found' = {}
  BY SeenAfter, WordsApart DEF ResetVoices, SeenOK
<1> QED
  BY <1>1 DEF BufferSpec!Reset, BufferSpec!NoBuffers

\* dsh_buffer_create adds its handle, or begins it afresh, and no other changes.
LEMMA CreateShows ==
  ASSUME VoiceInv, VoiceInv', NEW h \in Handles, Create(h)
  PROVE  BufferSpec!Create(h)
<1> DEFINE k == Insert(h)
<1>1. k # None /\ voices' = [voices EXCEPT ![k] = h] /\ playing' = playing \ {k}
  BY DEF Create
<1>2. k \in VoiceSlots /\ voices[k] \in {h, Empty, Tomb}
  BY <1>1, InsertIs
<1> HIDE DEF k
<1>3. \A m \in VoiceSlots : voices'[m] = IF m = k THEN h ELSE voices[m]
  BY <1>1, <1>2 DEF VoiceInv, VoiceTypeOK
<1>4. SeenOK /\ SeenOK'
  BY SeenIs, SeenAfter
<1>5. Found' = Found \cup {h}
  BY <1>2, <1>3, <1>4, WordsApart DEF SeenOK
<1>6. ASSUME NEW g \in Found'
      PROVE  /\ g = h => Find(g)' \notin playing'
             /\ g # h => (Find(g)' \in playing' <=> Find(g) \in playing)
  <2>1. CASE g = h
    <3>1. Find(g)' = k
      BY <1>2, <1>3, <1>4, <2>1 DEF SeenOK
    <3>2. Find(g)' \notin playing'
      BY <1>1, <3>1
    <3> QED
      BY <2>1, <3>2
  <2>2. CASE g # h
    <3>1. PICK m \in VoiceSlots : voices'[m] = g
      BY <1>4 DEF SeenOK
    <3>2. m # k /\ voices[m] = g
      BY <1>3, <2>2, <3>1
    <3>3. Find(g)' = m /\ Find(g) = m
      BY <1>4, <3>1, <3>2 DEF SeenOK, Found
    <3> QED
      BY <1>1, <2>2, <3>2, <3>3
  <2> QED
    BY <2>1, <2>2
<1>7. ASSUME NEW g \in Found'
      PROVE  Seen'[g] = IF g = h THEN FALSE ELSE Seen[g]
  <2>1. CASE g = h
    <3>1. Seen'[g] = (Find(g)' \in playing')
      BY DEF Seen
    <3>2. (Find(g)' \in playing') = FALSE
      BY <1>6, <2>1
    <3>3. Seen'[g] = FALSE
      BY <3>1, <3>2, Zenon
    <3> QED
      BY <2>1, <3>3
  <2>2. CASE g # h
    <3>1. g \in Found
      BY <1>5, <2>2
    <3> QED
      BY <1>6, <2>2, <3>1 DEF Seen
  <2> QED
    BY <2>1, <2>2
<1>8. Seen' = [g \in DOMAIN Seen \cup {h} |-> IF g = h THEN FALSE ELSE Seen[g]]
  BY <1>5, <1>7 DEF Seen
<1> QED
  BY <1>8 DEF Seen, BufferSpec!Create

\* dsh_buffer_release takes its handle out, and a tombstone hides no other.
LEMMA ReleaseShows ==
  ASSUME VoiceInv, VoiceInv', NEW h \in Handles, ReleaseVoice(h)
  PROVE  BufferSpec!Release(h)
<1> DEFINE k == Find(h)
<1>1. k # None /\ voices' = [voices EXCEPT ![k] = Tomb] /\ playing' = playing \ {k}
  BY DEF ReleaseVoice
<1>2. k \in VoiceSlots /\ voices[k] = h
  BY <1>1, FindIs
<1>3. \A m \in VoiceSlots : voices[m] = h => m = k
  BY FindIs
<1> HIDE DEF k
<1>4. \A m \in VoiceSlots : voices'[m] = IF m = k THEN Tomb ELSE voices[m]
  BY <1>1, <1>2 DEF VoiceInv, VoiceTypeOK
<1>5. SeenOK /\ SeenOK'
  BY SeenIs, SeenAfter
<1>6. Found' = Found \ {h}
  BY <1>2, <1>3, <1>4, <1>5, WordsApart DEF SeenOK
<1>7. ASSUME NEW g \in Found'
      PROVE  Find(g)' \in playing' <=> Find(g) \in playing
  <2>1. g # h
    BY <1>6
  <2>2. PICK m \in VoiceSlots : voices'[m] = g
    BY <1>5 DEF SeenOK
  <2>3. m # k /\ voices[m] = g
    BY <1>4, <2>2, WordsApart DEF Found
  <2>4. Find(g)' = m /\ Find(g) = m
    BY <1>5, <2>2, <2>3 DEF SeenOK, Found
  <2> QED
    BY <1>1, <2>3, <2>4
<1> QED
  BY <1>6, <1>7 DEF BufferSpec!Release

\* dsh_play and dsh_stop change what one handle was told.
LEMMA PlayShows ==
  ASSUME VoiceInv, VoiceInv', NEW h \in Handles, PlayStop(h)
  PROVE  BufferSpec!Play(h)
<1>1. PICK on \in BOOLEAN : playing' = IF on THEN playing \cup {Find(h)} ELSE playing \ {Find(h)}
  BY DEF PlayStop
<1>2. voices' = voices /\ h \in Found
  BY DEF PlayStop, Found
<1>3. SeenOK /\ SeenOK'
  BY SeenIs, SeenAfter
<1>4. Found' = Found
  BY <1>2, <1>3 DEF SeenOK
<1>5. ASSUME NEW g \in Found
      PROVE  /\ Find(g)' = Find(g)
             /\ g # h => Find(g) # Find(h)
  BY <1>2, <1>3 DEF SeenOK, Found
<1>6. /\ Find(h)' \in playing' <=> on
      /\ \A g \in Found \ {h} : Find(g)' \in playing' <=> Find(g) \in playing
  <2>1. CASE on
    BY <1>1, <1>2, <1>5, <2>1
  <2>2. CASE ~on
    BY <1>1, <1>2, <1>5, <2>2
  <2> QED
    BY <2>1, <2>2
<1>7. Seen'[h] = on
  BY <1>2, <1>4, <1>6 DEF Seen
<1>8. \A g \in Found \ {h} : Seen'[g] = Seen[g]
  BY <1>4, <1>6 DEF Seen
<1>9. Seen' = [Seen EXCEPT ![h] = on]
  BY <1>2, <1>4, <1>7, <1>8 DEF Seen
<1> QED
  BY <1>1, <1>2, <1>9 DEF Seen, BufferSpec!Play

-----------------------------------------------------------------------------

\* Creating, releasing, playing and resetting buffers in the table are those
\* operations on a set of buffers, whatever the table holds and however handles
\* collide.
THEOREM Refinement == VoiceSpec => ImplementsBufferSet
<1>1. ASSUME VoiceInv, VoiceInv', [VoiceNext]_voiceVars
      PROVE  [BufferSpec!Next]_Seen
  <2>1. CASE ResetVoices
    BY <1>1, <2>1, ResetShows DEF BufferSpec!Next
  <2>2. ASSUME NEW h \in Handles, Create(h) PROVE BufferSpec!Next
    BY <1>1, <2>2, CreateShows DEF BufferSpec!Next
  <2>3. ASSUME NEW h \in Handles, ReleaseVoice(h) PROVE BufferSpec!Next
    BY <1>1, <2>3, ReleaseShows DEF BufferSpec!Next
  <2>4. ASSUME NEW h \in Handles, PlayStop(h) PROVE BufferSpec!Next
    BY <1>1, <2>4, PlayShows DEF BufferSpec!Next
  <2>5. CASE UNCHANGED voiceVars
    BY <2>5 DEF voiceVars, Seen, Found, Find, Meets, ProbeAt
  <2> QED
    BY <1>1, <2>1, <2>2, <2>3, <2>4, <2>5 DEF VoiceNext
<1> QED
  BY <1>1, StartShows, VoiceInvariance, PTL DEF VoiceSpec, ImplementsBufferSet, BufferSpec!Spec, Seen

(***************************************************************************)
(* Completion of USB transfers.                                            *)
(***************************************************************************)

\* A thread between the taking and the releasing of the walk lock holds it.
WalkLocked == \A t \in Walkers : walk[t].pc \in {"status", "ed", "run", "end"} => walkLock = t

\* Its copies of HeadP and TailP are still the endpoint's, or behind it.
Cursor ==
  \A t \in Walkers : walk[t].pc = "run" =>
    /\ walk[t].cur = ed[walk[t].e].head
    /\ walk[t].cur <= walk[t].tail /\ walk[t].tail <= ed[walk[t].e].tail

UsbInv == UsbTypeOK /\ WalkLocked /\ Cursor /\ RetiredOnce

-----------------------------------------------------------------------------

LEMMA TdsAre == \A e \in Eds, i \in Nat : i < MaxOf(e) => <<e, i>> \in Tds
<1> SUFFICES ASSUME NEW e \in Eds, NEW i \in Nat, i < MaxOf(e) PROVE <<e, i>> \in Tds
  OBVIOUS
<1> USE UsbAssumption DEF UsbAssumption
<1>1. CASE e = "control"
  <2>1. i \in 0..MaxControl - 1
    BY <1>1 DEF MaxOf
  <2> QED
    BY <1>1, <2>1 DEF Tds
<1>2. CASE e = "periodic"
  <2>1. i \in 0..MaxPeriodic - 1
    BY <1>2 DEF MaxOf
  <2> QED
    BY <1>2, <2>1 DEF Tds
<1> QED
  BY <1>1, <1>2 DEF Eds

LEMMA InTds ==
  \A td \in Tds : td[1] \in Eds /\ td[2] \in Nat /\ td[2] < MaxOf(td[1]) /\ td = <<td[1], td[2]>>
<1> SUFFICES ASSUME NEW td \in Tds
             PROVE td[1] \in Eds /\ td[2] \in Nat /\ td[2] < MaxOf(td[1]) /\ td = <<td[1], td[2]>>
  OBVIOUS
<1> USE UsbAssumption DEF UsbAssumption
<1>1. CASE td \in {"control"} \X (0..MaxControl - 1)
  BY <1>1 DEF Eds, MaxOf
<1>2. CASE td \in {"periodic"} \X (0..MaxPeriodic - 1)
  BY <1>2 DEF Eds, MaxOf
<1> QED
  BY <1>1, <1>2 DEF Tds

LEMMA UsbInitHolds == UsbInit => UsbInv
<1> SUFFICES ASSUME UsbInit PROVE UsbInv
  OBVIOUS
<1> USE DEF UsbInit
<1>1. IdleWalk \in WalkRec
  BY DEF IdleWalk, WalkRec, WalkPcs, Eds
<1>2. \A e \in Eds : MaxOf(e) \in Nat
  BY UsbAssumption DEF UsbAssumption, MaxOf
<1>3. UsbTypeOK
  <2>1. ed \in [Eds -> [head : Nat, tail : Nat, halted : BOOLEAN]]
    OBVIOUS
  <2>2. \A e \in Eds : ed[e].head <= ed[e].tail /\ ed[e].tail <= MaxOf(e)
    BY <1>2
  <2>3. times \in [Tds -> Nat] /\ built \in [Tds -> SUBSET Walkers]
    OBVIOUS
  <2>4. hc \in [done : SUBSET Tds, wdh : BOOLEAN] /\ xpp \in [took : BOOLEAN, owed : BOOLEAN]
    OBVIOUS
  <2>5. walk \in [Walkers -> WalkRec]
    BY <1>1
  <2> QED
    BY <2>1, <2>2, <2>3, <2>4, <2>5 DEF UsbTypeOK
<1>4. WalkLocked /\ Cursor
  BY DEF WalkLocked, Cursor, IdleWalk
<1>5. RetiredOnce
  BY InTds DEF RetiredOnce
<1> QED
  BY <1>3, <1>4, <1>5 DEF UsbInv

\* The driver moves TailP away from a walk, and takes no part in the others.
LEMMA SubmitStep ==
  ASSUME UsbInv, NEW t \in Submitters, NEW e \in Eds, Submit(t, e)
  PROVE  UsbInv'
<1> USE DEF UsbInv
<1>0. MaxOf(e) \in Nat /\ ed[e].tail \in Nat /\ ed[e].head \in Nat
  BY UsbAssumption DEF UsbAssumption, MaxOf, UsbTypeOK
<1>1. <<e, ed[e].tail>> \in Tds
  BY <1>0, TdsAre DEF Submit
<1>2. \A f \in Eds : /\ ed'[f].head = ed[f].head /\ ed'[f].tail >= ed[f].tail
                     /\ ed'[f].tail <= MaxOf(f) /\ ed'[f].head <= ed'[f].tail
  BY <1>0, UsbAssumption DEF UsbAssumption, MaxOf, Submit, UsbTypeOK
<1>3. ed' \in [Eds -> [head : Nat, tail : Nat, halted : BOOLEAN]]
  BY <1>0 DEF Submit, UsbTypeOK
<1>4. built' \in [Tds -> SUBSET Walkers]
  BY <1>1 DEF Submit, UsbTypeOK
<1>5. xpp' \in [took : BOOLEAN, owed : BOOLEAN]
  BY DEF Submit, UsbTypeOK
<1>6. UsbTypeOK'
  BY <1>2, <1>3, <1>4, <1>5 DEF Submit, UsbTypeOK
<1>7. WalkLocked'
  BY DEF Submit, WalkLocked
<1>8. Cursor'
  <2> SUFFICES ASSUME NEW w \in Walkers, walk[w].pc = "run"
               PROVE /\ walk[w].cur = ed'[walk[w].e].head
                     /\ walk[w].cur <= walk[w].tail /\ walk[w].tail <= ed'[walk[w].e].tail
    BY DEF Cursor, Submit
  <2>1. walk[w].e \in Eds /\ walk[w].tail \in Nat /\ ed[walk[w].e].tail \in Nat /\ ed'[walk[w].e].tail \in Nat
    BY <1>3 DEF UsbTypeOK, WalkRec
  <2> QED
    BY <1>2, <2>1 DEF Cursor
<1>9. RetiredOnce'
  BY <1>2, InTds DEF RetiredOnce, Submit
<1> QED
  BY <1>6, <1>7, <1>8, <1>9

LEMMA DriverStep ==
  ASSUME UsbInv, (\E td \in Tds : Arrive(td)) \/ TakeQueue \/ Acknowledge
  PROVE  UsbInv'
<1> USE DEF UsbInv
<1>1. CASE \E td \in Tds : Arrive(td)
  BY <1>1 DEF Arrive, UsbTypeOK, WalkLocked, Cursor, RetiredOnce
<1>2. CASE TakeQueue
  BY <1>2 DEF TakeQueue, UsbTypeOK, WalkLocked, Cursor, RetiredOnce
<1>3. CASE Acknowledge
  BY <1>3 DEF Acknowledge, UsbTypeOK, WalkLocked, Cursor, RetiredOnce
<1> QED
  BY <1>1, <1>2, <1>3

\* A step of a walk that leaves the schedule alone.
Keeps(t) ==
  /\ UNCHANGED <<ed, times>>
  /\ \A w \in Walkers \ {t} : walk'[w] = walk[w]
  /\ walk'[t].pc # "run"
  /\ UsbTypeOK'

LEMMA KeepsStep ==
  ASSUME UsbInv, NEW t \in Walkers, Keeps(t), WalkLocked'
  PROVE  UsbInv'
BY DEF UsbInv, Keeps, Cursor, RetiredOnce

LEMMA OutsideStep ==
  ASSUME UsbInv, NEW t \in Walkers,
         \/ t \in Ringers /\ RingDoorbell(t)
         \/ t = Tick /\ TickGate
         \/ LockWalk(t) \/ ReadStatus(t) \/ EndWalk(t) \/ Commit(t) \/ PostStatus(t)
  PROVE  UsbInv'
<1> USE DEF UsbInv
<1>0. walk[t] \in WalkRec /\ IdleWalk \in WalkRec
  BY DEF UsbTypeOK, IdleWalk, WalkRec, WalkPcs, Eds
<1>1. CASE t \in Ringers /\ RingDoorbell(t)
  <2>1. UsbTypeOK'
    BY <1>0, <1>1 DEF RingDoorbell, UsbTypeOK, WalkRec, WalkPcs
  <2>2. WalkLocked'
    BY <1>1 DEF RingDoorbell, UsbTypeOK, WalkLocked
  <2>3. walk'[t].pc # "run" /\ \A w \in Walkers \ {t} : walk'[w] = walk[w]
    BY <1>1 DEF RingDoorbell, UsbTypeOK
  <2> QED
    BY <1>1, <2>1, <2>2, <2>3, KeepsStep DEF Keeps, RingDoorbell
<1>2. CASE t = Tick /\ TickGate
  <2>1. UsbTypeOK'
    BY <1>0, <1>2 DEF TickGate, UsbTypeOK, WalkRec, WalkPcs, Eds
  <2>2. WalkLocked'
    BY <1>2 DEF TickGate, UsbTypeOK, WalkLocked
  <2>3. walk'[t].pc # "run" /\ \A w \in Walkers \ {t} : walk'[w] = walk[w]
    <3>1. walk'[t] = [walk[t] EXCEPT !.pc = "lock", !.e = IF retry THEN "control" ELSE "periodic"]
      BY <1>2 DEF TickGate, UsbTypeOK
    <3>2. walk'[t].pc = "lock"
      BY <1>0, <3>1 DEF WalkRec
    <3>3. \A w \in Walkers \ {t} : walk'[w] = walk[w]
      BY <1>2 DEF TickGate, UsbTypeOK
    <3> QED
      BY <3>2, <3>3
  <2>4. UNCHANGED <<ed, times>>
    BY <1>2 DEF TickGate
  <2> QED
    BY <2>1, <2>2, <2>3, <2>4, KeepsStep DEF Keeps
<1>3. CASE LockWalk(t)
  <2>1. UsbTypeOK'
    BY <1>0, <1>3 DEF LockWalk, Begun, UsbTypeOK, WalkRec, WalkPcs
  <2>2. WalkLocked'
    BY <1>3, UsbAssumption DEF UsbAssumption, LockWalk, Begun, UsbTypeOK, WalkLocked
  <2> QED
    BY <1>3, <2>1, <2>2, KeepsStep DEF Keeps, LockWalk, Begun, UsbTypeOK
<1>4. CASE EndWalk(t)
  <2> DEFINE after == walk'[t]
  <2>1. after \in WalkRec /\ after.pc \in {"idle", "lock", "commit"}
    BY <1>0, <1>4 DEF EndWalk, UsbTypeOK, IdleWalk, WalkRec, WalkPcs, Eds
  <2>2. walk' = [walk EXCEPT ![t] = after]
    BY <1>4 DEF EndWalk, UsbTypeOK
  <2>3. hcca' \subseteq Tds
    BY <1>0, <1>4 DEF EndWalk, UsbTypeOK, WalkRec
  <2>4. UsbTypeOK'
    BY <1>4, <2>1, <2>2, <2>3 DEF EndWalk, UsbTypeOK
  <2>5. WalkLocked'
    BY <1>4, <2>1, <2>2 DEF EndWalk, UsbTypeOK, WalkLocked, Walks
  <2> QED
    BY <1>4, <2>1, <2>2, <2>4, <2>5, KeepsStep DEF Keeps, EndWalk, UsbTypeOK
<1>5. CASE Commit(t)
  <2>1. UsbTypeOK'
    BY <1>0, <1>5 DEF Commit, UsbTypeOK, WalkRec, WalkPcs
  <2>2. WalkLocked'
    BY <1>5 DEF Commit, UsbTypeOK, WalkLocked
  <2> QED
    BY <1>5, <2>1, <2>2, KeepsStep DEF Keeps, Commit, UsbTypeOK
<1>6. CASE ReadStatus(t)
  <2>1. UsbTypeOK'
    BY <1>0, <1>6 DEF ReadStatus, UsbTypeOK, WalkRec, WalkPcs
  <2>2. WalkLocked'
    BY <1>6 DEF ReadStatus, UsbTypeOK, WalkLocked, Walks
  <2> QED
    BY <1>6, <2>1, <2>2, KeepsStep DEF Keeps, ReadStatus, UsbTypeOK
<1>7. CASE PostStatus(t)
  <2>1. UsbTypeOK'
    BY <1>0, <1>7 DEF PostStatus, UsbTypeOK, WalkRec
  <2>2. WalkLocked'
    BY <1>7 DEF PostStatus, UsbTypeOK, WalkLocked, IdleWalk
  <2> QED
    BY <1>7, <2>1, <2>2, KeepsStep DEF Keeps, PostStatus, UsbTypeOK, IdleWalk
<1> QED
  BY <1>1, <1>2, <1>3, <1>4, <1>5, <1>6, <1>7

LEMMA ListStep ==
  ASSUME UsbInv, NEW t \in Walkers, ReadEd(t) \/ StopTds(t) \/ LeaveTd(t)
  PROVE  UsbInv'
<1> USE DEF UsbInv
<1>0. walk[t] \in WalkRec
  BY DEF UsbTypeOK
<1>1. CASE ReadEd(t)
  <2>1. walk[t].e \in Eds /\ ed[walk[t].e].head \in Nat /\ ed[walk[t].e].tail \in Nat
        /\ ed[walk[t].e].head <= ed[walk[t].e].tail
    BY <1>0 DEF UsbTypeOK, WalkRec
  <2>2. UsbTypeOK'
    BY <1>0, <1>1, <2>1 DEF ReadEd, UsbTypeOK, WalkRec, WalkPcs
  <2>3. WalkLocked'
    BY <1>1 DEF ReadEd, UsbTypeOK, WalkLocked, Walks
  <2>4. Cursor'
    <3>1. walk'[t] = [walk[t] EXCEPT !.pc = IF ed[walk[t].e].halted THEN "end" ELSE "run",
                                     !.cur = ed[walk[t].e].head, !.tail = ed[walk[t].e].tail]
      BY <1>1 DEF ReadEd, UsbTypeOK
    <3>2. /\ walk'[t].e = walk[t].e /\ walk'[t].cur = ed[walk[t].e].head
          /\ walk'[t].tail = ed[walk[t].e].tail
      BY <1>0, <3>1 DEF WalkRec
    <3>3. \A w \in Walkers \ {t} : walk'[w] = walk[w]
      BY <1>1 DEF ReadEd, UsbTypeOK
    <3>4. ed' = ed
      BY <1>1 DEF ReadEd
    <3> QED
      BY <2>1, <3>2, <3>3, <3>4 DEF Cursor
  <2> QED
    BY <1>1, <2>2, <2>3, <2>4 DEF ReadEd, RetiredOnce
<1>2. CASE StopTds(t) \/ LeaveTd(t)
  <2>1. UsbTypeOK'
    <3>0. [walk[t] EXCEPT !.pc = "end", !.cur = 0, !.tail = 0] \in WalkRec
      BY <1>0 DEF WalkRec, WalkPcs
    <3>1. walk' \in [Walkers -> WalkRec]
      BY <3>0, <1>2 DEF StopTds, LeaveTd, EndsAt, UsbTypeOK
    <3>2. UNCHANGED <<ed, times, hc, hcca, built, walkLock, xpp>> /\ retry' \in BOOLEAN
      BY <1>2 DEF StopTds, LeaveTd, UsbTypeOK
    <3> QED
      BY <3>1, <3>2 DEF UsbTypeOK
  <2>2. WalkLocked'
    BY <1>2 DEF StopTds, LeaveTd, EndsAt, UsbTypeOK, WalkLocked, Walks
  <2>0. EndsAt(t)
    BY <1>2 DEF StopTds, LeaveTd
  <2>3. walk'[t].pc # "run" /\ \A w \in Walkers \ {t} : walk'[w] = walk[w]
    <3>1. walk'[t] = [walk[t] EXCEPT !.pc = "end", !.cur = 0, !.tail = 0]
      BY <2>0 DEF EndsAt, UsbTypeOK
    <3>2. walk'[t].pc = "end"
      BY <1>0, <3>1 DEF WalkRec
    <3>3. \A w \in Walkers \ {t} : walk'[w] = walk[w]
      BY <2>0 DEF EndsAt, UsbTypeOK
    <3> QED
      BY <3>2, <3>3
  <2>4. UNCHANGED <<ed, times>>
    BY <1>2 DEF StopTds, LeaveTd
  <2> QED
    BY <2>1, <2>2, <2>3, <2>4, KeepsStep DEF Keeps
<1> QED
  BY <1>1, <1>2

\* The TD that is run is the one at HeadP, and HeadP passes it in the same step;
\* another walk that is running would hold the lock too.
LEMMA RetireStep ==
  ASSUME UsbInv, NEW t \in Walkers, RetireTd(t)
  PROVE  UsbInv'
<1> USE DEF UsbInv
<1> DEFINE e == walk[t].e
           c == walk[t].cur
<1>0. walk[t] \in WalkRec /\ e \in Eds /\ c \in Nat
  BY DEF UsbTypeOK, WalkRec
<1>1. c = ed[e].head /\ c < ed[e].tail /\ ed[e].tail <= MaxOf(e) /\ c < MaxOf(e) /\ c < walk[t].tail
  <2>1. walk[t].tail \in Nat /\ ed[e].tail \in Nat /\ MaxOf(e) \in Nat
    BY <1>0, UsbAssumption DEF UsbAssumption, UsbTypeOK, WalkRec, MaxOf
  <2>2. c = ed[e].head /\ c <= walk[t].tail /\ c # walk[t].tail /\ walk[t].tail <= ed[e].tail
    BY <1>0 DEF RetireTd, Walks, Cursor
  <2>3. ed[e].tail <= MaxOf(e)
    BY <1>0 DEF UsbTypeOK
  <2> QED
    BY <1>0, <2>1, <2>2, <2>3
<1>2. <<e, c>> \in Tds
  BY <1>0, <1>1, TdsAre
<1>3. PICK fails \in BOOLEAN :
        /\ ed' = [ed EXCEPT ![e].head = c + 1, ![e].halted = fails]
        /\ walk' = [walk EXCEPT ![t].cur = c + 1, ![t].done = walk[t].done \cup {<<e, c>>},
                                ![t].retired = TRUE, ![t].pc = IF fails THEN "end" ELSE "run"]
  BY DEF RetireTd, Here
<1>4. times' = [times EXCEPT ![<<e, c>>] = times[<<e, c>>] + 1]
  BY DEF RetireTd, Here
<1>5. /\ ed' \in [Eds -> [head : Nat, tail : Nat, halted : BOOLEAN]]
      /\ ed'[e].head = c + 1 /\ ed'[e].tail = ed[e].tail
      /\ \A f \in Eds \ {e} : ed'[f] = ed[f]
  BY <1>0, <1>3 DEF UsbTypeOK
<1>6. /\ walk' \in [Walkers -> WalkRec]
      /\ walk'[t].e = e /\ walk'[t].cur = c + 1 /\ walk'[t].tail = walk[t].tail
      /\ walk'[t].pc \in {"end", "run"}
      /\ \A w \in Walkers \ {t} : walk'[w] = walk[w]
  <2> DEFINE after == walk'[t]
  <2>1. after = [walk[t] EXCEPT !.cur = c + 1, !.done = walk[t].done \cup {<<e, c>>},
                               !.retired = TRUE, !.pc = IF fails THEN "end" ELSE "run"]
    BY <1>3 DEF UsbTypeOK
  <2>2. walk[t].done \cup {<<e, c>>} \subseteq Tds
    BY <1>0, <1>2 DEF WalkRec
  <2>3. after \in WalkRec /\ after.e = e /\ after.cur = c + 1 /\ after.tail = walk[t].tail
        /\ after.pc \in {"end", "run"}
    <3> DEFINE end == IF fails THEN "end" ELSE "run"
    <3>1. end \in {"end", "run"}
      OBVIOUS
    <3>2. after = [pc |-> end, e |-> e, cur |-> c + 1, tail |-> walk[t].tail,
                   done |-> walk[t].done \cup {<<e, c>>}, wdh |-> walk[t].wdh, retired |-> TRUE]
      BY <1>0, <2>1 DEF WalkRec
    <3>3. walk[t].tail \in Nat /\ walk[t].wdh \in BOOLEAN /\ c + 1 \in Nat
      BY <1>0 DEF WalkRec
    <3> HIDE DEF end, after
    <3> QED
      BY <1>0, <2>2, <3>1, <3>2, <3>3 DEF WalkRec, WalkPcs
  <2>4. walk' = [walk EXCEPT ![t] = after]
    BY <1>3, <2>1 DEF UsbTypeOK
  <2> QED
    BY <2>3, <2>4 DEF UsbTypeOK
<1>7. UsbTypeOK'
  <2>1. times' \in [Tds -> Nat]
    BY <1>2, <1>4 DEF UsbTypeOK
  <2>2. \A f \in Eds : ed'[f].head <= ed'[f].tail /\ ed'[f].tail <= MaxOf(f)
    <3> SUFFICES ASSUME NEW f \in Eds
                 PROVE ed'[f].head <= ed'[f].tail /\ ed'[f].tail <= MaxOf(f)
      OBVIOUS
    <3>1. CASE f = e
      BY <1>0, <1>1, <1>5, <3>1 DEF UsbTypeOK
    <3>2. CASE f # e
      BY <1>5, <3>2 DEF UsbTypeOK
    <3> QED
      BY <3>1, <3>2
  <2> QED
    BY <1>5, <1>6, <2>1, <2>2 DEF RetireTd, UsbTypeOK
<1>8. walkLock = t /\ walkLock' = t
  BY DEF RetireTd, Walks, WalkLocked
<1>9. WalkLocked'
  BY <1>6, <1>8 DEF WalkLocked
<1>10. Cursor'
  <2> SUFFICES ASSUME NEW w \in Walkers, walk'[w].pc = "run"
               PROVE /\ walk'[w].cur = ed'[walk'[w].e].head
                     /\ walk'[w].cur <= walk'[w].tail /\ walk'[w].tail <= ed'[walk'[w].e].tail
    BY DEF Cursor
  <2>1. w = t
    BY <1>6, <1>8 DEF WalkLocked
  <2>2. walk[t].tail \in Nat /\ walk[t].tail <= ed[e].tail
    BY <1>0 DEF RetireTd, Walks, Cursor, UsbTypeOK, WalkRec
  <2> QED
    BY <1>0, <1>1, <1>5, <1>6, <2>1, <2>2
<1>11. RetiredOnce'
  <2> SUFFICES ASSUME NEW td \in Tds
               PROVE times'[td] = IF td[2] < ed'[td[1]].head THEN 1 ELSE 0
    BY DEF RetiredOnce
  <2>1. td[1] \in Eds /\ td[2] \in Nat /\ td = <<td[1], td[2]>>
    BY InTds
  <2>2. times[td] = IF td[2] < ed[td[1]].head THEN 1 ELSE 0
    BY DEF RetiredOnce
  <2>3. CASE td = <<e, c>>
    BY <1>0, <1>1, <1>2, <1>4, <1>5, <2>2, <2>3 DEF UsbTypeOK
  <2>4. CASE td # <<e, c>>
    <3>1. times'[td] = times[td]
      BY <1>4, <2>4 DEF UsbTypeOK
    <3>2. CASE td[1] = e
      <4>1. td[2] # c
        BY <2>1, <2>4, <3>2
      <4> QED
        BY <1>0, <1>1, <1>5, <2>1, <2>2, <3>1, <3>2, <4>1
    <3>3. CASE td[1] # e
      BY <1>5, <2>1, <2>2, <3>1, <3>3
    <3> QED
      BY <3>2, <3>3
  <2> QED
    BY <2>3, <2>4
<1> QED
  BY <1>7, <1>9, <1>10, <1>11

-----------------------------------------------------------------------------

\* The inductive invariant of the walks.
THEOREM UsbInvariance == UsbSpec => []UsbInv
<1>1. UsbInv /\ [UsbNext]_usbVars => UsbInv'
  <2> SUFFICES ASSUME UsbInv, [UsbNext]_usbVars PROVE UsbInv'
    OBVIOUS
  <2>1. CASE UNCHANGED usbVars
    BY <2>1 DEF UsbInv, usbVars, UsbTypeOK, WalkLocked, Cursor, RetiredOnce
  <2>2. CASE \E t \in Ringers : RingDoorbell(t)
    BY <2>2, OutsideStep DEF Walkers
  <2>3. CASE \E t \in Submitters, e \in Eds : Submit(t, e)
    BY <2>3, SubmitStep
  <2>4. CASE (\E td \in Tds : Arrive(td)) \/ TakeQueue \/ Acknowledge
    BY <2>4, DriverStep
  <2>5. CASE TickGate
    BY <2>5, OutsideStep DEF Walkers
  <2>6. CASE \E t \in Walkers : LockWalk(t) \/ WalkStep(t)
    BY <2>6, OutsideStep, ListStep, RetireStep DEF WalkStep
  <2> QED
    BY <2>1, <2>2, <2>3, <2>4, <2>5, <2>6 DEF UsbNext
<1> QED
  BY UsbInitHolds, <1>1, PTL DEF UsbSpec

\* RetiredOnce, for any threads and any number of transfers: what
\* g_ohci_walk_lock is for.
THEOREM EachRetiredOnce == UsbSpec => []RetiredOnce
<1>1. UsbInv => RetiredOnce
  BY DEF UsbInv
<1> QED
  BY UsbInvariance, <1>1, PTL

(***************************************************************************)
(* The composition.                                                        *)
(***************************************************************************)

\* A behaviour of the composition is one of each service: of the one that was
\* chosen, and of the others at rest.
LEMMA ServicesMoveApart == Spec => IrqSpec /\ HeapSpec /\ ApcSpec /\ UsbSpec
<1>1. Init => IrqInit /\ HeapInit /\ ApcInit /\ UsbInit
  BY DEF Init
<1>2. [Next]_vars => [IrqNext]_irqVars /\ [HeapNext]_heapVars /\ [ApcNext]_apcVars /\ [UsbNext]_usbVars
  BY DEF Next, vars
<1> QED
  BY <1>1, <1>2, PTL DEF Spec, IrqSpec, HeapSpec, ApcSpec, UsbSpec

\* Every service keeps its types, whichever of them is chosen: no scan runs past
\* the table of vectors, no block past that of the heap, no completion past its
\* ring, and the walks stay in their lists.
THEOREM ServicesTyped == Spec => []ServicesTypeOK
<1>1. ApcInv => ApcTypeOK
  BY DEF ApcInv
<1>2. UsbInv => UsbTypeOK
  BY DEF UsbInv
<1>3. IrqTypeOK /\ HeapTypeOK /\ ApcTypeOK /\ UsbTypeOK => ServicesTypeOK
  BY DEF ServicesTypeOK
<1> QED
  BY <1>1, <1>2, <1>3, ServicesMoveApart, DeliveryTyped, HeapTyped, ApcInvariance, UsbInvariance, PTL

=============================================================================
