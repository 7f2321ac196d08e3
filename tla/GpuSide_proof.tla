---------------------------- MODULE GpuSide_proof ----------------------------
(***************************************************************************)
(* What passes between the guest and the GPU: what the fence tells the     *)
(* title, for any number of fences, with and without release packets in    *)
(* the stream; that the parse of the push buffer never loses sync, for any *)
(* ring, packets and window; that memory the GPU owes pixels to is armed,  *)
(* for any surfaces, targets, windows and granules; and the types of the   *)
(* registers (NvInterrupts_proof) and of the ring in their composition.    *)
(***************************************************************************)
EXTENDS MCGpuSide, NvInterrupts_proof, FiniteSetTheorems, TLAPS

-----------------------------------------------------------------------------
(* The fence (RingFence).                                                  *)

\* Types of the counter, the fence and the pump.
RfTypeOK ==
  /\ emits \in BOOLEAN /\ releases \in BOOLEAN
  /\ counter \in 1..MaxFences + 1
  /\ fence \in 0..MaxFences + 1
  /\ submitted \in Nat /\ drawn \in Nat
  /\ behind \in [0..MaxFences + 1 -> Nat]
  /\ pump \in [pc : {"sample", "put", "drain"}, counter : 0..MaxFences + 1, put : Nat]

\* What is drawn was submitted, what is submitted was issued, and the pump
\* drains up to a PUT it has read.
Issued ==
  /\ drawn =< submitted /\ submitted < counter
  /\ pump.put =< submitted /\ pump.counter =< counter

\* A value that the counter has taken has no more behind it than is submitted
\* now, and the pump's sample no more than the PUT it read after it.
Behind ==
  /\ \A v \in 0..counter : behind[v] =< submitted
  /\ pump.pc = "drain" => behind[pump.counter] =< pump.put

\* A stream with release packets owns the fence from the first one on; until
\* then the fence is a sample whose packets have all been drawn.
Owner ==
  /\ releases => emits /\ fence = drawn
  /\ ~ releases => fence =< counter /\ behind[fence] =< drawn

RfInv == RfTypeOK /\ Issued /\ Behind /\ Owner

-----------------------------------------------------------------------------

LEMMA RfInitHolds == RfInit => RfInv
<1> SUFFICES ASSUME RfInit PROVE RfInv
  OBVIOUS
<1> USE RingFenceAssumption DEF RingFenceAssumption, RfInit, IdlePump
<1>1. RfTypeOK
  <2>1. 0 \in 0..MaxFences + 1 /\ 1 \in 1..MaxFences + 1
    OBVIOUS
  <2> QED
    BY <2>1 DEF RfTypeOK
<1>2. Issued /\ Behind
  BY DEF Issued, Behind
<1>3. Owner
  BY DEF Owner
<1> QED
  BY <1>1, <1>2, <1>3 DEF RfInv

\* A sampled value keeps its bound when the counter goes on, since the counter
\* writes the next one only.
LEMMA SetFenceStep == RfInv /\ SetFence => RfInv'
<1> SUFFICES ASSUME RfInv, SetFence PROVE RfInv'
  OBVIOUS
<1> USE RingFenceAssumption DEF RingFenceAssumption, RfInv, RfTypeOK, Issued, Behind, Owner, SetFence, NoWait
<1>1. RfTypeOK'
  OBVIOUS
<1>2. Issued'
  OBVIOUS
<1>3. \A v \in 0..counter : behind'[v] = behind[v]
  OBVIOUS
<1>4. behind'[counter'] = submitted
  OBVIOUS
<1>5. Behind'
  BY <1>3, <1>4
<1>6. Owner'
  BY <1>3
<1> QED
  BY <1>1, <1>2, <1>5, <1>6

LEMMA FenceTitleStep == RfInv /\ (KickOff \/ BlockOnTime \/ BlockReturns) => RfInv'
<1> SUFFICES ASSUME RfInv, KickOff \/ BlockOnTime \/ BlockReturns PROVE RfInv'
  OBVIOUS
<1> USE RingFenceAssumption
         DEF RingFenceAssumption, RfInv, RfTypeOK, Issued, Behind, Owner, NoWait
<1>1. CASE KickOff
  <2>1. RfTypeOK'
    BY <1>1 DEF KickOff
  <2>2. Issued'
    BY <1>1 DEF KickOff
  <2>3. Behind'
    BY <1>1 DEF KickOff
  <2>4. Owner'
    BY <1>1 DEF KickOff
  <2> QED
    BY <2>1, <2>2, <2>3, <2>4
<1>2. CASE BlockOnTime \/ BlockReturns
  <2>1. RfTypeOK'
    BY <1>2 DEF BlockOnTime, BlockReturns
  <2>2. Issued' /\ Behind'
    BY <1>2 DEF BlockOnTime, BlockReturns
  <2>3. Owner'
    BY <1>2 DEF BlockOnTime, BlockReturns
  <2> QED
    BY <2>1, <2>2, <2>3
<1> QED
  BY <1>1, <1>2

\* The sample is taken before PUT is read, and published after what PUT covers
\* is drawn.
LEMMA PumpTurn == RfInv /\ RfPump => RfInv'
<1> SUFFICES ASSUME RfInv, RfPump PROVE RfInv'
  OBVIOUS
<1> USE RingFenceAssumption
         DEF RingFenceAssumption, RfInv, RfTypeOK, Issued, Behind, Owner, IdlePump
<1>1. CASE PumpSample
  <2>1. RfTypeOK'
    <3>1. counter \in 0..MaxFences + 1
      OBVIOUS
    <3> QED
      BY <1>1, <3>1 DEF PumpSample
  <2>2. Issued'
    BY <1>1 DEF PumpSample
  <2>3. Behind'
    BY <1>1 DEF PumpSample
  <2>4. Owner'
    BY <1>1 DEF PumpSample
  <2> QED
    BY <2>1, <2>2, <2>3, <2>4
<1>2. CASE PumpPut
  <2>1. RfTypeOK'
    BY <1>2 DEF PumpPut
  <2>2. Issued'
    BY <1>2 DEF PumpPut
  <2>3. Behind'
    BY <1>2 DEF PumpPut
  <2>4. Owner'
    BY <1>2 DEF PumpPut
  <2> QED
    BY <2>1, <2>2, <2>3, <2>4
<1>3. CASE PumpExecutes
  <2>1. /\ drawn < pump.put /\ drawn' = drawn + 1
        /\ UNCHANGED <<emits, counter, submitted, behind, pump, waits>>
    BY <1>3 DEF PumpExecutes
  <2>2. emits => fence' = drawn' /\ releases'
    BY <1>3 DEF PumpExecutes
  <2>3. ~ emits => fence' = fence /\ releases' = releases
    BY <1>3 DEF PumpExecutes
  <2>4. fence' \in 0..MaxFences + 1 /\ releases' \in BOOLEAN
    BY <2>1, <1>3 DEF PumpExecutes
  <2>5. RfTypeOK' /\ Issued'
    BY <2>1, <2>4
  <2>6. Behind'
    BY <2>1
  <2>7. Owner'
    <3>1. CASE emits
      BY <3>1, <2>1, <2>2
    <3>2. CASE ~ emits
      <4>1. behind[fence] \in Nat
        OBVIOUS
      <4> QED
        BY <3>2, <4>1, <2>1, <2>3
    <3> QED
      BY <3>1, <3>2
  <2> QED
    BY <2>5, <2>6, <2>7
<1>4. CASE PumpPublish
  <2>1. RfTypeOK'
    BY <1>4 DEF PumpPublish
  <2>2. Issued'
    BY <1>4 DEF PumpPublish
  <2>3. Behind'
    BY <1>4 DEF PumpPublish
  <2>4. Owner'
    BY <1>4 DEF PumpPublish
  <2> QED
    BY <2>1, <2>2, <2>3, <2>4
<1> QED
  BY <1>1, <1>2, <1>3, <1>4 DEF RfPump

LEMMA RfStutter == RfInv /\ UNCHANGED rfVars => RfInv'
BY DEF RfInv, RfTypeOK, Issued, Behind, Owner, rfVars

\* The invariant that both statements about the fence follow from.
THEOREM RfInvariance == RfSpec => []RfInv
<1>1. RfInit => RfInv
  BY RfInitHolds
<1>2. RfInv /\ [RfNext]_rfVars => RfInv'
  BY SetFenceStep, FenceTitleStep, PumpTurn, RfStutter DEF RfNext
<1> QED
  BY <1>1, <1>2, PTL DEF RfSpec

\* From the first release packet on, d3d8_ring_publish_fence leaves the fence
\* alone: it is what has been executed, and below the counter.
THEOREM FenceIsHonest == RfSpec => []FenceHonest
<1>1. RfInv => FenceHonest
  BY DEF RfInv, RfTypeOK, Issued, Owner, FenceHonest
<1> QED
  BY <1>1, RfInvariance, PTL

\* Without release packets the sample that d3d8_ring_publish_fence stores had
\* nothing behind it that is still to be drawn.
THEOREM FallbackIsDrained == RfSpec => []FallbackDrained
<1>1. RfInv => FallbackDrained
  BY DEF RfInv, RfTypeOK, Issued, Owner, FallbackDrained
<1> QED
  BY <1>1, RfInvariance, PTL

-----------------------------------------------------------------------------
(* The push buffer (PushRing).                                             *)

\* Where the title's packet will end, and where the parser is: past the JUMP it
\* stopped at, it is at the base, though its cursor says so only when it has
\* followed it.
End == title.at + title.left
Jumped == pb.pc \in {"stop", "after"} /\ pb.stop = "JUMP"
Pos == IF Jumped THEN 0 ELSE IF pb.pc \in {"parse", "stop"} THEN pb.at ELSE cursor
Sampled == pb.pc \in {"segment", "parse", "stop", "after"}

\* From lo to e the ring holds the packets i + 1 to k, the last of them written
\* up to hi: the word at lo is the header of the first, and a header leads to
\* the next one or to the end.
Run(w, lo, hi, e, i, k) ==
  /\ lo =< e
  /\ lo = e => i = k
  /\ lo < e => lo < hi /\ w[lo].is = "header" /\ w[lo].id = i + 1
  /\ \A o \in lo..hi - 1 : w[o].is = "header" =>
       LET next == o + 1 + w[o].count
       IN  \/ next = e /\ w[o].id = k
           \/ next < e /\ next < hi /\ w[next].is = "header" /\ w[next].id = w[o].id + 1

\* The title is ahead of the parser in the same lap of the ring ...
Linear ==
  /\ Pos =< put
  /\ get =< Pos \/ title.at < get
  /\ Sampled => Pos =< pb.now /\ pb.now =< put
  /\ Run(word, Pos, title.at, End, Len(executed), title.id)

\* ... or it has begun the next one, and the parser will come to the JUMP at j.
Lapped(j, m) ==
  /\ title.at < get /\ get =< Pos /\ Pos =< j
  /\ word[j].is = "jump"
  /\ Sampled => pb.now =< put \/ (Pos =< pb.now /\ pb.now =< j)
  /\ Run(word, Pos, j, j, Len(executed), m)
  /\ Run(word, 0, title.at, End, m, title.id)

Stream == Linear \/ \E j \in Offsets, m \in 0..MaxPackets : Lapped(j, m)

\* What the title has begun fits before the end of the ring, and before GET.
Fits ==
  /\ End =< RingSize - 1 /\ put =< title.at
  /\ title.at < get => End < get

\* The window of a segment, and how it stopped.
Window ==
  /\ pb.pc = "parse" =>
       /\ cursor =< pb.at /\ pb.at =< pb.end /\ cursor # pb.now
       /\ pb.now > cursor => pb.end =< pb.now
  /\ pb.pc \in {"stop", "after"} => pb.stop # "INVALID"
  /\ pb.pc = "stop" /\ pb.stop = "JUMP" => title.at < get /\ get =< pb.at /\ 1 < pb.at
  /\ pb.pc = "after" /\ pb.stop = "JUMP" => 1 < cursor

PbInv == PbTypeOK /\ InSync /\ Fits /\ Window /\ Stream

-----------------------------------------------------------------------------
(* Runs of packets.                                                        *)

LEMMA RunFrame ==
  ASSUME NEW w \in [Offsets -> WordRec], NEW v \in [Offsets -> WordRec],
         NEW lo \in Nat, NEW hi \in 0..RingSize, NEW e \in Nat, NEW i \in Nat, NEW k \in Nat,
         Run(w, lo, hi, e, i, k), \A o \in lo..hi - 1 : v[o] = w[o]
  PROVE  Run(v, lo, hi, e, i, k)
<1>1. \A o \in lo..hi - 1 : w[o].count \in Nat
  BY PushRingAssumption DEF Offsets, WordRec, PushRingAssumption
<1>2. lo < e => v[lo].is = "header" /\ v[lo].id = i + 1
  BY PushRingAssumption DEF Run, PushRingAssumption
<1>3. ASSUME NEW o \in lo..hi - 1, v[o].is = "header"
      PROVE  LET next == o + 1 + v[o].count
             IN  \/ next = e /\ v[o].id = k
                 \/ next < e /\ next < hi /\ v[next].is = "header" /\ v[next].id = v[o].id + 1
  <2> DEFINE next == o + 1 + w[o].count
  <2>1. v[o] = w[o] /\ w[o].count \in Nat /\ o \in Nat /\ lo =< o
    BY <1>1
  <2>2. \/ next = e /\ w[o].id = k
        \/ next < e /\ next < hi /\ w[next].is = "header" /\ w[next].id = w[o].id + 1
    BY <1>3, <2>1 DEF Run
  <2>3. next < hi => v[next] = w[next]
    BY <2>1, PushRingAssumption DEF PushRingAssumption
  <2> QED
    BY <2>1, <2>2, <2>3
<1> QED
  BY <1>2, <1>3 DEF Run

\* The header of the next packet is what the last one led to.
LEMMA RunBegins ==
  ASSUME NEW w \in [Offsets -> WordRec], NEW v \in [Offsets -> WordRec],
         NEW lo \in Nat, NEW at \in Offsets, NEW i \in Nat, NEW k \in Nat, NEW n \in 0..MaxPayload,
         Run(w, lo, at, at, i, k), \A o \in lo..at - 1 : v[o] = w[o], v[at] = Header(k + 1, n)
  PROVE  Run(v, lo, at + 1, at + 1 + n, i, k + 1)
<1>0. RingSize \in Nat /\ at \in Nat /\ at < RingSize /\ n \in Nat
  BY PushRingAssumption DEF PushRingAssumption, Offsets
<1>1. v[at].is = "header" /\ v[at].id = k + 1 /\ v[at].count = n
  BY DEF Header
<1>2. Run(v, lo, at, at, i, k) /\ lo =< at
  <2>1. at \in 0..RingSize /\ at \in Nat
    BY <1>0
  <2>2. Run(v, lo, at, at, i, k)
    BY <2>1, RunFrame
  <2> QED
    BY <2>2 DEF Run
<1>3. lo < at + 1 + n /\ lo < at + 1 /\ v[lo].is = "header" /\ v[lo].id = i + 1
  BY <1>0, <1>1, <1>2 DEF Run
<1>4. ASSUME NEW o \in lo..at, v[o].is = "header"
      PROVE  LET next == o + 1 + v[o].count
             IN  \/ next = at + 1 + n /\ v[o].id = k + 1
                 \/ /\ next < at + 1 + n /\ next < at + 1 /\ v[next].is = "header"
                    /\ v[next].id = v[o].id + 1
  <2>1. CASE o = at
    BY <1>0, <1>1, <2>1
  <2>2. CASE o # at
    <3> DEFINE next == o + 1 + v[o].count
    <3>0. o \in lo..at - 1
      BY <1>0, <2>2
    <3>1. \/ next = at /\ v[o].id = k
          \/ next < at /\ v[next].is = "header" /\ v[next].id = v[o].id + 1
      BY <1>2, <1>4, <3>0 DEF Run
    <3>2. next \in Nat
      <4>1. o \in Offsets /\ o \in Nat
        BY <1>0, <3>0 DEF Offsets
      <4>2. v[o].count \in Nat
        BY <4>1, PushRingAssumption DEF PushRingAssumption, WordRec
      <4> QED
        BY <4>1, <4>2
    <3> HIDE DEF next
    <3>3. \/ next = at + 1 + n /\ v[o].id = k + 1
          \/ /\ next < at + 1 + n /\ next < at + 1 /\ v[next].is = "header"
             /\ v[next].id = v[o].id + 1
      BY <1>0, <1>1, <3>1, <3>2
    <3> QED
      BY <3>3 DEF next
  <2> QED
    BY <2>1, <2>2
<1>5. (at + 1) - 1 = at
  BY <1>0
<1> QED
  BY <1>0, <1>3, <1>4, <1>5 DEF Run

LEMMA RunGoesOn ==
  ASSUME NEW w \in [Offsets -> WordRec], NEW v \in [Offsets -> WordRec],
         NEW lo \in Nat, NEW at \in Offsets, NEW e \in Nat, NEW i \in Nat, NEW k \in Nat, at < e,
         Run(w, lo, at, e, i, k), \A o \in lo..at - 1 : v[o] = w[o], v[at].is = "data"
  PROVE  Run(v, lo, at + 1, e, i, k)
<1>0. RingSize \in Nat /\ at \in Nat /\ at < RingSize
  BY PushRingAssumption DEF PushRingAssumption, Offsets
<1>1. Run(v, lo, at, e, i, k)
  BY <1>0, RunFrame
<1>2. lo < e => lo < at + 1
  BY <1>0, <1>1 DEF Run
<1>3. ASSUME NEW o \in lo..at, v[o].is = "header"
      PROVE  LET next == o + 1 + v[o].count
             IN  \/ next = e /\ v[o].id = k
                 \/ next < e /\ next < at + 1 /\ v[next].is = "header" /\ v[next].id = v[o].id + 1
  <2> DEFINE next == o + 1 + v[o].count
  <2>1. o \in lo..at - 1
    BY <1>0, <1>3
  <2>2. \/ next = e /\ v[o].id = k
        \/ next < e /\ next < at /\ v[next].is = "header" /\ v[next].id = v[o].id + 1
    BY <1>1, <1>3, <2>1 DEF Run
  <2>3. next \in Nat
    <3>1. o \in Offsets /\ o \in Nat
      BY <1>0, <2>1 DEF Offsets
    <3>2. v[o].count \in Nat
      BY <3>1, PushRingAssumption DEF PushRingAssumption, WordRec
    <3> QED
      BY <3>1, <3>2
  <2> HIDE DEF next
  <2>4. \/ next = e /\ v[o].id = k
        \/ next < e /\ next < at + 1 /\ v[next].is = "header" /\ v[next].id = v[o].id + 1
    BY <1>0, <2>2, <2>3
  <2> QED
    BY <2>4 DEF next
<1>4. (at + 1) - 1 = at
  BY <1>0
<1> QED
  BY <1>1, <1>2, <1>3, <1>4 DEF Run

\* What follows the first packet.
LEMMA RunAdvances ==
  ASSUME NEW w \in [Offsets -> WordRec], NEW lo \in Nat, NEW hi \in 0..RingSize, NEW e \in Nat,
         NEW i \in Nat, NEW k \in Nat, lo < hi, hi =< e, Run(w, lo, hi, e, i, k)
  PROVE  /\ w[lo].is = "header" /\ w[lo].id = i + 1
         /\ lo + 1 + w[lo].count \in Nat
         /\ Run(w, lo + 1 + w[lo].count, hi, e, i + 1, k)
<1>0. RingSize \in Nat /\ hi \in Nat /\ lo \in Offsets /\ lo \in lo..hi - 1
  BY PushRingAssumption DEF PushRingAssumption, Offsets
<1>1. w[lo].is = "header" /\ w[lo].id = i + 1 /\ w[lo].count \in Nat
  BY <1>0, PushRingAssumption DEF PushRingAssumption, Run, WordRec
<1> DEFINE next == lo + 1 + w[lo].count
<1>2. next \in Nat /\ lo < next
  BY <1>0, <1>1
<1>3. \/ next = e /\ i + 1 = k
      \/ next < e /\ next < hi /\ w[next].is = "header" /\ w[next].id = i + 2
  BY <1>0, <1>1 DEF Run
<1>4. \A o \in next..hi - 1 : o \in lo..hi - 1
  BY <1>0, <1>2
<1> HIDE DEF next
<1>5. Run(w, next, hi, e, i + 1, k)
  BY <1>2, <1>3, <1>4 DEF Run
<1> QED
  BY <1>1, <1>2, <1>5 DEF next

-----------------------------------------------------------------------------
(* The title.                                                              *)

\* The types, one by one.
LEMMA PbTyped ==
  ASSUME PbTypeOK
  PROVE  /\ RingSize \in Nat /\ RingSize > 2 /\ MaxPayload \in Nat /\ MaxPackets \in Nat
         /\ word \in [Offsets -> WordRec]
         /\ put \in 0..RingSize /\ get \in 0..RingSize /\ cursor \in 0..RingSize
         /\ title = [at |-> title.at, id |-> title.id, left |-> title.left]
         /\ title.at \in Offsets /\ title.id \in 0..MaxPackets /\ title.left \in 0..MaxPayload
         /\ pb \in PbRec
         /\ pb.now \in 0..RingSize /\ pb.at \in 0..RingSize /\ pb.end \in 0..RingSize
         /\ pb.seg \in 0..PbSegments
         /\ executed \in Seq(1..MaxPackets) /\ Len(executed) \in Nat
         /\ fault \in BOOLEAN
         /\ End \in Nat /\ Pos \in 0..RingSize
<1>1. RingSize \in Nat /\ RingSize > 2 /\ MaxPayload \in Nat /\ MaxPackets \in Nat
  BY PushRingAssumption DEF PushRingAssumption
<1>2. /\ title = [at |-> title.at, id |-> title.id, left |-> title.left]
      /\ title.at \in Offsets /\ title.id \in 0..MaxPackets /\ title.left \in 0..MaxPayload
  BY DEF PbTypeOK, Offsets
<1>3. /\ pb.now \in 0..RingSize /\ pb.at \in 0..RingSize /\ pb.end \in 0..RingSize
      /\ pb.seg \in 0..PbSegments /\ pb.pc \in {"idle", "segment", "parse", "stop", "after", "done"}
  BY DEF PbTypeOK, PbRec
<1>4. Len(executed) \in Nat
  BY DEF PbTypeOK
<1>5. End \in Nat
  BY <1>1, <1>2 DEF End, Offsets
<1>6. Pos \in 0..RingSize
  BY <1>1, <1>3 DEF Pos, PbTypeOK
<1> QED
  BY <1>1, <1>2, <1>3, <1>4, <1>5, <1>6 DEF PbTypeOK

\* What the poll goes by is unchanged when the title writes.
LEMMA TitleHeaderHolds ==
  ASSUME PbInv, TitleHeader
  PROVE  PbInv'
<1> DEFINE at == title.at
           id == title.id
<1>a. /\ RingSize \in Nat /\ MaxPayload \in Nat /\ MaxPackets \in Nat
      /\ word \in [Offsets -> WordRec] /\ put \in 0..RingSize /\ get \in 0..RingSize
      /\ at \in Offsets /\ at \in Nat /\ at < RingSize /\ id \in 0..MaxPackets /\ id < MaxPackets
      /\ title.left = 0 /\ End = at /\ Len(executed) \in Nat /\ Pos \in 0..RingSize
  <2>1. PbTypeOK /\ title.left = 0 /\ id < MaxPackets
    BY DEF PbInv, TitleHeader
  <2>2. /\ RingSize \in Nat /\ at \in Offsets
    BY <2>1, PbTyped
  <2>3. at \in Nat /\ at < RingSize /\ End = at
    BY <2>1, <2>2 DEF Offsets, End
  <2> QED
    BY <2>1, <2>3, PbTyped
<1>b. PICK n \in 0..MaxPayload :
        /\ n + 1 =< Room(at)
        /\ word' = [word EXCEPT ![at] = Header(id + 1, n)]
        /\ title' = [at |-> at + 1, id |-> id + 1, left |-> n]
  BY DEF TitleHeader
<1>c. /\ UNCHANGED <<put, get, cursor, pb, executed, fault>>
      /\ Pos' = Pos /\ (Sampled' <=> Sampled) /\ (Jumped' <=> Jumped)
  BY DEF TitleHeader, Pos, Sampled, Jumped
<1>d. title'.at = at + 1 /\ title'.id = id + 1 /\ title'.left = n /\ End' = at + 1 + n
  BY <1>b DEF End
<1>e. Header(id + 1, n) \in WordRec
  BY <1>a DEF Header, WordRec
<1>f. /\ word' \in [Offsets -> WordRec] /\ word'[at] = Header(id + 1, n)
      /\ \A o \in Offsets \ {at} : word'[o] = word[o]
  BY <1>a, <1>b, <1>e
<1>g. Pos \in Nat /\ id \in Nat /\ 0 \in Nat /\ word'[at] = Header(id + 1, n)
  BY <1>a, <1>f
<1>1. /\ at + 1 + n =< RingSize - 1
      /\ at < get => at + 1 + n < get
  BY <1>a, <1>b DEF Room
<1>2. PbTypeOK'
  <2>1. title' \in [at : 0..RingSize - 1, id : 0..MaxPackets, left : 0..MaxPayload]
    <3>1. at + 1 \in 0..RingSize - 1 /\ id + 1 \in 0..MaxPackets
      BY <1>a, <1>1
    <3> QED
      BY <1>b, <3>1
  <2> QED
    BY <1>c, <1>f, <2>1 DEF PbInv, PbTypeOK
<1>3. InSync' /\ Window'
  <2>1. at + 1 + n \in Nat /\ n \in Nat
    BY <1>a
  <2> QED
    BY <1>a, <1>c, <1>d, <1>1, <2>1 DEF PbInv, InSync, Window
<1>4. Fits'
  BY <1>a, <1>c, <1>d, <1>1 DEF PbInv, Fits
<1>5. CASE Linear
  <2>1. Run(word, Pos, at, at, Len(executed), id)
    BY <1>5, <1>a DEF Linear
  <2>2. Pos =< at
    BY <2>1 DEF Run
  <2>3. \A o \in Pos..at - 1 : word'[o] = word[o]
    BY <1>a, <1>f DEF Offsets
  <2>4. Run(word', Pos, at + 1, at + 1 + n, Len(executed), id + 1)
    BY <1>a, <1>f, <1>g, <2>1, <2>3, RunBegins
  <2>5. Linear'
    BY <1>5, <1>a, <1>c, <1>d, <1>1, <2>4 DEF Linear
  <2> QED
    BY <1>2, <1>3, <1>4, <2>5 DEF PbInv, Stream
<1>6. CASE \E j \in Offsets, m \in 0..MaxPackets : Lapped(j, m)
  <2>1. PICK j \in Offsets, m \in 0..MaxPackets : Lapped(j, m)
    BY <1>6
  <2>2. j \in Nat /\ j < RingSize /\ m \in Nat /\ at < get /\ get =< Pos /\ Pos =< j
    BY <1>a, <2>1 DEF Lapped, Offsets
  <2>3. \A o \in Pos..j : word'[o] = word[o]
    BY <1>a, <1>f, <2>2 DEF Offsets
  <2>4. Run(word', Pos, j, j, Len(executed), m)
    <3>1. j \in 0..RingSize /\ \A o \in Pos..j - 1 : word'[o] = word[o]
      BY <1>a, <2>2, <2>3
    <3>2. Run(word, Pos, j, j, Len(executed), m)
      BY <2>1 DEF Lapped
    <3> QED
      BY <1>a, <1>f, <1>g, <2>2, <3>1, <3>2, RunFrame
  <2>5. Run(word', 0, at + 1, at + 1 + n, m, id + 1)
    <3>1. Run(word, 0, at, at, m, id)
      BY <2>1, <1>a DEF Lapped
    <3>2. \A o \in 0..at - 1 : word'[o] = word[o]
      BY <1>a, <1>f DEF Offsets
    <3> QED
      BY <1>a, <1>f, <1>g, <2>2, <3>1, <3>2, RunBegins
  <2>6. word'[j].is = "jump"
    BY <1>a, <2>1, <2>2, <2>3 DEF Lapped
  <2>7. title'.at < get'
    BY <1>a, <1>c, <1>d, <1>1, <2>2
  <2>8. Lapped(j, m)'
    BY <1>c, <1>d, <2>1, <2>4, <2>5, <2>6, <2>7 DEF Lapped
  <2> QED
    BY <1>2, <1>3, <1>4, <2>8 DEF PbInv, Stream
<1> QED
  BY <1>5, <1>6 DEF PbInv, Stream

LEMMA TitleDataHolds ==
  ASSUME PbInv, TitleData
  PROVE  PbInv'
<1> DEFINE at == title.at
           id == title.id
<1>a. /\ RingSize \in Nat /\ MaxPayload \in Nat /\ MaxPackets \in Nat
      /\ word \in [Offsets -> WordRec] /\ put \in 0..RingSize /\ get \in 0..RingSize
      /\ at \in Offsets /\ at \in Nat /\ at < RingSize /\ id \in 0..MaxPackets
      /\ title.left \in 0..MaxPayload /\ title.left > 0 /\ End = at + title.left
      /\ Len(executed) \in Nat /\ Pos \in 0..RingSize /\ End =< RingSize - 1
  <2>1. PbTypeOK /\ title.left > 0 /\ End =< RingSize - 1
    BY DEF PbInv, TitleData, Fits
  <2>2. RingSize \in Nat /\ at \in Offsets
    BY <2>1, PbTyped
  <2>3. at \in Nat /\ at < RingSize /\ End = at + title.left
    BY <2>1, <2>2 DEF Offsets, End
  <2> QED
    BY <2>1, <2>3, PbTyped
<1>c. /\ UNCHANGED <<put, get, cursor, pb, executed, fault>>
      /\ Pos' = Pos /\ (Sampled' <=> Sampled) /\ (Jumped' <=> Jumped)
  BY DEF TitleData, Pos, Sampled, Jumped
<1>d. /\ title' = [at |-> at + 1, id |-> id, left |-> title.left - 1]
      /\ title'.at = at + 1 /\ title'.id = id /\ title'.left = title.left - 1
  BY PbTyped DEF TitleData, PbInv
<1>e. End' = End /\ at < End
  BY <1>a, <1>d DEF End
<1>f. /\ word' \in [Offsets -> WordRec] /\ word'[at].is = "data"
      /\ \A o \in Offsets \ {at} : word'[o] = word[o]
  <2>1. Data(id) \in WordRec /\ Data(id).is = "data"
    BY <1>a DEF Data, WordRec
  <2> QED
    BY <1>a, <2>1 DEF TitleData
<1>g. Pos \in Nat /\ id \in Nat /\ End \in Nat /\ 0 \in Nat
  BY <1>a
<1>2. PbTypeOK'
  <2>1. title' \in [at : 0..RingSize - 1, id : 0..MaxPackets, left : 0..MaxPayload]
    <3>1. at + 1 \in 0..RingSize - 1
      BY <1>a
    <3>2. title.left - 1 \in 0..MaxPayload
      BY <1>a
    <3> QED
      BY <1>a, <1>d, <3>1, <3>2
  <2> QED
    BY <1>c, <1>f, <2>1 DEF PbInv, PbTypeOK
<1>3. InSync' /\ Window' /\ Fits'
  <2>1. title'.at < get' => title.at < get /\ End < get
    BY <1>a, <1>c, <1>d DEF PbInv, Fits
  <2>2. title.at < get => title'.at < get'
    BY <1>a, <1>c, <1>d, <1>e DEF PbInv, Fits
  <2>3. Window'
    BY <1>c, <2>2 DEF PbInv, Window
  <2>4. Fits'
    BY <1>a, <1>c, <1>d, <1>e, <2>1 DEF PbInv, Fits
  <2> QED
    BY <1>c, <2>3, <2>4 DEF PbInv, InSync
<1>5. CASE Linear
  <2>1. Run(word, Pos, at, End, Len(executed), id)
    BY <1>5 DEF Linear
  <2>2. \A o \in Pos..at - 1 : word'[o] = word[o]
    BY <1>a, <1>f DEF Offsets
  <2>3. Run(word', Pos, at + 1, End, Len(executed), id)
    BY <1>a, <1>e, <1>f, <1>g, <2>1, <2>2, RunGoesOn
  <2>4. get =< Pos \/ title'.at < get
    BY <1>5, <1>a, <1>d, <1>e DEF Linear, PbInv, Fits
  <2>5. Linear'
    BY <1>5, <1>c, <1>d, <1>e, <2>3, <2>4 DEF Linear
  <2> QED
    BY <1>2, <1>3, <2>5 DEF PbInv, Stream
<1>6. CASE \E j \in Offsets, m \in 0..MaxPackets : Lapped(j, m)
  <2>1. PICK j \in Offsets, m \in 0..MaxPackets : Lapped(j, m)
    BY <1>6
  <2>2. j \in Nat /\ j < RingSize /\ m \in Nat /\ at < get /\ get =< Pos /\ Pos =< j
    BY <1>a, <2>1 DEF Lapped, Offsets
  <2>3. \A o \in Pos..j : word'[o] = word[o]
    BY <1>a, <1>f, <2>2 DEF Offsets
  <2>4. Run(word', Pos, j, j, Len(executed), m)
    <3>1. j \in 0..RingSize /\ \A o \in Pos..j - 1 : word'[o] = word[o]
      BY <1>a, <2>2, <2>3
    <3>2. Run(word, Pos, j, j, Len(executed), m)
      BY <2>1 DEF Lapped
    <3> QED
      BY <1>a, <1>f, <1>g, <2>2, <3>1, <3>2, RunFrame
  <2>5. Run(word', 0, at + 1, End, m, id)
    <3>1. Run(word, 0, at, End, m, id)
      BY <2>1 DEF Lapped
    <3>2. \A o \in 0..at - 1 : word'[o] = word[o]
      BY <1>a, <1>f DEF Offsets
    <3> QED
      BY <1>a, <1>e, <1>f, <1>g, <2>2, <3>1, <3>2, RunGoesOn
  <2>6. word'[j].is = "jump"
    BY <1>a, <2>1, <2>2, <2>3 DEF Lapped
  <2>7. title'.at < get'
    BY <1>a, <1>c, <1>d, <1>e, <2>2 DEF PbInv, Fits
  <2>8. Lapped(j, m)'
    BY <1>c, <1>d, <1>e, <2>1, <2>4, <2>5, <2>6, <2>7 DEF Lapped
  <2> QED
    BY <1>2, <1>3, <2>8 DEF PbInv, Stream
<1> QED
  BY <1>5, <1>6 DEF PbInv, Stream

LEMMA TitlePublishHolds ==
  ASSUME PbInv, TitlePublish
  PROVE  PbInv'
<1>1. /\ put' = title.at /\ put =< title.at /\ put \in 0..RingSize /\ RingSize \in Nat
      /\ title.at \in 0..RingSize /\ title.at \in Offsets
      /\ pb.now \in 0..RingSize /\ Pos \in 0..RingSize
  BY PbTyped DEF TitlePublish, PbInv, Fits, Offsets
<1>2. /\ UNCHANGED <<word, get, title, cursor, pb, executed, fault>>
      /\ Pos' = Pos /\ (Sampled' <=> Sampled) /\ End' = End
  BY DEF TitlePublish, Pos, Sampled, Jumped, End
<1>3. PbTypeOK' /\ InSync' /\ Fits' /\ Window'
  BY <1>1, <1>2 DEF PbInv, PbTypeOK, InSync, Fits, Window
<1>4. Linear => Linear'
  BY <1>1, <1>2 DEF Linear
<1>5. \A j \in Offsets, m \in 0..MaxPackets : Lapped(j, m) => Lapped(j, m)'
  <2>1. SUFFICES ASSUME NEW j \in Offsets, NEW m \in 0..MaxPackets, Lapped(j, m)
                 PROVE  Lapped(j, m)'
    OBVIOUS
  <2>2. j \in Nat
    BY <1>1 DEF Offsets
  <2> QED
    BY <1>1, <1>2, <2>1, <2>2 DEF Lapped
<1> QED
  BY <1>3, <1>4, <1>5 DEF PbInv, Stream

\* Where the title wraps, the words before the JUMP are the old lap's.
LEMMA TitleWrapHolds ==
  ASSUME PbInv, TitleWrap
  PROVE  PbInv'
<1> DEFINE at == title.at
           id == title.id
<1>a. /\ RingSize \in Nat /\ RingSize > 2 /\ MaxPayload \in Nat /\ MaxPackets \in Nat
      /\ word \in [Offsets -> WordRec] /\ put \in 0..RingSize /\ get \in 0..RingSize
      /\ at \in Offsets /\ at \in Nat /\ at < RingSize /\ id \in 0..MaxPackets
      /\ title.left = 0 /\ End = at /\ at >= get /\ get > 0
      /\ Len(executed) \in Nat /\ Pos \in 0..RingSize /\ pb.now \in 0..RingSize
  BY PbTyped DEF PbInv, TitleWrap, End, Offsets
<1>c. /\ put' = 0 /\ UNCHANGED <<get, cursor, pb, executed, fault>>
      /\ Pos' = Pos /\ (Sampled' <=> Sampled) /\ (Jumped' <=> Jumped)
  BY DEF TitleWrap, Pos, Sampled, Jumped
<1>d. /\ title' = [at |-> 0, id |-> id, left |-> 0]
      /\ title'.at = 0 /\ title'.id = id /\ title'.left = 0 /\ End' = 0
  <2>1. title' = [at |-> 0, id |-> id, left |-> 0]
    BY <1>a, PbTyped DEF TitleWrap, PbInv
  <2> QED
    BY <2>1 DEF End
<1>f. /\ word' \in [Offsets -> WordRec] /\ word'[at].is = "jump"
      /\ \A o \in Offsets \ {at} : word'[o] = word[o]
  <2>1. Jump \in WordRec /\ Jump.is = "jump"
    BY <1>a DEF Jump, WordRec
  <2> QED
    BY <1>a, <2>1 DEF TitleWrap
<1>g. Pos \in Nat /\ id \in Nat /\ at \in 0..RingSize
  BY <1>a
<1>2. PbTypeOK'
  <2>1. title' \in [at : 0..RingSize - 1, id : 0..MaxPackets, left : 0..MaxPayload]
    BY <1>a, <1>d
  <2> QED
    BY <1>a, <1>c, <1>f, <2>1 DEF PbInv, PbTypeOK
<1>3. InSync' /\ Window' /\ Fits'
  <2>1. Window'
    BY <1>a, <1>c, <1>d DEF PbInv, Window
  <2>2. Fits'
    BY <1>a, <1>c, <1>d DEF Fits
  <2> QED
    BY <1>c, <2>1, <2>2 DEF PbInv, InSync
<1>4. Linear
  BY <1>a DEF PbInv, Stream, Lapped
<1>5. Run(word, Pos, at, at, Len(executed), id) /\ Pos =< at
  BY <1>4, <1>a DEF Linear, Run
<1>6. Run(word', Pos, at, at, Len(executed), id)
  <2>1. \A o \in Pos..at - 1 : word'[o] = word[o]
    BY <1>a, <1>f DEF Offsets
  <2> QED
    BY <1>a, <1>f, <1>g, <1>5, <2>1, RunFrame
<1>7. Run(word', 0, 0, 0, id, id)
  BY DEF Run
<1>8. PICK j \in Offsets, m \in 0..MaxPackets : j = at /\ m = id
  BY <1>a
<1>9. Lapped(j, m)'
  <2>1. get =< Pos
    BY <1>4, <1>a DEF Linear
  <2>2. Sampled => Pos =< pb.now /\ pb.now =< at
    BY <1>4, <1>a DEF Linear, PbInv, Fits
  <2> QED
    BY <1>a, <1>c, <1>d, <1>f, <1>5, <1>6, <1>7, <1>8, <2>1, <2>2 DEF Lapped
<1> QED
  BY <1>2, <1>3, <1>9 DEF PbInv, Stream

-----------------------------------------------------------------------------
(* The poll.                                                               *)

\* A step of the poll that leaves the parser where it is: GET stays, or takes
\* its place, or the parser has gone on to the base and GET to the JUMP.
LEMMA Standing ==
  ASSUME PbInv, UNCHANGED <<word, put, title, executed, fault>>, Pos' = Pos,
         Sampled' => (Sampled /\ pb'.now = pb.now) \/ pb'.now = put, get' \in Nat,
         \/ get' = get \/ get' = Pos
         \/ Pos = 0 /\ title.at < get /\ get =< get'
  PROVE  Fits' /\ Stream' /\ InSync'
<1>a. /\ put \in Nat /\ get \in Nat /\ title.at \in Nat /\ End \in Nat /\ Pos \in Nat
      /\ put =< title.at /\ pb.now \in Nat /\ End' = End
  <2>1. PbTypeOK /\ put =< title.at
    BY DEF PbInv, Fits
  <2>2. RingSize \in Nat /\ title.at \in Offsets /\ title.at \in Nat
    BY <2>1, PbTyped DEF Offsets
  <2>3. End' = End
    BY DEF End
  <2> QED
    BY <2>1, <2>2, <2>3, PbTyped
<1>1. InSync'
  BY DEF PbInv, InSync
<1>2. CASE Linear
  <2>1. title.at < get' => title.at < get /\ get =< get'
    BY <1>2, <1>a DEF Linear
  <2>2. Fits'
    BY <1>a, <2>1 DEF PbInv, Fits
  <2>3. get' =< Pos \/ title.at < get'
    BY <1>2, <1>a DEF Linear
  <2>4. Linear'
    BY <1>2, <1>a, <2>3 DEF Linear
  <2> QED
    BY <1>1, <2>2, <2>4 DEF Stream
<1>3. CASE \E j \in Offsets, m \in 0..MaxPackets : Lapped(j, m)
  <2>1. PICK j \in Offsets, m \in 0..MaxPackets : Lapped(j, m)
    BY <1>3
  <2>2. title.at < get /\ get =< Pos /\ (get' = get \/ get' = Pos)
    BY <1>a, <2>1 DEF Lapped
  <2>3. Fits'
    BY <1>a, <2>2 DEF PbInv, Fits
  <2>4. Lapped(j, m)'
    BY <1>a, <2>1, <2>2 DEF Lapped
  <2> QED
    BY <1>1, <2>3, <2>4 DEF Stream
<1> QED
  BY <1>2, <1>3 DEF PbInv, Stream

LEMMA PollRingHolds == PbInv /\ PollRing => PbInv'
<1> SUFFICES ASSUME PbInv, PollRing PROVE PbInv'
  OBVIOUS
<1>1. /\ pb' = [pc |-> "segment", now |-> put, at |-> 0, end |-> 0, stop |-> "END", seg |-> 0,
                frame |-> FALSE]
      /\ pb.pc = "idle"
      /\ UNCHANGED <<word, put, get, title, cursor, executed, fault>>
  BY DEF PollRing, IdlePb
<1>2. Pos' = Pos /\ pb'.now = put
  BY <1>1 DEF Pos, Jumped
<1>3. Fits' /\ Stream' /\ InSync'
  BY <1>1, <1>2, PbTyped, Standing DEF PbInv
<1>4. PbTypeOK'
  BY <1>1, PbTyped, PushRingAssumption DEF PbInv, PbTypeOK, PbRec, PushRingAssumption
<1>5. Window'
  BY <1>1 DEF Window
<1> QED
  BY <1>3, <1>4, <1>5 DEF PbInv

LEMMA SegmentHolds == PbInv /\ Segment => PbInv'
<1> SUFFICES ASSUME PbInv, Segment PROVE PbInv'
  OBVIOUS
<1>1. /\ pb.pc = "segment" /\ UNCHANGED <<word, put, get, title, cursor, executed, fault>>
      /\ pb \in PbRec /\ cursor \in 0..RingSize /\ pb.now \in 0..RingSize
      /\ RingSize \in Nat /\ PbStep \in Nat /\ PbSegments \in Nat /\ pb.seg \in 0..PbSegments
  BY PbTyped, PushRingAssumption DEF PbInv, PbTypeOK, Segment, PushRingAssumption
<1>2. CASE cursor # pb.now /\ pb.seg < PbSegments /\ WindowEnd(pb.now) > cursor
  <2> DEFINE e == WindowEnd(pb.now)
  <2>1. /\ e \in 0..RingSize /\ e > cursor
        /\ pb.now > cursor => e =< pb.now
    BY <1>1, <1>2 DEF WindowEnd, Least
  <2>2. pb' = [pb EXCEPT !.pc = "parse", !.at = cursor, !.end = e, !.seg = pb.seg + 1]
    BY <1>2 DEF Segment
  <2> HIDE DEF e
  <2>3. pb.seg + 1 \in 0..PbSegments
    BY <1>1, <1>2
  <2>4. pb' \in PbRec
    BY <1>1, <2>1, <2>2, <2>3 DEF PbRec
  <2>5. /\ pb'.pc = "parse" /\ pb'.at = cursor /\ pb'.end = e /\ pb'.now = pb.now
    BY <1>1, <2>2 DEF PbRec
  <2>6. Pos' = Pos
    BY <1>1, <2>5 DEF Pos, Jumped
  <2>7. Fits' /\ Stream' /\ InSync'
    BY <1>1, <2>5, <2>6, PbTyped, Standing DEF Sampled, PbInv
  <2>8. PbTypeOK'
    BY <1>1, <2>4 DEF PbInv, PbTypeOK
  <2>9. Window'
    BY <1>1, <1>2, <2>1, <2>5 DEF Window
  <2> QED
    BY <2>7, <2>8, <2>9 DEF PbInv
<1>3. CASE ~ (cursor # pb.now /\ pb.seg < PbSegments /\ WindowEnd(pb.now) > cursor)
  <2>1. pb' = [pb EXCEPT !.pc = "done"]
    BY <1>3 DEF Segment
  <2>2. pb' \in PbRec /\ pb'.pc = "done"
    BY <1>1, <2>1 DEF PbRec
  <2>3. Pos' = Pos /\ ~ Sampled'
    BY <1>1, <2>2 DEF Pos, Jumped, Sampled
  <2>4. Fits' /\ Stream' /\ InSync'
    BY <1>1, <2>3, PbTyped, Standing DEF PbInv
  <2>5. PbTypeOK' /\ Window'
    BY <1>1, <2>2 DEF PbInv, PbTypeOK, Window
  <2> QED
    BY <2>4, <2>5 DEF PbInv
<1> QED
  BY <1>2, <1>3

\* What the parser reads is a header of the next packet, or the JUMP: in the
\* window there is no word that is still to be written and none that is data.
LEMMA ParserReads ==
  ASSUME PbInv, pb.pc = "parse", pb.at < pb.end
  PROVE  \/ /\ Linear
            /\ pb.at < title.at /\ pb.end =< pb.now
         \/ \E j \in Offsets, m \in 0..MaxPackets :
              /\ Lapped(j, m)
              /\ \/ pb.at < j /\ (pb.end =< pb.now \/ pb.now =< put)
                 \/ pb.at = j /\ pb.now =< put
<1>1. /\ pb.now \in Nat /\ cursor \in Nat /\ pb.at \in Nat /\ pb.end \in Nat /\ put \in Nat
      /\ get \in Nat /\ title.at \in Nat /\ RingSize \in Nat
      /\ Pos = pb.at /\ Sampled /\ put =< title.at
  BY PbTyped DEF PbInv, Pos, Jumped, Sampled, Fits, Offsets
<1>2. /\ cursor =< pb.at /\ cursor # pb.now /\ (pb.now > cursor => pb.end =< pb.now)
  BY DEF PbInv, Window
<1>3. CASE Linear
  BY <1>1, <1>2, <1>3 DEF Linear
<1>4. CASE \E j \in Offsets, m \in 0..MaxPackets : Lapped(j, m)
  <2>1. PICK j \in Offsets, m \in 0..MaxPackets : Lapped(j, m)
    BY <1>4
  <2>2. j \in Nat /\ pb.at =< j /\ (pb.now =< put \/ (pb.at =< pb.now /\ pb.now =< j))
    BY <1>1, <2>1 DEF Lapped, Offsets
  <2>3. \/ pb.at < j /\ (pb.end =< pb.now \/ pb.now =< put)
        \/ pb.at = j /\ pb.now =< put
    BY <1>1, <1>2, <2>2
  <2> QED
    BY <2>1, <2>3
<1> QED
  BY <1>3, <1>4 DEF PbInv, Stream

LEMMA StopHolds ==
  ASSUME PbInv, pb.pc = "parse", NEW why \in {"END", "PARTIAL"}, Stops(pb.at, why),
         UNCHANGED <<word, put, get, title, cursor, executed, fault>>
  PROVE  PbInv'
<1>1. /\ pb' \in PbRec /\ pb'.pc = "stop" /\ pb'.at = pb.at /\ pb'.stop = why /\ pb'.now = pb.now
  <2>1. pb \in PbRec
    BY DEF PbInv, PbTypeOK
  <2> QED
    BY <2>1 DEF Stops, PbRec
<1>2. Pos' = Pos /\ Sampled
  BY <1>1 DEF Pos, Jumped, Sampled
<1>3. Fits' /\ Stream' /\ InSync'
  BY <1>1, <1>2, PbTyped, Standing DEF PbInv
<1>4. PbTypeOK' /\ Window'
  BY <1>1 DEF PbInv, PbTypeOK, Window
<1> QED
  BY <1>3, <1>4 DEF PbInv

LEMMA HeaderTyped ==
  ASSUME PbInv, pb.pc = "parse", pb.at < pb.end
  PROVE  /\ pb.at \in Offsets /\ word[pb.at].count \in Nat /\ word[pb.at].id \in 0..MaxPackets
         /\ pb.at + 1 + word[pb.at].count \in Nat /\ pb.at < pb.at + 1 + word[pb.at].count
<1>1. /\ RingSize \in Nat /\ MaxPayload \in Nat /\ word \in [Offsets -> WordRec]
      /\ pb.at \in 0..RingSize /\ pb.end \in 0..RingSize
  BY PbTyped DEF PbInv
<1>2. pb.at \in Offsets /\ pb.at \in Nat
  BY <1>1 DEF Offsets
<1>3. word[pb.at] \in WordRec
  BY <1>1, <1>2
<1>4. word[pb.at].count \in Nat /\ word[pb.at].id \in 0..MaxPackets
  BY <1>1, <1>3 DEF WordRec
<1> QED
  BY <1>2, <1>4

\* The next packet is dispatched, and the run is one shorter.
LEMMA DispatchHolds ==
  ASSUME PbInv, pb.pc = "parse", pb.at < pb.end, word[pb.at].is = "header",
         NEW next \in Nat, next = pb.at + 1 + word[pb.at].count, next =< pb.end,
         NEW frame \in BOOLEAN, pb' = [pb EXCEPT !.at = next, !.frame = frame],
         executed' = Append(executed, word[pb.at].id),
         UNCHANGED <<word, put, get, title, cursor, fault>>
  PROVE  PbInv'
<1> DEFINE at == pb.at
           n == Len(executed)
<1>a. /\ RingSize \in Nat /\ MaxPackets \in Nat /\ MaxPayload \in Nat
      /\ word \in [Offsets -> WordRec] /\ pb \in PbRec
      /\ put \in Nat /\ get \in Nat /\ cursor \in 0..RingSize
      /\ pb.now \in Nat /\ at \in Nat /\ pb.end \in 0..RingSize
      /\ title.at \in Offsets /\ title.at \in 0..RingSize /\ title.id \in Nat
      /\ End \in Nat /\ title.at =< End
      /\ n \in Nat /\ executed \in Seq(1..MaxPackets)
      /\ Pos = at /\ Sampled /\ put =< title.at
  <2>1. PbTypeOK /\ put =< title.at
    BY DEF PbInv, Fits
  <2>2. Pos = at /\ Sampled
    BY DEF Pos, Jumped, Sampled
  <2>3. title.at \in Offsets /\ title.left \in Nat /\ RingSize \in Nat
    BY <2>1, PbTyped
  <2>4. title.at \in 0..RingSize /\ title.at =< End
    BY <2>3 DEF Offsets, End
  <2>5. put \in Nat /\ get \in Nat /\ pb.now \in Nat /\ at \in Nat
    <3>1. /\ put \in 0..RingSize /\ get \in 0..RingSize
          /\ pb.now \in 0..RingSize /\ at \in 0..RingSize
      BY <2>1, PbTyped
    <3> HIDE DEF at
    <3> QED
      BY <3>1
  <2>6. pb \in PbRec /\ executed \in Seq(1..MaxPackets)
    BY <2>1 DEF PbTypeOK
  <2>7. title.id \in Nat
    <3>1. title.id \in 0..MaxPackets
      BY <2>1, PbTyped
    <3> QED
      BY <3>1
  <2> QED
    BY <2>1, <2>2, <2>3, <2>4, <2>5, <2>6, <2>7, PbTyped
<1>c. at \in Offsets /\ word[at].id \in 0..MaxPackets /\ at < next
  BY HeaderTyped
<1>d. /\ pb' \in PbRec /\ pb'.pc = "parse" /\ pb'.at = next /\ pb'.end = pb.end
      /\ pb'.now = pb.now /\ pb'.stop = pb.stop
  <2>1. next \in 0..RingSize
    BY <1>a
  <2> QED
    BY <1>a, <2>1 DEF PbRec
<1>e. Pos' = next /\ Sampled' /\ End' = End
  BY <1>d DEF Pos, Jumped, Sampled, End
<1>1. word[at].id = n + 1 /\ Stream'
      /\ n + 1 \in 1..MaxPackets
  <2>1. CASE Linear /\ at < title.at /\ pb.end =< pb.now
    <3>1. Run(word, at, title.at, End, n, title.id)
      BY <1>a, <2>1 DEF Linear
    <3>2. word[at].id = n + 1 /\ Run(word, next, title.at, End, n + 1, title.id)
      <4>1. title.at \in 0..RingSize /\ at < title.at /\ title.at =< End
        BY <1>a, <2>1
      <4>2. /\ word[at].id = n + 1
            /\ Run(word, at + 1 + word[at].count, title.at, End, n + 1, title.id)
        <5>1. /\ word \in [Offsets -> WordRec] /\ at \in Nat /\ title.at \in 0..RingSize
              /\ End \in Nat /\ n \in Nat /\ title.id \in Nat
          BY <1>a
        <5> HIDE DEF n, at
        <5> QED
          BY <3>1, <4>1, <5>1, RunAdvances
      <4> QED
        BY <4>2
    <3>3. Len(executed') = n + 1
      BY <1>a
    <3>4. Linear'
      <4>0. /\ Pos =< pb.now /\ pb.now =< put /\ Pos =< put
            /\ get =< Pos \/ title.at < get
        BY <1>a, <2>1 DEF Linear
      <4>z. /\ put \in Nat /\ get \in Nat /\ pb.now \in Nat /\ at \in Nat /\ pb.end \in Nat
            /\ next =< pb.end /\ pb.end =< pb.now /\ at < next /\ Pos = at
        BY <1>a, <1>c, <2>1
      <4>1. Pos' =< put' /\ (get' =< Pos' \/ title'.at < get')
        BY <1>e, <4>0, <4>z
      <4>2. Pos' =< pb'.now /\ pb'.now =< put'
        BY <1>d, <1>e, <4>0, <4>z
      <4> QED
        BY <1>e, <3>2, <3>3, <4>1, <4>2 DEF Linear
    <3> QED
      BY <1>a, <1>c, <3>2, <3>4 DEF Stream
  <2>2. ASSUME NEW j \in Offsets, NEW m \in 0..MaxPackets, Lapped(j, m),
               pb.at < j /\ (pb.end =< pb.now \/ pb.now =< put)
        PROVE  word[at].id = n + 1 /\ Stream' /\ n + 1 \in 1..MaxPackets
    <3>0. j \in Nat /\ j \in 0..RingSize /\ m \in Nat
      BY <1>a DEF Offsets
    <3>1. Run(word, at, j, j, n, m)
      BY <1>a, <2>2 DEF Lapped
    <3>2. word[at].id = n + 1 /\ Run(word, next, j, j, n + 1, m)
      <4>1. at < j /\ j =< j
        BY <2>2, <3>0
      <4>2. /\ word[at].id = n + 1
            /\ Run(word, at + 1 + word[at].count, j, j, n + 1, m)
        <5>1. word \in [Offsets -> WordRec] /\ at \in Nat /\ n \in Nat
          BY <1>a
        <5> HIDE DEF n, at
        <5> QED
          BY <3>0, <3>1, <4>1, <5>1, RunAdvances
      <4> QED
        BY <4>2
    <3>3. Len(executed') = n + 1
      BY <1>a
    <3>4. next =< j
      BY <3>2 DEF Run
    <3>5. Lapped(j, m)'
      <4>1. get' =< Pos' /\ Pos' =< j
        BY <1>a, <1>c, <1>e, <2>2, <3>4 DEF Lapped
      <4>2. pb'.now =< put' \/ (Pos' =< pb'.now /\ pb'.now =< j)
        <5>1. pb.now =< put \/ (pb.now =< j /\ pb.end =< pb.now)
          BY <1>a, <2>2 DEF Lapped
        <5>2. pb.now \in Nat /\ pb.end \in Nat /\ next =< pb.end
          BY <1>a
        <5> QED
          BY <1>d, <1>e, <5>1, <5>2
      <4> QED
        BY <1>e, <2>2, <3>2, <3>3, <4>1, <4>2 DEF Lapped
    <3> QED
      BY <1>a, <1>c, <3>2, <3>5 DEF Stream
  <2>3. ASSUME NEW j \in Offsets, NEW m \in 0..MaxPackets, Lapped(j, m), pb.at = j
        PROVE  FALSE
    BY <2>3 DEF Lapped
  <2> QED
    BY <2>1, <2>2, <2>3, ParserReads
<1>2. executed' \in Seq(1..MaxPackets) /\ InSync'
  <2>1. executed' = Append(executed, n + 1)
    BY <1>1
  <2>2. \A i \in 1..Len(executed') : executed'[i] = i
    <3>1. \A i \in 1..n : executed[i] = i
      BY DEF PbInv, InSync
    <3>2. n \in Nat /\ executed \in Seq(1..MaxPackets) /\ n + 1 \in 1..MaxPackets
      BY <1>a, <1>1
    <3> QED
      BY <2>1, <3>1, <3>2
  <2>3. ~ fault'
    BY DEF PbInv, InSync
  <2>4. executed' \in Seq(1..MaxPackets)
    BY <1>a, <1>1, <2>1
  <2> QED
    BY <2>2, <2>3, <2>4 DEF InSync
<1>3. PbTypeOK'
  BY <1>d, <1>2 DEF PbInv, PbTypeOK
<1>4. Window'
  <2>1. /\ cursor =< at /\ cursor # pb.now
        /\ pb.now > cursor => pb.end =< pb.now
    BY DEF PbInv, Window
  <2>2. at < next /\ at \in Nat /\ cursor \in Nat
    BY <1>a, <1>c
  <2>3. cursor =< next
    BY <2>1, <2>2
  <2> QED
    BY <1>d, <2>1, <2>3 DEF Window, PbInv
<1>5. Fits'
  BY <1>e DEF PbInv, Fits
<1> QED
  BY <1>1, <1>2, <1>3, <1>4, <1>5 DEF PbInv

\* At the JUMP the parser goes on in the title's lap, from its first word.
LEMMA JumpHolds ==
  ASSUME PbInv, pb.pc = "parse", pb.at < pb.end, word[pb.at].is = "jump",
         Stops(pb.at + 1, "JUMP"), UNCHANGED <<word, put, get, title, cursor, executed, fault>>
  PROVE  PbInv'
<1>a. /\ RingSize \in Nat /\ pb \in PbRec /\ pb.at \in 0..RingSize /\ pb.end \in 0..RingSize
      /\ put \in Nat /\ get \in Nat /\ title.at \in Nat /\ End \in Nat /\ Pos = pb.at /\ Sampled
      /\ pb.now \in Nat /\ title.at =< End /\ title.id \in Nat /\ Len(executed) \in Nat
      /\ title.at \in 0..RingSize
  <2>1. PbTypeOK
    BY DEF PbInv
  <2>2. RingSize \in Nat /\ title.at \in Offsets /\ title.left \in Nat
    BY <2>1, PbTyped
  <2>3. /\ title.at \in 0..RingSize /\ title.at \in Nat /\ title.at =< End
    BY <2>2 DEF Offsets, End
  <2>4. Pos = pb.at /\ Sampled
    BY DEF Pos, Jumped, Sampled
  <2>5. put \in Nat /\ get \in Nat /\ pb.now \in Nat /\ title.id \in Nat
    BY <2>1, PbTyped
  <2> QED
    BY <2>1, <2>3, <2>4, <2>5, PbTyped
<1>b. /\ pb' \in PbRec /\ pb'.pc = "stop" /\ pb'.at = pb.at + 1 /\ pb'.stop = "JUMP"
      /\ pb'.now = pb.now
  <2>1. pb.at + 1 \in 0..RingSize
    BY <1>a
  <2> QED
    BY <1>a, <2>1 DEF Stops, PbRec
<1>c. Pos' = 0 /\ End' = End
  BY <1>b DEF Pos, Jumped, End
<1>1. PICK j \in Offsets, m \in 0..MaxPackets : Lapped(j, m) /\ pb.at = j /\ pb.now =< put
  <2>1. ASSUME Linear, pb.at < title.at PROVE FALSE
    <3>1. Run(word, pb.at, title.at, End, Len(executed), title.id)
      BY <1>a, <2>1 DEF Linear
    <3> QED
      BY <1>a, <2>1, <3>1 DEF Run
  <2>2. ASSUME NEW j \in Offsets, NEW m \in 0..MaxPackets, Lapped(j, m), pb.at < j PROVE FALSE
    <3>1. Run(word, pb.at, j, j, Len(executed), m)
      BY <1>a, <2>2 DEF Lapped
    <3> QED
      BY <1>a, <2>2, <3>1 DEF Run
  <2> QED
    BY <2>1, <2>2, ParserReads
<1>2. Len(executed) = m
  BY <1>a, <1>1 DEF Lapped, Run
<1>3. title.at < get /\ get =< pb.at
  BY <1>a, <1>1 DEF Lapped
<1>4. Linear'
  <2>1. Run(word, 0, title.at, End, Len(executed), title.id)
    BY <1>1, <1>2 DEF Lapped
  <2> QED
    BY <1>a, <1>b, <1>c, <1>1, <1>3, <2>1 DEF Linear
<1>5. Window'
  BY <1>a, <1>b, <1>3 DEF PbInv, Window
<1>6. PbTypeOK' /\ InSync' /\ Fits'
  BY <1>b, <1>c DEF PbInv, PbTypeOK, InSync, Fits
<1> QED
  BY <1>4, <1>5, <1>6 DEF PbInv, Stream

LEMMA ParseHolds == PbInv /\ Parse => PbInv'
<1> SUFFICES ASSUME PbInv, Parse PROVE PbInv'
  OBVIOUS
<1>1. pb.pc = "parse" /\ UNCHANGED <<word, put, get, title, cursor, fault>>
  BY DEF Parse
<1>2. CASE pb.at = pb.end /\ Stops(pb.at, "END") /\ UNCHANGED executed
  BY <1>1, <1>2, StopHolds
<1>3. CASE pb.at < pb.end /\ ParsePacket
  <2> DEFINE w == word[pb.at]
             next == pb.at + 1 + w.count
  <2>1. CASE Stops(pb.at, "PARTIAL") /\ UNCHANGED executed
    BY <1>1, <2>1, StopHolds
  <2>2. CASE /\ next =< pb.end
             /\ executed' = Append(executed, w.id)
             /\ \E flip \in BOOLEAN : pb' = [pb EXCEPT !.at = next, !.frame = pb.frame \/ flip]
    <3>1. w.is = "header"
      BY <1>3 DEF ParsePacket
    <3>2. PICK k \in Nat : k = next
      BY <1>1, <1>3, HeaderTyped
    <3>3. PICK frame \in BOOLEAN : pb' = [pb EXCEPT !.at = k, !.frame = frame]
      <4>1. PICK flip \in BOOLEAN : pb' = [pb EXCEPT !.at = next, !.frame = pb.frame \/ flip]
        BY <2>2
      <4>2. (pb.frame \/ flip) \in BOOLEAN
        OBVIOUS
      <4> QED
        BY <3>2, <4>1, <4>2
    <3>4. k =< pb.end /\ k = pb.at + 1 + word[pb.at].count
      BY <2>2, <3>2
    <3> QED
      BY <1>1, <1>3, <2>2, <3>1, <3>3, <3>4, DispatchHolds
  <2> QED
    BY <1>3, <2>1, <2>2 DEF ParsePacket
<1>4. CASE pb.at < pb.end /\ UNCHANGED executed /\ word[pb.at].is = "jump" /\ Stops(pb.at + 1, "JUMP")
  BY <1>1, <1>4, JumpHolds
<1>5. ASSUME pb.at < pb.end PROVE word[pb.at].is \notin {"nop", "data"}
  <2>a. /\ Pos = pb.at /\ pb.at \in Nat /\ title.at =< End /\ title.at \in Nat /\ End \in Nat
    <3>1. PbTypeOK /\ Pos = pb.at
      BY <1>1 DEF PbInv, Pos, Jumped
    <3>2. RingSize \in Nat /\ pb.at \in Nat /\ title.at \in Offsets /\ title.left \in Nat
      BY <3>1, PbTyped
    <3> QED
      BY <3>1, <3>2 DEF Offsets, End
  <2>1. CASE Linear /\ pb.at < title.at
    BY <2>a, <2>1 DEF Linear, Run
  <2>2. ASSUME NEW j \in Offsets, NEW m \in 0..MaxPackets, Lapped(j, m), pb.at < j \/ pb.at = j
        PROVE  word[pb.at].is \notin {"nop", "data"}
    BY <2>a, <2>2 DEF Lapped, Run
  <2> QED
    BY <1>1, <1>5, <2>1, <2>2, ParserReads
<1> QED
  BY <1>2, <1>3, <1>4, <1>5 DEF Parse

LEMMA PublishGetHolds == PbInv /\ PublishGet => PbInv'
<1> SUFFICES ASSUME PbInv, PublishGet PROVE PbInv'
  OBVIOUS
<1>1. /\ pb.pc = "stop" /\ cursor' = pb.at /\ get' = pb.at
      /\ pb \in PbRec /\ pb' = [pb EXCEPT !.pc = "after"]
      /\ pb.at \in 0..RingSize /\ RingSize \in Nat /\ get \in Nat
      /\ UNCHANGED <<word, put, title, executed, fault>>
  BY PbTyped DEF PublishGet, PbInv
<1>2. pb' \in PbRec /\ pb'.pc = "after" /\ pb'.stop = pb.stop /\ pb'.now = pb.now
  BY <1>1 DEF PbRec
<1>3. Pos' = Pos /\ Sampled
  BY <1>1, <1>2 DEF Pos, Jumped, Sampled
<1>4. \/ get' = Pos
      \/ Pos = 0 /\ title.at < get /\ get =< get'
  BY <1>1 DEF Pos, Jumped, PbInv, Window
<1>5. Fits' /\ Stream' /\ InSync'
  BY <1>1, <1>2, <1>3, <1>4, Standing
<1>6. PbTypeOK' /\ Window'
  BY <1>1, <1>2 DEF PbInv, PbTypeOK, Window
<1> QED
  BY <1>5, <1>6 DEF PbInv

\* The parser is never at the end of the ring but behind a JUMP.
LEMMA AfterSegmentHolds == PbInv /\ AfterSegment => PbInv'
<1> SUFFICES ASSUME PbInv, AfterSegment PROVE PbInv'
  OBVIOUS
<1> DEFINE follows == pb.stop = "JUMP" /\ cursor - 1 # 0
           goesOn == pb.stop = "END" /\ ~ pb.frame
<1>a. /\ pb.pc = "after" /\ pb \in PbRec /\ cursor \in 0..RingSize /\ RingSize \in Nat
      /\ RingSize > 2 /\ get \in Nat /\ title.at \in Nat /\ End \in Nat /\ put \in Nat
      /\ UNCHANGED <<word, put, get, title, executed>> /\ Sampled
      /\ fault' = (pb.stop = "INVALID" \/ (pb.stop = "JUMP" /\ ~ follows))
      /\ cursor' = IF follows \/ (goesOn /\ cursor = RingSize /\ pb.now < cursor) THEN 0 ELSE cursor
      /\ pb' = [pb EXCEPT !.pc = IF follows \/ goesOn THEN "segment" ELSE "done"]
  BY PbTyped DEF AfterSegment, PbInv, Sampled, Offsets
<1>b. pb.stop # "INVALID" /\ (pb.stop = "JUMP" => follows) /\ fault = FALSE
  BY <1>a DEF PbInv, Window, InSync
<1>1. fault' = fault
  BY <1>a, <1>b
<1>2. pb' \in PbRec /\ pb'.pc \in {"segment", "done"} /\ pb'.now = pb.now
  BY <1>a DEF PbRec
<1>3. pb.stop # "JUMP" => cursor # RingSize /\ Pos = cursor
  <2>1. ASSUME pb.stop # "JUMP" PROVE Pos = cursor
    BY <1>a, <2>1 DEF Pos, Jumped
  <2>2. ASSUME pb.stop # "JUMP", Linear PROVE cursor # RingSize
    BY <1>a, <2>1, <2>2 DEF Linear, PbInv, Fits, Run
  <2>3. ASSUME pb.stop # "JUMP", NEW j \in Offsets, NEW m \in 0..MaxPackets, Lapped(j, m)
        PROVE  cursor # RingSize
    BY <1>a, <2>1, <2>3 DEF Lapped, Offsets
  <2> QED
    BY <2>1, <2>2, <2>3 DEF PbInv, Stream
<1>4. Pos' = Pos
  <2>1. CASE pb.stop = "JUMP"
    <3>1. cursor' = 0 /\ Pos = 0
      BY <1>a, <1>b, <2>1 DEF Pos, Jumped
    <3> QED
      BY <1>2, <3>1 DEF Pos, Jumped
  <2>2. CASE pb.stop # "JUMP"
    <3>1. cursor' = cursor
      BY <1>a, <1>3, <2>2
    <3> QED
      BY <1>2, <1>3, <2>2, <3>1 DEF Pos, Jumped
  <2> QED
    BY <2>1, <2>2
<1>5. Fits' /\ Stream' /\ InSync'
  BY <1>a, <1>1, <1>2, <1>4, Standing
<1>6. cursor' \in 0..RingSize
  BY <1>a
<1>7. PbTypeOK' /\ Window'
  BY <1>a, <1>1, <1>2, <1>6 DEF PbInv, PbTypeOK, Window
<1> QED
  BY <1>5, <1>7 DEF PbInv

LEMMA PollReturnHolds == PbInv /\ PollReturn => PbInv'
<1> SUFFICES ASSUME PbInv, PollReturn PROVE PbInv'
  OBVIOUS
<1>1. /\ pb.pc = "done" /\ get' = cursor /\ cursor \in 0..RingSize
      /\ pb' = [pc |-> "idle", now |-> 0, at |-> 0, end |-> 0, stop |-> "END", seg |-> 0,
                frame |-> FALSE]
      /\ UNCHANGED <<word, put, title, cursor, executed, fault>>
  BY PbTyped DEF PollReturn, IdlePb, PbInv
<1>2. Pos' = Pos /\ Pos = cursor /\ ~ Sampled'
  BY <1>1 DEF Pos, Jumped, Sampled
<1>3. Fits' /\ Stream' /\ InSync'
  BY <1>1, <1>2, Standing
<1>4. PbTypeOK'
  BY <1>1, PbTyped, PushRingAssumption DEF PbInv, PbTypeOK, PbRec, PushRingAssumption
<1>5. Window'
  BY <1>1 DEF Window
<1> QED
  BY <1>3, <1>4, <1>5 DEF PbInv

LEMMA PbInitHolds == PbInit => PbInv
<1> SUFFICES ASSUME PbInit PROVE PbInv
  OBVIOUS
<1>1. RingSize \in Nat /\ RingSize > 2 /\ MaxPayload \in Nat /\ MaxPackets \in Nat /\ PbSegments \in Nat
  BY PushRingAssumption DEF PushRingAssumption
<1>2. PbTypeOK
  <2>1. IdlePb \in PbRec /\ Nop \in WordRec /\ <<>> \in Seq(1..MaxPackets)
    BY <1>1 DEF IdlePb, PbRec, Nop, WordRec
  <2>2. [at |-> 0, id |-> 0, left |-> 0] \in
          [at : 0..RingSize - 1, id : 0..MaxPackets, left : 0..MaxPayload]
    BY <1>1
  <2> QED
    <3>1. /\ word \in [Offsets -> WordRec] /\ pb \in PbRec /\ fault \in BOOLEAN
          /\ executed \in Seq(1..MaxPackets)
      BY <2>1 DEF PbInit
    <3>2. /\ put \in 0..RingSize /\ get \in 0..RingSize /\ cursor \in 0..RingSize
          /\ title \in [at : 0..RingSize - 1, id : 0..MaxPackets, left : 0..MaxPayload]
      BY <1>1, <2>2 DEF PbInit
    <3> QED
      BY <3>1, <3>2 DEF PbTypeOK
<1>3. Pos = 0 /\ ~ Sampled /\ End = 0 /\ Len(executed) = 0
  BY DEF PbInit, IdlePb, Pos, Jumped, Sampled, End
<1>4. Linear
  <2>1. Run(word, 0, 0, 0, 0, 0)
    BY DEF Run
  <2> QED
    BY <1>3, <2>1 DEF PbInit, Linear
<1>5. Fits /\ Window /\ InSync
  BY <1>1, <1>3 DEF PbInit, IdlePb, Fits, Window, InSync
<1> QED
  BY <1>2, <1>4, <1>5 DEF PbInv, Stream

LEMMA PbStutter == PbInv /\ UNCHANGED pbVars => PbInv'
<1> SUFFICES ASSUME PbInv, UNCHANGED pbVars PROVE PbInv'
  OBVIOUS
<1>1. /\ UNCHANGED <<word, put, get, title, cursor, pb, executed, fault>>
      /\ Pos' = Pos /\ (Sampled' <=> Sampled) /\ End' = End
  BY DEF pbVars, Pos, Jumped, Sampled, End
<1>2. PbTypeOK' /\ InSync' /\ Fits' /\ Window'
  BY <1>1 DEF PbInv, PbTypeOK, InSync, Fits, Window
<1>3. Linear => Linear'
  BY <1>1 DEF Linear
<1>4. \A j \in Offsets, m \in 0..MaxPackets : Lapped(j, m) => Lapped(j, m)'
  BY <1>1 DEF Lapped
<1> QED
  BY <1>2, <1>3, <1>4 DEF PbInv, Stream

\* The inductive invariant of the ring: every write of the title and every step
\* of jsrf_pb_poll keeps it.
THEOREM PbInvariance == PbSpec => []PbInv
<1>1. PbInit => PbInv
  BY PbInitHolds
<1>2. PbInv /\ [PbNext]_pbVars => PbInv'
  BY TitleHeaderHolds, TitleDataHolds, TitlePublishHolds, TitleWrapHolds, PollRingHolds,
     SegmentHolds, ParseHolds, PublishGetHolds, AfterSegmentHolds, PollReturnHolds, PbStutter
     DEF PbNext, TitleStep, PollStep
<1> QED
  BY <1>1, <1>2, PTL DEF PbSpec

\* The parse of nv2a_pusher_run_segment never loses sync: no header that was
\* published is written over before it is read ("it lapped this parser and
\* overwrote commands mid-read"), no data is read as a header, and the packets
\* are dispatched once each and in order, for any ring, packets and window.
THEOREM ParseInSync == PbSpec => []InSync
<1>1. PbInv => InSync
  BY DEF PbInv
<1> QED
  BY <1>1, PbInvariance, PTL

-----------------------------------------------------------------------------
(* The ownership map (GpuOwn).                                             *)

\* The windows through which a range covers a granule, and all the reasons a
\* granule is armed: a surface whose armed target covers it, and a window.
WindowsOver(t, g) ==
  {w \in 0..Windows : t.size > 0 /\ g \in SlotSpan(w * RamBytes + t.lo, t.size)}
Arms(h, g) == {p \in Surfaces \X (0..Windows) : p[2] \in WindowsOver(h[p[1]], g)}

Ranges == Targets \cup {NoTarget}
GoTypeOK ==
  /\ surface \in [Surfaces -> [target : Ranges, pending : BOOLEAN]]
  /\ \A s \in Surfaces : surface[s].pending => surface[s].target \in Targets
  /\ held \in [Surfaces -> Ranges]
  /\ counts \in [Granules -> 0..MaxCount]
  /\ device \in 0..NSurfaces

\* A count below the top is the number of reasons, so lowering it by those of
\* one range never takes away another's; the top may stand for any number.
Counted == \A g \in Granules : counts[g] < MaxCount => counts[g] = Cardinality(Arms(held, g))

\* What publish_ownership is past is armed as it is pending, and everything is
\* when the lock is free.
Published == \A s \in Surfaces : device = 0 \/ s < device => held[s] = Want(s)

GoInv == GoTypeOK /\ Counted /\ Published

-----------------------------------------------------------------------------

LEMMA DivMonotone ==
  ASSUME NEW a \in Nat, NEW b \in Nat, a =< b, NEW d \in Nat \ {0}
  PROVE  a \div d =< b \div d
OBVIOUS

LEMMA ArmsFinite ==
  ASSUME NEW h \in [Surfaces -> Ranges], NEW g
  PROVE  IsFiniteSet(Arms(h, g)) /\ Cardinality(Arms(h, g)) \in Nat
<1>1. IsFiniteSet(Surfaces) /\ IsFiniteSet(0..Windows)
  BY GpuOwnAssumption, FS_Interval DEF GpuOwnAssumption, Surfaces
<1>2. IsFiniteSet(Surfaces \X (0..Windows))
  BY <1>1, FS_Product
<1> QED
  BY <1>2, FS_Subset, FS_CardinalityType DEF Arms

LEMMA WindowsFinite ==
  ASSUME NEW t, NEW g
  PROVE  /\ IsFiniteSet(WindowsOver(t, g)) /\ Cardinality(WindowsOver(t, g)) \in Nat
         /\ Covers(t, g) = Cardinality(WindowsOver(t, g))
<1>1. IsFiniteSet(0..Windows)
  BY GpuOwnAssumption, FS_Interval DEF GpuOwnAssumption
<1> QED
  BY <1>1, FS_Subset, FS_CardinalityType DEF WindowsOver, Covers

\* The reasons are those of the other surfaces and this one's windows.
LEMMA ArmsOfOne ==
  ASSUME NEW h \in [Surfaces -> Ranges], NEW s \in Surfaces, NEW g
  PROVE  LET Rest == {p \in Arms(h, g) : p[1] # s}
         IN  /\ Cardinality(Rest) \in Nat
             /\ Cardinality(Arms(h, g)) = Cardinality(Rest) + Covers(h[s], g)
<1> DEFINE Rest == {p \in Arms(h, g) : p[1] # s}
           Mine == {s} \X WindowsOver(h[s], g)
<1>1. Arms(h, g) = Rest \cup Mine /\ Rest \cap Mine = {}
  BY DEF Arms, WindowsOver
<1>2. IsFiniteSet(Rest) /\ Cardinality(Rest) \in Nat
  BY ArmsFinite, FS_Subset, FS_CardinalityType
<1>3. IsFiniteSet(Mine) /\ Cardinality(Mine) = Covers(h[s], g) /\ Covers(h[s], g) \in Nat
  <2>1. IsFiniteSet({s}) /\ Cardinality({s}) = 1
    BY FS_Singleton
  <2>2. /\ IsFiniteSet(WindowsOver(h[s], g)) /\ Covers(h[s], g) \in Nat
        /\ Cardinality(WindowsOver(h[s], g)) = Covers(h[s], g)
    BY WindowsFinite
  <2>3. IsFiniteSet(Mine) /\ Cardinality(Mine) = 1 * Cardinality(WindowsOver(h[s], g))
    BY <2>1, <2>2, FS_Product
  <2> QED
    BY <2>2, <2>3
<1>4. Cardinality(Rest \cup Mine) = Cardinality(Rest) + Cardinality(Mine) - Cardinality(Rest \cap Mine)
  BY <1>2, <1>3, FS_Union
<1>5. Cardinality(Rest \cap Mine) = 0
  BY <1>1, FS_EmptySet
<1> HIDE DEF Rest, Mine
<1>6. Cardinality(Arms(h, g)) = Cardinality(Rest) + Covers(h[s], g)
  BY <1>1, <1>2, <1>3, <1>4, <1>5
<1> QED
  BY <1>2, <1>6 DEF Rest

\* map_adjust down by the old range and up by the new one: the saturated sum of
\* what the others keep and what this one adds.
LEMMA Adjusted ==
  ASSUME NEW n \in 0..MaxCount, NEW r \in Nat, NEW k \in Nat, NEW m \in Nat,
         n < MaxCount => n = r + k
  PROVE  /\ Raise(Lower(n, k), m) \in 0..MaxCount
         /\ Raise(Lower(n, k), m) < MaxCount => Raise(Lower(n, k), m) = r + m
BY GpuOwnAssumption DEF GpuOwnAssumption, Raise, Lower

LEMMA PublishHolds == GoInv /\ PublishSurface => GoInv'
<1> SUFFICES ASSUME GoInv, PublishSurface PROVE GoInv'
  OBVIOUS
<1> USE DEF GoInv
<1> DEFINE s == device
           t == Want(s)
<1>1. s \in Surfaces /\ NSurfaces \in Nat
  BY GpuOwnAssumption DEF GpuOwnAssumption, GoTypeOK, PublishSurface, Surfaces
<1>2. t \in Ranges
  BY <1>1 DEF GoTypeOK, Want, Ranges
<1>3. /\ held' = [held EXCEPT ![s] = t] /\ held' \in [Surfaces -> Ranges]
      /\ held'[s] = t /\ \A u \in Surfaces \ {s} : held'[u] = held[u]
  BY <1>1, <1>2 DEF GoTypeOK, PublishSurface
<1>4. /\ device' \in 0..NSurfaces
      /\ device' = 0 => s = NSurfaces
      /\ device' # 0 => device' = s + 1
  <2>1. CASE s = NSurfaces
    <3>1. (NSurfaces + 1) % (NSurfaces + 1) = 0
      BY <1>1
    <3>2. device' = 0
      BY <2>1, <3>1 DEF PublishSurface
    <3> QED
      BY <1>1, <2>1, <3>2
  <2>2. CASE s # NSurfaces
    <3>1. s + 1 \in 0..NSurfaces
      BY <1>1, <2>2 DEF Surfaces
    <3>2. (s + 1) % (NSurfaces + 1) = s + 1
      BY <1>1, <3>1
    <3>3. device' = s + 1
      BY <3>2 DEF PublishSurface
    <3> QED
      BY <1>1, <2>2, <3>1, <3>3 DEF Surfaces
  <2> QED
    BY <2>1, <2>2
<1>5. \A g \in Granules : counts'[g] \in 0..MaxCount
                       /\ (counts'[g] < MaxCount => counts'[g] = Cardinality(Arms(held', g)))
  <2> SUFFICES ASSUME NEW g \in Granules
               PROVE  /\ counts'[g] \in 0..MaxCount
                      /\ counts'[g] < MaxCount => counts'[g] = Cardinality(Arms(held', g))
    OBVIOUS
  <2>0. counts[g] \in 0..MaxCount /\ (counts[g] < MaxCount => counts[g] = Cardinality(Arms(held, g)))
    BY DEF GoTypeOK, Counted
  <2>1. CASE held[s] = t
    <3>1. held' = held /\ counts' = counts
      BY <1>3, <2>1 DEF PublishSurface, GoTypeOK
    <3> QED
      BY <2>0, <3>1
  <2>2. CASE held[s] # t
    <3> DEFINE Rest(h) == {p \in Arms(h, g) : p[1] # s}
    <3>1. Rest(held') = Rest(held)
      BY <1>3 DEF Arms
    <3>2. /\ Cardinality(Rest(held)) \in Nat
          /\ Cardinality(Arms(held, g)) = Cardinality(Rest(held)) + Covers(held[s], g)
      BY <1>1, ArmsOfOne DEF GoTypeOK
    <3>5. Cardinality(Arms(held', g)) = Cardinality(Rest(held')) + Covers(held'[s], g)
      BY <1>1, <1>3, ArmsOfOne
    <3>3. Covers(held[s], g) \in Nat /\ Covers(t, g) \in Nat
      BY WindowsFinite
    <3>4. counts'[g] = Raise(Lower(counts[g], Covers(held[s], g)), Covers(t, g))
      BY <2>2 DEF PublishSurface
    <3> DEFINE r == Cardinality(Rest(held))
               k == Covers(held[s], g)
               m == Covers(t, g)
    <3>6. Cardinality(Arms(held', g)) = r + m
      BY <1>3, <3>1, <3>5
    <3>7. counts'[g] = Raise(Lower(counts[g], k), m)
      BY <3>4
    <3>8. r \in Nat /\ k \in Nat /\ m \in Nat /\ (counts[g] < MaxCount => counts[g] = r + k)
      BY <2>0, <3>2, <3>3
    <3> HIDE DEF r, k, m
    <3>9. /\ counts'[g] \in 0..MaxCount
          /\ counts'[g] < MaxCount => counts'[g] = r + m
      BY <2>0, <3>7, <3>8, Adjusted
    <3> QED
      BY <3>6, <3>9
  <2> QED
    BY <2>1, <2>2
<1>6. counts' \in [Granules -> 0..MaxCount]
  <2>1. counts' = [g \in Granules |-> counts'[g]]
    BY DEF PublishSurface, GoTypeOK
  <2> QED
    BY <1>5, <2>1
<1>7. GoTypeOK'
  BY <1>3, <1>4, <1>6 DEF GoTypeOK, PublishSurface
<1>8. Counted'
  BY <1>5 DEF Counted
<1>9. Published'
  <2>1. \A u \in Surfaces : Want(u)' = Want(u)
    BY DEF Want, PublishSurface
  <2>2. ASSUME NEW u \in Surfaces, device' = 0 \/ u < device' PROVE held'[u] = Want(u)
    <3>1. u = s \/ u < s
      BY <1>1, <1>4, <2>2 DEF Surfaces
    <3> QED
      BY <1>3, <3>1 DEF Published
  <2> QED
    BY <2>1, <2>2 DEF Published
<1> QED
  BY <1>7, <1>8, <1>9

\* A call of the renderer begins to publish at the first surface.
LEMMA CallHolds ==
  ASSUME GoInv, device' = 1, UNCHANGED <<held, counts>>,
         surface' \in [Surfaces -> [target : Ranges, pending : BOOLEAN]],
         \A s \in Surfaces : surface'[s].pending => surface'[s].target \in Targets
  PROVE  GoInv'
<1>1. GoTypeOK'
  BY GpuOwnAssumption DEF GpuOwnAssumption, GoInv, GoTypeOK
<1>2. Counted'
  BY DEF GoInv, Counted
<1>3. Published'
  BY DEF Published, Surfaces
<1> QED
  BY <1>1, <1>2, <1>3 DEF GoInv

LEMMA WriteBackHolds ==
  ASSUME GoInv, NEW S, WriteBack(S), UNCHANGED <<held, counts>>
  PROVE  GoInv'
<1>0. PICK done \in SUBSET S :
        surface' = [s \in Surfaces |->
          IF s \in done THEN [target |-> surface[s].target, pending |-> FALSE] ELSE surface[s]]
  BY DEF WriteBack
<1>1. \A s \in Surfaces : surface'[s] = IF s \in done THEN [target |-> surface[s].target, pending |-> FALSE]
                                        ELSE surface[s]
  BY <1>0
<1>2. surface' \in [Surfaces -> [target : Ranges, pending : BOOLEAN]]
  BY <1>0 DEF GoInv, GoTypeOK
<1>3. ASSUME NEW s \in Surfaces, surface'[s].pending PROVE surface'[s].target \in Targets
  <2>1. s \notin done
    <3>1. s \in done => surface'[s] = [target |-> surface[s].target, pending |-> FALSE]
      BY <1>1
    <3>2. s \in done => surface'[s].pending = FALSE
      BY <3>1
    <3> QED
      BY <1>3, <3>2
  <2>2. surface'[s] = surface[s]
    BY <1>1, <2>1
  <2> QED
    BY <1>3, <2>2 DEF GoInv, GoTypeOK
<1> QED
  BY <1>2, <1>3, CallHolds DEF WriteBack

LEMMA DrawHolds ==
  ASSUME GoInv, NEW t \in Targets, Draw(t)
  PROVE  GoInv'
<1>1. PICK s \in Surfaces : surface' = [surface EXCEPT ![s] = [target |-> t, pending |-> TRUE]]
  BY DEF Draw
<1>2. surface' \in [Surfaces -> [target : Ranges, pending : BOOLEAN]]
  BY <1>1 DEF GoInv, GoTypeOK, Ranges
<1>3. \A u \in Surfaces : surface'[u].pending => surface'[u].target \in Targets
  BY <1>1 DEF GoInv, GoTypeOK
<1> QED
  BY <1>2, <1>3, CallHolds DEF Draw

LEMMA GoStepHolds == GoInv /\ [GoNext]_goVars => GoInv'
<1> SUFFICES ASSUME GoInv, [GoNext]_goVars PROVE GoInv'
  OBVIOUS
<1>1. CASE \E t \in Targets : Draw(t)
  BY <1>1, DrawHolds
<1>2. CASE SyncAll \/ SyncRange
  BY <1>2, WriteBackHolds DEF SyncAll, SyncRange
<1>3. CASE PublishSurface
  BY <1>3, PublishHolds
<1>4. CASE Reconcile
  BY <1>4, WriteBackHolds DEF Reconcile
<1>5. CASE (\E va \in Addresses : Touch(va)) \/ UNCHANGED goVars
  <2>1. UNCHANGED <<surface, held, counts, device>>
    BY <1>5 DEF Touch, goVars
  <2> QED
    BY <2>1 DEF GoInv, GoTypeOK, Counted, Published, Want
<1> QED
  BY <1>1, <1>2, <1>3, <1>4, <1>5 DEF GoNext

LEMMA GoInitHolds == GoInit => GoInv
<1> SUFFICES ASSUME GoInit PROVE GoInv
  OBVIOUS
<1>1. GoTypeOK
  BY GpuOwnAssumption DEF GpuOwnAssumption, GoInit, GoTypeOK, Ranges
<1>2. Counted
  <2>1. \A g \in Granules : Arms(held, g) = {}
    BY DEF GoInit, Arms, WindowsOver, NoTarget
  <2> QED
    BY <2>1, FS_EmptySet DEF GoInit, Counted
<1>3. Published
  BY DEF GoInit, Published, Want
<1> QED
  BY <1>1, <1>2, <1>3 DEF GoInv

\* The granule that an access tests is one that the range of what it reaches
\* was published for: slot_span starts an access width below it.
LEMMA InSpan ==
  ASSUME NEW x \in Nat, NEW t \in Targets, NEW a \in 0..RamBytes - 1, Overlaps(t, a, MaxAccess)
  PROVE  (x + a) \div Granule \in SlotSpan(x + t.lo, t.size)
<1>1. /\ t.lo \in Nat /\ t.size \in Nat \ {0} /\ a \in Nat /\ MaxAccess \in Nat \ {0}
      /\ Granule \in Nat \ {0}
  BY GpuOwnAssumption DEF GpuOwnAssumption
<1>2. t.lo < a + MaxAccess /\ a < t.lo + t.size
  BY DEF Overlaps
<1> DEFINE lo == t.lo
           size == t.size
<1>3. (x + a) \div Granule =< (x + lo + size - 1) \div Granule
  <2>1. x + a \in Nat /\ x + lo + size - 1 \in Nat /\ x + a =< x + lo + size - 1
    BY <1>1, <1>2
  <2> HIDE DEF lo, size
  <2> QED
    BY <1>1, <2>1, DivMonotone
<1>4. x + lo > MaxAccess - 1 => ((x + lo) - (MaxAccess - 1)) \div Granule =< (x + a) \div Granule
  <2> SUFFICES ASSUME x + lo > MaxAccess - 1
               PROVE  ((x + lo) - (MaxAccess - 1)) \div Granule =< (x + a) \div Granule
    OBVIOUS
  <2>1. x + a \in Nat /\ (x + lo) - (MaxAccess - 1) \in Nat /\ (x + lo) - (MaxAccess - 1) =< x + a
    BY <1>1, <1>2
  <2> HIDE DEF lo, size
  <2> QED
    BY <1>1, <2>1, DivMonotone
<1>5. (x + a) \div Granule \in Nat
  <2>1. 0 \div Granule = 0
    BY <1>1
  <2>2. (x + a) \div Granule \in Int
    BY <1>1
  <2> QED
    BY <1>1, <2>1, <2>2, DivMonotone
<1>6. (x + lo + size - 1) \div Granule \in Int /\ ((x + lo) - (MaxAccess - 1)) \div Granule \in Int
  BY <1>1
<1> QED
  <2> DEFINE v == (x + a) \div Granule
             top == (x + lo + size - 1) \div Granule
             low == ((x + lo) - (MaxAccess - 1)) \div Granule
  <2>1. CASE x + lo > MaxAccess - 1
    <3>1. SlotSpan(x + lo, size) = low..top
      BY <2>1 DEF SlotSpan
    <3> HIDE DEF v, top, low
    <3> QED
      BY <1>3, <1>4, <1>5, <1>6, <2>1, <3>1 DEF v, top, low
  <2>2. CASE ~ (x + lo > MaxAccess - 1)
    <3>1. SlotSpan(x + lo, size) = 0..top
      BY <2>2 DEF SlotSpan
    <3> HIDE DEF v, top
    <3> QED
      BY <1>3, <1>5, <1>6, <3>1 DEF v, top
  <2> QED
    BY <2>1, <2>2

\* "Arming every alias of a range is what makes the observer complete": however
\* many surfaces overlap in a granule, and saturated or not, an access of a
\* guest window that reaches into pixels still on the GPU finds its granule
\* armed whenever publish_ownership is not under way.
THEOREM PendingIsArmed == GoSpec => []OwedIsArmed
<1>1. GoInv => OwedIsArmed
  <2> SUFFICES ASSUME GoInv, device = 0, NEW s \in Surfaces, NEW w \in 0..Windows,
                      NEW a \in 0..RamBytes - 1,
                      surface[s].pending, Overlaps(surface[s].target, a, MaxAccess)
               PROVE  counts[(w * RamBytes + a) \div Granule] > 0
    BY DEF OwedIsArmed
  <2> DEFINE t == surface[s].target
             x == w * RamBytes
             g == (x + a) \div Granule
  <2>0. RamBytes \in Nat /\ Windows \in Nat /\ Granule \in Nat \ {0} /\ MaxCount \in Nat \ {0}
    BY GpuOwnAssumption DEF GpuOwnAssumption
  <2>1. t \in Targets /\ t.size > 0 /\ held[s] = t
    BY GpuOwnAssumption DEF GpuOwnAssumption, GoInv, GoTypeOK, Published, Want
  <2>2. x \in Nat /\ x + a \in Nat /\ x + a =< (Windows + 1) * RamBytes - 1
    <3>1. w * RamBytes =< Windows * RamBytes
      BY <2>0
    <3>2. (Windows + 1) * RamBytes = Windows * RamBytes + RamBytes
      BY <2>0
    <3>3. x \in Nat
      BY <2>0
    <3> QED
      BY <2>0, <3>1, <3>2, <3>3
  <2>3. g \in SlotSpan(x + t.lo, t.size)
    BY <2>1, <2>2, InSpan
  <2>4. g \in Granules
    <3>1. g =< ((Windows + 1) * RamBytes - 1) \div Granule
      <4>1. (Windows + 1) * RamBytes - 1 \in Nat
        BY <2>0, <2>2
      <4> HIDE DEF x
      <4> QED
        BY <2>0, <2>2, <4>1, DivMonotone
    <3>2. g \in Nat
      <4>1. 0 \div Granule = 0 /\ g \in Int
        BY <2>0, <2>2
      <4> HIDE DEF x
      <4> QED
        BY <2>0, <2>2, <4>1, DivMonotone
    <3>3. ((Windows + 1) * RamBytes - 1) \div Granule \in Int
      BY <2>0
    <3> QED
      BY <3>1, <3>2, <3>3 DEF Granules
  <2>5. <<s, w>> \in Arms(held, g)
    BY <2>1, <2>3 DEF Arms, WindowsOver
  <2>6. Cardinality(Arms(held, g)) \in Nat /\ Cardinality(Arms(held, g)) # 0
    <3>1. IsFiniteSet(Arms(held, g)) /\ Cardinality(Arms(held, g)) \in Nat
      BY ArmsFinite DEF GoInv, GoTypeOK
    <3> QED
      BY <2>5, <3>1, FS_EmptySet
  <2>7. counts[g] \in 0..MaxCount /\ (counts[g] < MaxCount => counts[g] = Cardinality(Arms(held, g)))
    BY <2>4 DEF GoInv, GoTypeOK, Counted
  <2> HIDE DEF g
  <2>8. counts[g] > 0
    BY <2>0, <2>6, <2>7
  <2> QED
    BY <2>8 DEF g
<1> QED
  BY <1>1, GoInitHolds, GoStepHolds, PTL DEF GoSpec

-----------------------------------------------------------------------------
(* The composition.                                                        *)

\* A behaviour of the composition is one of each of its parts, which move
\* apart from each other.
LEMMA PartsMoveApart == FairSpec => NvSpec /\ PbSpec /\ RfSpec /\ GoSpec
<1>1. Init => NvInit /\ PbInit /\ RfInit /\ GoInit
  BY DEF Init
<1>2. [Next]_vars => [NvNext]_nvVars /\ [PbNext]_pbVars /\ [RfNext]_rfVars /\ [GoNext]_goVars
  BY DEF Next, vars
<1> QED
  BY <1>1, <1>2, PTL DEF FairSpec, NvSpec, PbSpec, RfSpec, GoSpec

\* The registers of the two interrupts stay in their types, and the ring's
\* registers, the title and the two cursors stay in the ring, whoever writes.
THEOREM RegistersAndRingTyped == FairSpec => []GpuSideTypeOK
<1>1. NvInv /\ PbInv => GpuSideTypeOK
  BY DEF NvInv, PbInv, GpuSideTypeOK
<1> QED
  BY <1>1, PartsMoveApart, Invariance, PbInvariance, PTL

=============================================================================
