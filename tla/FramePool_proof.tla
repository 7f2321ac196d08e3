-------------------------- MODULE FramePool_proof --------------------------
(***************************************************************************)
(* Proofs about the frame pool, for any number of slots, any finite set of *)
(* readers and any set of geometries.                                      *)
(***************************************************************************)
EXTENDS FramePool, FiniteSetTheorems, TLAPS

\* The producer owns a slot that nobody else may touch.
Copying == {"size", "fill", "filling", "filled"}

-----------------------------------------------------------------------------
(* Reference counts.                                                       *)

HoldersOf(f, s) == {x \in Refs : f[x] = s}
CountOf(f) == [s \in Slots |-> Cardinality(HoldersOf(f, s))]

\* There are finitely many references, and an owner's two are different.
LEMMA RefsFinite == IsFiniteSet(Refs)
<1>1. IsFiniteSet(Owners) /\ IsFiniteSet(Borrowers)
  BY PoolAssumption, FS_AddElement DEF Owners
<1>2. IsFiniteSet(Owners \union Borrowers)
  BY <1>1, FS_Union
<1>3. IsFiniteSet({"held"}) /\ IsFiniteSet({"next"})
  BY FS_Singleton
<1>4. /\ IsFiniteSet((Owners \union Borrowers) \X {"held"})
      /\ IsFiniteSet(Owners \X {"next"})
  BY <1>1, <1>2, <1>3, FS_Product
<1>. QED
  BY <1>4, FS_Union DEF Refs

LEMMA RefFacts ==
  /\ \A r \in Owners \union Borrowers : Held(r) \in Refs
  /\ \A r \in Owners : Taken(r) \in Refs /\ Taken(r) # Held(r)
  /\ \A r, t \in Owners : r # t => Taken(r) # Taken(t)
  /\ \A r \in Owners : \A t \in Owners \union Borrowers : Taken(r) # Held(t)
BY DEF Refs, Held, Taken

\* Pointing an empty reference at a slot adds one to that slot's count.
LEMMA CountAdd ==
  ASSUME NEW f \in [Refs -> SlotOrNone], NEW x \in Refs, f[x] = None,
         NEW k \in Slots
  PROVE  CountOf([f EXCEPT ![x] = k]) = [CountOf(f) EXCEPT ![k] = @ + 1]
<1> DEFINE g == [f EXCEPT ![x] = k]
<1>1. ASSUME NEW s \in Slots
      PROVE  IsFiniteSet(HoldersOf(f, s))
  BY RefsFinite, FS_Subset DEF HoldersOf
<1>2. None \notin Slots
  BY PoolAssumption DEF Slots, None
<1>3. HoldersOf(g, k) = HoldersOf(f, k) \union {x} /\ x \notin HoldersOf(f, k)
  BY <1>2 DEF HoldersOf
<1>4. Cardinality(HoldersOf(g, k)) = Cardinality(HoldersOf(f, k)) + 1
  BY <1>1, <1>3, FS_AddElement
<1>5. ASSUME NEW s \in Slots, s # k
      PROVE  HoldersOf(g, s) = HoldersOf(f, s)
  BY <1>2, <1>5 DEF HoldersOf
<1>. QED
  BY <1>4, <1>5 DEF CountOf

\* Emptying a reference to a slot takes one from that slot's count.
LEMMA CountDrop ==
  ASSUME NEW f \in [Refs -> SlotOrNone], NEW x \in Refs, f[x] # None
  PROVE  /\ CountOf([f EXCEPT ![x] = None]) = [CountOf(f) EXCEPT ![f[x]] = @ - 1]
         /\ CountOf(f)[f[x]] > 0
<1> DEFINE g == [f EXCEPT ![x] = None]
           k == f[x]
<1>1. ASSUME NEW s \in Slots
      PROVE  IsFiniteSet(HoldersOf(f, s))
  BY RefsFinite, FS_Subset DEF HoldersOf
<1>2. None \notin Slots /\ k \in Slots
  BY PoolAssumption DEF Slots, None, SlotOrNone
<1>3. HoldersOf(g, k) = HoldersOf(f, k) \ {x} /\ x \in HoldersOf(f, k)
  BY <1>2 DEF HoldersOf
<1>4. Cardinality(HoldersOf(g, k)) = Cardinality(HoldersOf(f, k)) - 1
  BY <1>1, <1>2, <1>3, FS_RemoveElement
<1>5. ASSUME NEW s \in Slots, s # k
      PROVE  HoldersOf(g, s) = HoldersOf(f, s)
  BY <1>2, <1>5 DEF HoldersOf
<1>6. Cardinality(HoldersOf(f, k)) # 0 /\ Cardinality(HoldersOf(f, k)) \in Nat
  BY <1>1, <1>2, <1>3, FS_EmptySet, FS_CardinalityType
<1>7. CountOf(g) = [CountOf(f) EXCEPT ![k] = @ - 1]
  BY <1>2, <1>4, <1>5 DEF CountOf
<1>8. CountOf(f)[k] > 0
  BY <1>2, <1>6 DEF CountOf
<1>. QED
  BY <1>7, <1>8

\* What frame_pool_acquire and the two ways of giving back do to the counts.
LEMMA AcquireCounts ==
  ASSUME TypeOK, readers = CountOf(ref), NEW x \in Refs, ref[x] = None, Acquire(x)
  PROVE  /\ ref' \in [Refs -> SlotOrNone]
         /\ readers' = CountOf(ref')
<1>1. CASE published = None
  BY <1>1 DEF Acquire, TypeOK, CountOf, HoldersOf
<1>2. CASE published # None
  <2>1. /\ published \in Slots
        /\ ref' = [ref EXCEPT ![x] = published]
        /\ readers' = [readers EXCEPT ![published] = @ + 1]
    BY <1>2 DEF Acquire, TypeOK, SlotOrNone
  <2>2. CountOf([ref EXCEPT ![x] = published]) = readers'
    BY <2>1, CountAdd DEF TypeOK
  <2>. QED
    BY <2>1, <2>2 DEF TypeOK, SlotOrNone, CountOf, HoldersOf
<1>. QED
  BY <1>1, <1>2

LEMMA ReleasedCounts ==
  ASSUME TypeOK, readers = CountOf(ref), NEW x \in Refs
  PROVE  Released(ref[x]) = CountOf([ref EXCEPT ![x] = None])
<1>1. CASE ref[x] = None
  <2>1. [ref EXCEPT ![x] = None] = ref
    BY <1>1 DEF TypeOK
  <2>. QED
    BY <1>1, <2>1 DEF Released
<1>2. CASE ref[x] # None
  <2>1. /\ CountOf([ref EXCEPT ![x] = None]) = [readers EXCEPT ![ref[x]] = @ - 1]
        /\ readers[ref[x]] > 0
    BY <1>2, CountDrop DEF TypeOK
  <2>. QED
    BY <1>2, <2>1 DEF Released
<1>. QED
  BY <1>1, <1>2

LEMMA SwapCounts ==
  ASSUME TypeOK, readers = CountOf(ref), NEW r \in Owners, SwapRefs(r)
  PROVE  /\ ref' \in [Refs -> SlotOrNone]
         /\ readers' = CountOf(ref')
<1> DEFINE k  == ref[Taken(r)]
           f1 == [ref EXCEPT ![Held(r)] = None]
           f2 == [f1 EXCEPT ![Taken(r)] = None]
           f3 == [f2 EXCEPT ![Held(r)] = k]
<1>1. Held(r) \in Refs /\ Taken(r) \in Refs /\ Taken(r) # Held(r)
  BY RefFacts
<1>2. None \in SlotOrNone /\ k \in SlotOrNone
  BY <1>1 DEF SlotOrNone, TypeOK
<1>3. /\ f1 \in [Refs -> SlotOrNone]
      /\ f2 \in [Refs -> SlotOrNone]
      /\ f3 \in [Refs -> SlotOrNone]
      /\ f1[Taken(r)] = k
      /\ f2[Held(r)] = None
  BY <1>1, <1>2 DEF TypeOK
<1>4. readers' = CountOf(f1)
  BY <1>1, ReleasedCounts DEF SwapRefs
<1>5. ref' = f3
  BY <1>1, <1>2 DEF SwapRefs, TypeOK
<1>6. CountOf(f3) = CountOf(f1)
  <2>1. CASE k = None
    <3>1. f3 = f1
      BY <1>1, <1>3, <2>1
    <3>. QED
      BY <3>1
  <2>2. CASE k # None
    <3>1. k \in Slots
      BY <1>2, <2>2 DEF SlotOrNone
    <3>2. CountOf(f2) = [CountOf(f1) EXCEPT ![k] = @ - 1]
      BY <1>1, <1>3, <2>2, CountDrop
    <3>3. CountOf(f3) = [CountOf(f2) EXCEPT ![k] = @ + 1]
      <4>1. /\ f2 \in [Refs -> SlotOrNone] /\ Held(r) \in Refs
            /\ f2[Held(r)] = None /\ k \in Slots
        BY <1>1, <1>3, <3>1
      <4>. HIDE DEF f1, f2, k
      <4>. QED
        BY <4>1, CountAdd, Zenon
    <3>4. CountOf(f1)[k] \in Int
      BY <3>1, RefsFinite, FS_Subset, FS_CardinalityType DEF CountOf, HoldersOf
    <3>5. CountOf(f1) = [s \in Slots |-> CountOf(f1)[s]]
      BY DEF CountOf
    <3>. HIDE DEF f1, f2, f3, k
    <3>. QED
      BY <3>1, <3>2, <3>3, <3>4, <3>5
  <2>. QED
    BY <2>1, <2>2
<1>7. CountOf(ref') = CountOf(f3)
  BY <1>5
<1>. QED
  BY <1>3, <1>4, <1>5, <1>6, <1>7

-----------------------------------------------------------------------------
(* The inductive invariant.                                                *)

Counted == readers = CountOf(ref)

\* The slot being filled is the producer's alone; the slot it has just
\* published is the published one until it has taken a reference to it.
Discipline ==
  /\ cur # None <=> ppc \in Copying \union {"hold"}
  /\ \A s \in Slots : writing[s] <=> (s = cur /\ ppc \in Copying)
  /\ ppc \in Copying => readers[cur] = 0 /\ cur # published
  /\ ppc = "hold" => published = cur

\* An owner's second reference is in use only between its two steps.
TakenEmpty ==
  /\ ppc # "swap" => ref[Taken(Producer)] = None
  /\ \A r \in Presenters : rpc[r] = "idle" => ref[Taken(r)] = None

\* How far the copy into cur has come.
Progress ==
  /\ ppc \in {"fill", "filling", "filled"} => Bytes[asked] <= cap[cur]
  /\ ppc \in {"filling", "filled"} => px[cur].id = seq + 1 /\ px[cur].geom = asked
  /\ ppc = "filled" => px[cur].whole

\* What can be shown: the published slot and every slot with a reader.
Shown(s) == s = published \/ readers[s] > 0

ShownWhole ==
  \A s \in Slots : Shown(s) =>
    /\ Bytes[dims[s]] <= cap[s]
    /\ px[s].whole /\ px[s].id = frame[s]
    /\ AnyCaller \/ px[s].geom = dims[s]

\* The published frame is the newest.
Numbered ==
  /\ \A s \in Slots : frame[s] <= seq
  /\ published # None => frame[published] = seq /\ seq > 0

\* An owner's second reference is no older than its first.
TakenNewer ==
  \A r \in Owners :
    ref[Held(r)] # None /\ ref[Taken(r)] # None
      => frame[ref[Held(r)]] <= frame[ref[Taken(r)]]

IInv ==
  /\ TypeOK
  /\ Counted
  /\ Discipline
  /\ TakenEmpty
  /\ Progress
  /\ ShownWhole
  /\ Numbered
  /\ TakenNewer

\* Whatever a reference points to is counted as read.
LEMMA HeldIsCounted ==
  ASSUME TypeOK, Counted, NEW x \in Refs, ref[x] # None
  PROVE  ref[x] \in Slots /\ readers[ref[x]] > 0
BY CountDrop DEF TypeOK, Counted, SlotOrNone

LEMMA InitIInv == Init => IInv
<1> SUFFICES ASSUME Init PROVE IInv
  OBVIOUS
<1>1. TypeOK
  BY PoolAssumption DEF Init, TypeOK, SlotOrNone, Pixels
<1>2. Counted
  <2>1. \A s \in Slots : HoldersOf(ref, s) = {}
    BY PoolAssumption DEF Init, HoldersOf, Slots, None
  <2>. QED
    BY <2>1, FS_EmptySet DEF Init, Counted, CountOf
<1>3. None \notin Slots
  BY PoolAssumption DEF Slots, None
<1>4. Discipline /\ TakenEmpty /\ Progress
  BY <1>3, RefFacts DEF Init, Discipline, TakenEmpty, Progress, Copying, Owners
<1>5. ShownWhole /\ Numbered /\ TakenNewer
  BY <1>3, RefFacts DEF Init, ShownWhole, Shown, Numbered, TakenNewer, Owners
<1>. QED
  BY <1>1, <1>2, <1>4, <1>5 DEF IInv

-----------------------------------------------------------------------------
(* Every step preserves it.  The producer's own steps leave the references *)
(* alone; the steps that move references leave the slots alone.            *)

ProducerOwnStep ==
  \/ \E g \in Geoms : Begin(g)
  \/ BeginDropped
  \/ Grow
  \/ GrowFailed
  \/ FillBegin
  \/ FillEnd
  \/ \E g \in Geoms : Publish(g)
  \/ \E g \in Geoms : PublishRefused(g)
  \/ Abandon

LEMMA OwnStepKeepsCounts ==
  ASSUME IInv, ProducerOwnStep
  PROVE  Counted' /\ TakenEmpty'
<1>1. UNCHANGED <<ref, readers, rpc>>
  BY DEF ProducerOwnStep, Begin, BeginDropped, Grow, GrowFailed, FillBegin,
         FillEnd, Publish, PublishRefused, Abandon, GiveUp
<1>2. ppc # "swap"
  BY DEF ProducerOwnStep, Begin, BeginDropped, Grow, GrowFailed, FillBegin,
         FillEnd, Publish, PublishRefused, Abandon
<1>. QED
  BY <1>1, <1>2 DEF IInv, Counted, CountOf, HoldersOf, TakenEmpty

\* The producer writes to its own slot only, and nobody holds that one.
LEMMA OwnStepKeepsSlots ==
  ASSUME IInv, ProducerOwnStep
  PROVE  TypeOK' /\ Discipline' /\ Progress' /\ ShownWhole' /\ Numbered' /\ TakenNewer'
<1> DEFINE Goal == TypeOK' /\ Discipline' /\ Progress' /\ ShownWhole'
                   /\ Numbered' /\ TakenNewer'
<1>. USE PoolAssumption
<1>1. \A r \in Owners :
        /\ ref[Held(r)] # None => /\ ref[Held(r)] \in Slots
                                  /\ readers[ref[Held(r)]] > 0
        /\ ref[Taken(r)] # None => /\ ref[Taken(r)] \in Slots
                                   /\ readers[ref[Taken(r)]] > 0
  BY HeldIsCounted, RefFacts DEF IInv
<1>2. None \notin Slots
  BY DEF Slots, None
<1>3. ASSUME NEW g \in Geoms, Begin(g)
      PROVE  Goal
  BY <1>2, <1>3 DEF Begin, FirstFree, Free, IInv, TypeOK, Discipline, Progress,
     ShownWhole, Shown, Numbered, TakenNewer, Copying, SlotOrNone, Pixels
<1>4. ASSUME BeginDropped
      PROVE  Goal
  BY <1>4 DEF BeginDropped, IInv, TypeOK, Discipline, Progress, ShownWhole, Shown,
     Numbered, TakenNewer, Copying
<1>5. ASSUME Grow
      PROVE  Goal
  BY <1>2, <1>5 DEF Grow, IInv, TypeOK, Discipline, Progress, ShownWhole, Shown,
     Numbered, TakenNewer, Copying, SlotOrNone
<1>6. ASSUME GiveUp, ppc \in Copying, dropped' \in BOOLEAN
      PROVE  Goal
  BY <1>2, <1>6 DEF GiveUp, IInv, TypeOK, Discipline, Progress, ShownWhole, Shown,
     Numbered, TakenNewer, Copying, SlotOrNone
<1>7. ASSUME FillBegin
      PROVE  Goal
  BY <1>2, <1>7 DEF FillBegin, IInv, TypeOK, Discipline, Progress, ShownWhole, Shown,
     Numbered, TakenNewer, Copying, SlotOrNone, Pixels
<1>8. ASSUME FillEnd
      PROVE  Goal
  <2> USE DEF IInv
  <2>1. TypeOK'
    BY <1>8 DEF FillEnd, TypeOK, Pixels
  <2>2. /\ \A s \in Slots : s # cur => px'[s] = px[s]
        /\ cur \in Slots /\ cur # published /\ readers[cur] = 0
    BY <1>2, <1>8 DEF FillEnd, TypeOK, Discipline, Progress, Copying, SlotOrNone
  <2>3. Discipline' /\ Numbered' /\ TakenNewer'
    BY <1>8 DEF FillEnd, Discipline, Numbered, TakenNewer, Copying
  <2>4. Progress'
    BY <1>2, <1>8 DEF FillEnd, TypeOK, Discipline, Progress, Copying, SlotOrNone, Pixels
  <2>5. ShownWhole'
    BY <1>8, <2>2 DEF FillEnd, ShownWhole, Shown
  <2> QED
    BY <2>1, <2>3, <2>4, <2>5
<1>9. ASSUME NEW g \in Geoms, Publish(g)
      PROVE  Goal
  BY <1>1, <1>2, <1>9 DEF Publish, PublishGeom, IInv, TypeOK, Discipline, Progress,
     ShownWhole, Shown, Numbered, TakenNewer, Copying, SlotOrNone, Pixels
<1>10. ASSUME NEW g \in Geoms, PublishRefused(g)
       PROVE  Goal
  BY <1>6, <1>10 DEF PublishRefused, Copying
<1>11. ASSUME GrowFailed
       PROVE  Goal
  BY <1>6, <1>11 DEF GrowFailed, Copying
<1>12. ASSUME Abandon
       PROVE  Goal
  BY <1>6, <1>12 DEF Abandon, Copying, IInv, TypeOK
<1>. QED
  BY <1>3, <1>4, <1>5, <1>7, <1>8, <1>9, <1>10, <1>11, <1>12 DEF ProducerOwnStep

\* A step that only moves references leaves these alone.
RefStepFrame == UNCHANGED <<published, seq, cap, dims, frame, px, writing, dropped, asked>>

\* Readers come and go on slots that are already shown, or only go.
LEMMA RefStepKeepsSlots ==
  ASSUME IInv, RefStepFrame, readers' \in [Slots -> Nat],
         \A s \in Slots : readers'[s] > 0 => Shown(s),
         \/ UNCHANGED <<cur, ppc>>
         \/ ppc \notin Copying /\ cur' = None /\ ppc' \notin Copying \union {"hold"}
  PROVE  Discipline' /\ Progress' /\ ShownWhole' /\ Numbered'
BY DEF RefStepFrame, IInv, TypeOK, Discipline, Progress, ShownWhole, Shown, Numbered,
   Copying, SlotOrNone

LEMMA ProducerTakeStep ==
  ASSUME IInv, ProducerTake
  PROVE  IInv'
<1> DEFINE x == Taken(Producer)
<1>1. x \in Refs /\ ref[x] = None
  BY RefFacts DEF ProducerTake, IInv, TakenEmpty, Owners
<1>2. ref' \in [Refs -> SlotOrNone] /\ Counted'
  BY <1>1, AcquireCounts DEF ProducerTake, IInv, Counted
<1>3. readers' \in [Slots -> Nat] /\ \A s \in Slots : readers'[s] > 0 => Shown(s)
  BY DEF ProducerTake, Acquire, IInv, TypeOK, Shown, SlotOrNone
<1>4. TypeOK'
  BY <1>2, <1>3 DEF ProducerTake, IInv, TypeOK, SlotOrNone
<1>5. Discipline' /\ Progress' /\ ShownWhole' /\ Numbered'
  BY <1>3, RefStepKeepsSlots DEF ProducerTake, RefStepFrame, Copying
<1>6. TakenEmpty'
  <2>1. ppc' = "swap" /\ rpc' = rpc
    BY DEF ProducerTake
  <2>2. \A r \in Presenters : ref'[Taken(r)] = ref[Taken(r)]
    BY PoolAssumption, RefFacts DEF ProducerTake, Acquire, IInv, TypeOK, Owners
  <2>. QED
    BY <2>1, <2>2 DEF IInv, TakenEmpty
<1>7. TakenNewer'
  <2> SUFFICES ASSUME NEW r \in Owners, ref'[Held(r)] # None, ref'[Taken(r)] # None
               PROVE  frame'[ref'[Held(r)]] <= frame'[ref'[Taken(r)]]
    BY DEF TakenNewer
  <2>1. UNCHANGED frame /\ ref'[Held(r)] = ref[Held(r)]
    BY RefFacts DEF ProducerTake, Acquire, IInv, TypeOK, Owners
  <2>2. CASE ref'[Taken(r)] = ref[Taken(r)]
    BY <2>1, <2>2 DEF IInv, TakenNewer
  <2>3. CASE ref'[Taken(r)] # ref[Taken(r)]
    <3>1. ref'[Taken(r)] = published /\ published # None
      BY <2>3, RefFacts DEF ProducerTake, Acquire, IInv, TypeOK
    <3>2. ref[Held(r)] \in Slots
      BY <2>1, RefFacts DEF IInv, TypeOK, SlotOrNone
    <3>. QED
      BY <2>1, <3>1, <3>2 DEF IInv, Numbered
  <2>. QED
    BY <2>2, <2>3
<1>. QED
  BY <1>2, <1>4, <1>5, <1>6, <1>7 DEF IInv

LEMMA PresenterTakeStep ==
  ASSUME IInv, NEW p \in Presenters, PresenterTake(p)
  PROVE  IInv'
<1> DEFINE x == Taken(p)
<1>1. p \in Owners /\ p # Producer
  BY PoolAssumption DEF Owners
<1>2. x \in Refs /\ ref[x] = None
  BY <1>1, RefFacts DEF PresenterTake, IInv, TakenEmpty
<1>3. ref' \in [Refs -> SlotOrNone] /\ Counted'
  BY <1>2, AcquireCounts DEF PresenterTake, IInv, Counted
<1>4. readers' \in [Slots -> Nat] /\ \A s \in Slots : readers'[s] > 0 => Shown(s)
  BY DEF PresenterTake, Acquire, IInv, TypeOK, Shown, SlotOrNone
<1>5. TypeOK'
  BY <1>3, <1>4 DEF PresenterTake, IInv, TypeOK
<1>6. Discipline' /\ Progress' /\ ShownWhole' /\ Numbered'
  BY <1>4, RefStepKeepsSlots DEF PresenterTake, RefStepFrame
<1>7. TakenEmpty'
  BY <1>1, RefFacts DEF PresenterTake, Acquire, IInv, TypeOK, TakenEmpty, Owners
<1>8. TakenNewer'
  <2> SUFFICES ASSUME NEW r \in Owners, ref'[Held(r)] # None, ref'[Taken(r)] # None
               PROVE  frame'[ref'[Held(r)]] <= frame'[ref'[Taken(r)]]
    BY DEF TakenNewer
  <2>1. UNCHANGED frame /\ ref'[Held(r)] = ref[Held(r)]
    BY <1>1, RefFacts DEF PresenterTake, Acquire, IInv, TypeOK
  <2>2. CASE ref'[Taken(r)] = ref[Taken(r)]
    BY <2>1, <2>2 DEF IInv, TakenNewer
  <2>3. CASE ref'[Taken(r)] # ref[Taken(r)]
    <3>1. ref'[Taken(r)] = published /\ published # None
      BY <2>3, RefFacts DEF PresenterTake, Acquire, IInv, TypeOK
    <3>2. ref[Held(r)] \in Slots
      BY <2>1, RefFacts DEF IInv, TypeOK, SlotOrNone
    <3>. QED
      BY <2>1, <3>1, <3>2 DEF IInv, Numbered
  <2>. QED
    BY <2>2, <2>3
<1>. QED
  BY <1>3, <1>5, <1>6, <1>7, <1>8 DEF IInv

\* A release never raises a count.
LEMMA ReleasedShown ==
  ASSUME TypeOK, NEW h \in SlotOrNone
  PROVE  /\ Released(h) \in [Slots -> Nat]
         /\ \A s \in Slots : Released(h)[s] > 0 => Shown(s)
<1>1. CASE h = None
  BY <1>1 DEF Released, Shown, TypeOK
<1>2. CASE h # None
  <2>1. h \in Slots /\ readers \in [Slots -> Nat]
    BY <1>2 DEF SlotOrNone, TypeOK
  <2>2. Released(h) = [readers EXCEPT ![h] = IF readers[h] > 0 THEN readers[h] - 1 ELSE readers[h]]
    BY <1>2 DEF Released
  <2>3. (IF readers[h] > 0 THEN readers[h] - 1 ELSE readers[h]) \in Nat
    BY <2>1
  <2>4. ASSUME NEW s \in Slots, Released(h)[s] > 0
        PROVE  readers[s] > 0
    BY <2>1, <2>2, <2>4
  <2>. QED
    BY <2>1, <2>2, <2>3, <2>4 DEF Shown
<1>. QED
  BY <1>1, <1>2

\* Giving the last frame back and keeping the one taken after it.
LEMMA SwapKeeps ==
  ASSUME IInv, NEW r \in Owners, SwapRefs(r), RefStepFrame
  PROVE  /\ ref' \in [Refs -> SlotOrNone] /\ Counted'
         /\ readers' \in [Slots -> Nat]
         /\ \A s \in Slots : readers'[s] > 0 => Shown(s)
         /\ ref'[Taken(r)] = None
         /\ \A t \in Owners : t # r => ref'[Taken(t)] = ref[Taken(t)]
         /\ TakenNewer'
<1>1. ref' \in [Refs -> SlotOrNone] /\ Counted'
  BY SwapCounts DEF IInv, Counted
<1>2. readers' \in [Slots -> Nat] /\ \A s \in Slots : readers'[s] > 0 => Shown(s)
  <2>1. readers' = Released(ref[Held(r)]) /\ ref[Held(r)] \in SlotOrNone
    BY RefFacts DEF SwapRefs, IInv, TypeOK
  <2>. QED
    BY <2>1, ReleasedShown DEF IInv
<1>3. /\ ref'[Taken(r)] = None
      /\ \A t \in Owners : t # r => /\ ref'[Taken(t)] = ref[Taken(t)]
                                    /\ ref'[Held(t)] = ref[Held(t)]
  BY RefFacts DEF SwapRefs, IInv, TypeOK, Held
<1>4. TakenNewer'
  BY <1>3 DEF TakenNewer, RefStepFrame, IInv
<1>. QED
  BY <1>1, <1>2, <1>3, <1>4

LEMMA ProducerSwapStep ==
  ASSUME IInv, ProducerSwap
  PROVE  IInv'
<1>1. Producer \in Owners /\ \A r \in Presenters : r \in Owners /\ r # Producer
  BY PoolAssumption DEF Owners
<1>2. RefStepFrame
  BY DEF ProducerSwap, RefStepFrame
<1>3. ppc \notin Copying /\ cur = None /\ ppc' = "idle" /\ cur' = cur
  BY DEF ProducerSwap, IInv, Discipline, Copying
<1>4. Discipline' /\ Progress' /\ ShownWhole' /\ Numbered'
  BY <1>1, <1>2, <1>3, SwapKeeps, RefStepKeepsSlots DEF ProducerSwap, Copying
<1>5. TypeOK'
  BY <1>1, <1>2, <1>3, SwapKeeps DEF ProducerSwap, RefStepFrame, IInv, TypeOK
<1>6. TakenEmpty'
  BY <1>1, <1>2, SwapKeeps DEF ProducerSwap, IInv, TakenEmpty
<1>. QED
  BY <1>1, <1>2, <1>4, <1>5, <1>6, SwapKeeps DEF ProducerSwap, IInv

LEMMA PresenterSwapStep ==
  ASSUME IInv, NEW p \in Presenters, PresenterSwap(p)
  PROVE  IInv'
<1>1. p \in Owners /\ Producer \in Owners /\ p # Producer /\ Presenters \subseteq Owners
  BY PoolAssumption DEF Owners
<1>2. RefStepFrame /\ UNCHANGED <<cur, ppc>>
  BY DEF PresenterSwap, RefStepFrame
<1>3. Discipline' /\ Progress' /\ ShownWhole' /\ Numbered'
  BY <1>1, <1>2, SwapKeeps, RefStepKeepsSlots DEF PresenterSwap
<1>4. TypeOK'
  BY <1>1, <1>2, SwapKeeps DEF PresenterSwap, RefStepFrame, IInv, TypeOK
<1>5. TakenEmpty'
  <2>1. /\ ref'[Taken(p)] = None
        /\ \A t \in Owners : t # p => ref'[Taken(t)] = ref[Taken(t)]
    BY <1>1, <1>2, SwapKeeps DEF PresenterSwap
  <2>. QED
    BY <1>1, <2>1 DEF PresenterSwap, IInv, TypeOK, TakenEmpty
<1>. QED
  BY <1>1, <1>2, <1>3, <1>4, <1>5, SwapKeeps DEF PresenterSwap, IInv

LEMMA BorrowStep ==
  ASSUME IInv, NEW b \in Borrowers, Borrow(b)
  PROVE  IInv'
<1>1. b \notin Owners /\ Held(b) \in Refs /\ ref[Held(b)] = None
  BY PoolAssumption, RefFacts DEF Borrow, Owners
<1>2. ref' \in [Refs -> SlotOrNone] /\ Counted'
  BY <1>1, AcquireCounts DEF Borrow, IInv, Counted
<1>3. readers' \in [Slots -> Nat] /\ \A s \in Slots : readers'[s] > 0 => Shown(s)
  BY DEF Borrow, Acquire, IInv, TypeOK, Shown, SlotOrNone
<1>4. RefStepFrame /\ UNCHANGED <<cur, ppc, rpc>>
  BY DEF Borrow, RefStepFrame
<1>5. \A r \in Owners : ref'[Held(r)] = ref[Held(r)] /\ ref'[Taken(r)] = ref[Taken(r)]
  <2>1. \A r \in Owners : Held(r) # Held(b) /\ Taken(r) # Held(b)
    BY <1>1, RefFacts DEF Held
  <2>. QED
    BY <2>1, RefFacts DEF Borrow, Acquire, IInv, TypeOK
<1>6. Discipline' /\ Progress' /\ ShownWhole' /\ Numbered'
  BY <1>3, <1>4, RefStepKeepsSlots
<1>7. TypeOK'
  BY <1>2, <1>3, <1>4 DEF RefStepFrame, IInv, TypeOK
<1>8. TakenEmpty' /\ TakenNewer'
  BY <1>4, <1>5 DEF RefStepFrame, IInv, TakenEmpty, TakenNewer, Owners
<1>. QED
  BY <1>2, <1>6, <1>7, <1>8 DEF IInv

LEMMA ReturnStep ==
  ASSUME IInv, NEW b \in Borrowers, Return(b)
  PROVE  IInv'
<1>1. b \notin Owners /\ Held(b) \in Refs /\ ref[Held(b)] # None
  BY PoolAssumption, RefFacts DEF Return, Owners
<1>2. Counted'
  BY <1>1, ReleasedCounts DEF Return, Release, IInv, Counted
<1>3. ref' \in [Refs -> SlotOrNone]
  BY <1>1 DEF Return, Release, IInv, TypeOK, SlotOrNone
<1>4. readers' \in [Slots -> Nat] /\ \A s \in Slots : readers'[s] > 0 => Shown(s)
  <2>1. readers' = Released(ref[Held(b)]) /\ ref[Held(b)] \in SlotOrNone
    BY <1>1 DEF Return, Release, IInv, TypeOK
  <2>. QED
    BY <2>1, ReleasedShown DEF IInv
<1>5. RefStepFrame /\ UNCHANGED <<cur, ppc, rpc>>
  BY DEF Return, RefStepFrame
<1>6. \A r \in Owners : ref'[Held(r)] = ref[Held(r)] /\ ref'[Taken(r)] = ref[Taken(r)]
  <2>1. \A r \in Owners : Held(r) # Held(b) /\ Taken(r) # Held(b)
    BY <1>1, RefFacts DEF Held
  <2>. QED
    BY <2>1, RefFacts DEF Return, Release, IInv, TypeOK
<1>7. Discipline' /\ Progress' /\ ShownWhole' /\ Numbered'
  BY <1>4, <1>5, RefStepKeepsSlots
<1>8. TypeOK'
  BY <1>3, <1>4, <1>5 DEF RefStepFrame, IInv, TypeOK
<1>9. TakenEmpty' /\ TakenNewer'
  BY <1>5, <1>6 DEF RefStepFrame, IInv, TakenEmpty, TakenNewer, Owners
<1>. QED
  BY <1>2, <1>7, <1>8, <1>9 DEF IInv

LEMMA NextKeepsIInv == IInv /\ [Next]_vars => IInv'
<1> SUFFICES ASSUME IInv, [Next]_vars PROVE IInv'
  OBVIOUS
<1>1. CASE ProducerOwnStep
  BY <1>1, OwnStepKeepsCounts, OwnStepKeepsSlots DEF IInv
<1>2. CASE ReaderStep
  BY <1>2, PresenterTakeStep, PresenterSwapStep, BorrowStep, ReturnStep DEF ReaderStep
<1>3. CASE UNCHANGED vars
  BY <1>3 DEF vars, poolVars, IInv, TypeOK, Counted, CountOf, HoldersOf, Discipline,
     TakenEmpty, Progress, ShownWhole, Shown, Numbered, TakenNewer
<1>. QED
  BY <1>1, <1>2, <1>3, ProducerTakeStep, ProducerSwapStep
     DEF Next, ProducerStep, ProducerOwnStep

-----------------------------------------------------------------------------
(* The theorems.                                                           *)

\* Every reachable state satisfies the inductive invariant.
THEOREM Invariance == Spec => []IInv
BY InitIInv, NextKeepsIInv, PTL DEF Spec

\* Type correctness of the pool and its callers.
THEOREM TypeCorrect == Spec => []TypeOK
<1>1. IInv => TypeOK
  BY DEF IInv
<1>. QED
  BY <1>1, Invariance, PTL

\* frame_pool_acquire, _release and _reacquire keep the reference counts equal
\* to the references that exist.
THEOREM CountsAreExact == Spec => []RefCountExact
<1>1. IInv => RefCountExact
  BY DEF IInv, Counted, CountOf, HoldersOf, RefCountExact
<1>. QED
  BY <1>1, Invariance, PTL

\* Every frame a reader holds is one finished copy, at the size it says.
THEOREM HeldFramesAreWhole ==
  ASSUME AnyCaller = FALSE
  PROVE  Spec => []HeldFrameWhole
<1>1. IInv => HeldFrameWhole
  <2> SUFFICES ASSUME IInv, NEW x \in Refs, ref[x] # None
               PROVE  px[ref[x]] = [id |-> frame[ref[x]], geom |-> dims[ref[x]],
                                    whole |-> TRUE]
    BY DEF HeldFrameWhole
  <2>1. ref[x] \in Slots /\ readers[ref[x]] > 0
    BY HeldIsCounted DEF IInv
  <2>2. /\ px[ref[x]].whole /\ px[ref[x]].id = frame[ref[x]]
        /\ px[ref[x]].geom = dims[ref[x]]
    BY <2>1 DEF IInv, ShownWhole, Shown
  <2>3. px[ref[x]] \in Pixels
    BY <2>1 DEF IInv, TypeOK
  <2>. QED
    BY <2>2, <2>3 DEF Pixels
<1>. QED
  BY <1>1, Invariance, PTL

\* Whatever the callers pass to begin and publish, a held frame fits in its
\* storage.
THEOREM StorageIsCovered == Spec => []HeldStorageCovers
<1>1. IInv => HeldStorageCovers
  BY HeldIsCounted DEF IInv, ShownWhole, Shown, HeldStorageCovers
<1>. QED
  BY <1>1, Invariance, PTL

\* What a step does to the slots: they change only where nobody can see it.
LEMMA ShownIsFrozen ==
  ASSUME IInv, [Next]_vars, NEW s \in Slots, Shown(s)
  PROVE  cap'[s] = cap[s] /\ dims'[s] = dims[s] /\ frame'[s] = frame[s] /\ px'[s] = px[s]
<1>1. ppc \in Copying => cur \in Slots /\ s # cur
  BY PoolAssumption
     DEF IInv, TypeOK, Discipline, Shown, SlotOrNone, Copying, None, Slots
<1>2. CASE ProducerOwnStep
  BY <1>1, <1>2 DEF ProducerOwnStep, Begin, BeginDropped, Grow, GrowFailed, FillBegin,
     FillEnd, Publish, PublishRefused, Abandon, GiveUp, Copying, IInv, TypeOK
<1>3. CASE ReaderStep \/ ProducerTake \/ ProducerSwap
  BY <1>3 DEF ReaderStep, PresenterTake, PresenterSwap, Borrow, Return, ProducerTake,
     ProducerSwap
<1>4. CASE UNCHANGED vars
  BY <1>4 DEF vars, poolVars
<1>. QED
  BY <1>2, <1>3, <1>4 DEF Next, ProducerStep, ProducerOwnStep

\* A held frame is never reallocated, rewritten or relabelled.
THEOREM HeldFramesAreFrozen == Spec => HeldFrameFrozen
<1>1. ASSUME IInv, [Next]_vars
      PROVE  \A x \in Refs : ref[x] # None /\ ref'[x] = ref[x] =>
               LET s == ref[x] IN
                 /\ cap'[s] = cap[s]
                 /\ dims'[s] = dims[s]
                 /\ frame'[s] = frame[s]
                 /\ px'[s] = px[s]
  <2> SUFFICES ASSUME NEW x \in Refs, ref[x] # None
               PROVE  /\ cap'[ref[x]] = cap[ref[x]]
                      /\ dims'[ref[x]] = dims[ref[x]]
                      /\ frame'[ref[x]] = frame[ref[x]]
                      /\ px'[ref[x]] = px[ref[x]]
    OBVIOUS
  <2>1. ref[x] \in Slots /\ Shown(ref[x])
    BY <1>1, HeldIsCounted DEF IInv, Shown
  <2>. QED
    BY <1>1, <2>1, ShownIsFrozen
<1>. QED
  BY <1>1, Invariance, PTL DEF Spec, HeldFrameFrozen

\* An owner's kept reference changes only when it swaps in the one it took.
LEMMA HeldChanges ==
  ASSUME IInv, [Next]_vars, NEW r \in Owners, ref'[Held(r)] # ref[Held(r)]
  PROVE  ref'[Held(r)] = ref[Taken(r)] /\ frame' = frame
<1>1. ref \in [Refs -> SlotOrNone] /\ Held(r) \in Refs /\ Taken(r) # Held(r)
  BY RefFacts DEF IInv, TypeOK
<1>2. \A t \in Owners : t # r => Held(t) # Held(r) /\ Taken(t) # Held(r)
  BY RefFacts DEF Held
<1>3. \A b \in Borrowers : Held(b) # Held(r)
  BY PoolAssumption DEF Held, Owners
<1>4. Producer \in Owners /\ Presenters \subseteq Owners
  BY DEF Owners
<1>5. ASSUME NEW t \in Owners, Acquire(Taken(t))
      PROVE  FALSE
  BY <1>1, <1>2, <1>5, RefFacts DEF Acquire
<1>6. ASSUME NEW t \in Owners, SwapRefs(t)
      PROVE  ref'[Held(r)] = ref[Taken(r)]
  BY <1>1, <1>2, <1>6 DEF SwapRefs
<1>7. ASSUME NEW b \in Borrowers, Borrow(b) \/ Return(b)
      PROVE  FALSE
  BY <1>1, <1>3, <1>7 DEF Borrow, Return, Acquire, Release
<1>8. ~ProducerOwnStep /\ ~UNCHANGED vars
  BY DEF ProducerOwnStep, Begin, BeginDropped, Grow, GrowFailed, FillBegin, FillEnd,
     Publish, PublishRefused, Abandon, GiveUp, vars
<1>9. CASE ProducerTake \/ ProducerSwap
  BY <1>4, <1>5, <1>6, <1>9 DEF ProducerTake, ProducerSwap
<1>10. CASE ReaderStep
  BY <1>4, <1>5, <1>6, <1>7, <1>10 DEF ReaderStep, PresenterTake, PresenterSwap
<1>. QED
  BY <1>8, <1>9, <1>10 DEF Next, ProducerStep, ProducerOwnStep

\* A presenter's picture never goes back to an older frame.
THEOREM PictureGoesForward == Spec => NeverShowsOlder
<1>1. ASSUME IInv, [Next]_vars
      PROVE  \A r \in Owners :
               LET old == ref[Held(r)]
                   new == ref'[Held(r)]
               IN old # None /\ new # None => frame'[new] >= frame[old]
  <2> SUFFICES ASSUME NEW r \in Owners, ref[Held(r)] # None, ref'[Held(r)] # None
               PROVE  frame'[ref'[Held(r)]] >= frame[ref[Held(r)]]
    OBVIOUS
  <2>1. ref[Held(r)] \in Slots /\ Shown(ref[Held(r)]) /\ frame[ref[Held(r)]] \in Nat
    BY <1>1, HeldIsCounted, RefFacts DEF IInv, Shown, TypeOK
  <2>2. CASE ref'[Held(r)] = ref[Held(r)]
    BY <1>1, <2>1, <2>2, ShownIsFrozen
  <2>3. CASE ref'[Held(r)] # ref[Held(r)]
    <3>1. ref'[Held(r)] = ref[Taken(r)] /\ frame' = frame
      BY <1>1, <2>3, HeldChanges
    <3>2. ref[Taken(r)] # None /\ ref[Taken(r)] \in Slots
      BY <1>1, <3>1, HeldIsCounted, RefFacts DEF IInv
    <3>3. frame[ref[Taken(r)]] \in Nat
      BY <1>1, <3>2 DEF IInv, TypeOK
    <3>. QED
      BY <1>1, <2>1, <3>1, <3>2, <3>3 DEF IInv, TakenNewer
  <2>. QED
    BY <2>2, <2>3
<1>. QED
  BY <1>1, Invariance, PTL DEF Spec, NeverShowsOlder

-----------------------------------------------------------------------------
(* Refinement of the latest-frame register.                                *)

MView == [x \in Refs |-> FrameOf(ref[x])]

\* A step that shows nothing new.
LEMMA OwnStepShows ==
  ASSUME IInv, ProducerOwnStep
  PROVE  /\ MView' = MView
         /\ \/ FrameOf(published)' = FrameOf(published)
            \/ /\ FrameOf(published)' \in [seq : Nat \ {0}, geom : Geoms, pixels : Pixels]
               /\ FrameOf(published)'.seq > FrameOf(published).seq
<1>1. [Next]_vars /\ ref' = ref
  BY DEF ProducerOwnStep, Next, ProducerStep, Begin, BeginDropped, Grow, GrowFailed,
     FillBegin, FillEnd, Publish, PublishRefused, Abandon, GiveUp
<1>2. ASSUME NEW x \in Refs
      PROVE  FrameOf(ref[x])' = FrameOf(ref[x])
  <2>1. CASE ref[x] = None
    BY <1>1, <2>1 DEF FrameOf
  <2>2. CASE ref[x] # None
    <3>1. ref[x] \in Slots /\ Shown(ref[x])
      BY <2>2, HeldIsCounted DEF IInv, Shown
    <3>. QED
      BY <1>1, <3>1, ShownIsFrozen DEF FrameOf
  <2>. QED
    BY <2>1, <2>2
<1>3. MView' = MView
  BY <1>2 DEF MView
<1>4. CASE published' = published
  <2>1. CASE published = None
    BY <1>3, <1>4, <2>1 DEF FrameOf
  <2>2. CASE published # None
    <3>1. published \in Slots /\ Shown(published)
      BY <2>2 DEF IInv, TypeOK, SlotOrNone, Shown
    <3>. QED
      BY <1>1, <1>3, <1>4, <2>2, <3>1, ShownIsFrozen DEF FrameOf
  <2>. QED
    BY <1>3, <2>1, <2>2
<1>5. CASE published' # published
  <2>1. PICK g \in Geoms : Publish(g)
    BY <1>5 DEF ProducerOwnStep, Begin, BeginDropped, Grow, GrowFailed, FillBegin,
       FillEnd, PublishRefused, Abandon, GiveUp
  <2>2. cur \in Slots /\ cur # None /\ published' = cur
    BY <2>1 DEF Publish, IInv, TypeOK, Discipline, Copying, SlotOrNone
  <2>3. /\ seq \in Nat /\ frame'[cur] = seq + 1 /\ dims'[cur] \in Geoms
        /\ px'[cur] \in Pixels
    BY <2>1, <2>2 DEF Publish, IInv, TypeOK
  <2>4. FrameOf(published)' = [seq |-> frame'[cur], geom |-> dims'[cur],
                               pixels |-> px'[cur]]
    BY <2>2 DEF FrameOf
  <2>5. FrameOf(published).seq <= seq /\ FrameOf(published).seq \in Nat
    <3>1. CASE published = None
      BY <2>3, <3>1 DEF FrameOf, NoFrame
    <3>2. CASE published # None
      BY <3>2 DEF FrameOf, IInv, TypeOK, Numbered, SlotOrNone
    <3>. QED
      BY <3>1, <3>2
  <2>6. FrameOf(published)' \in [seq : Nat \ {0}, geom : Geoms, pixels : Pixels]
    BY <2>3, <2>4
  <2>7. FrameOf(published)'.seq = seq + 1
    BY <2>3, <2>4
  <2>. QED
    BY <1>3, <2>3, <2>5, <2>6, <2>7
<1>. QED
  BY <1>4, <1>5

\* A step that moves references: what each reference shows afterwards.
LEMMA RefStepShows ==
  ASSUME UNCHANGED <<published, dims, frame, px>>
  PROVE  /\ FrameOf(published)' = FrameOf(published)
         /\ MView' = [x \in Refs |-> FrameOf(ref'[x])]
BY DEF FrameOf, MView

LEMMA AcquireShows ==
  ASSUME IInv, UNCHANGED <<published, dims, frame, px>>,
         NEW x \in Refs, ref[x] = None, Acquire(x)
  PROVE  Latest!Take(x)
<1>1. MView' = [MView EXCEPT ![x] = FrameOf(published)]
  <2>1. CASE published = None
    BY <2>1, RefStepShows DEF Acquire, MView
  <2>2. CASE published # None
    BY <2>2, RefStepShows DEF Acquire, MView, IInv, TypeOK
  <2>. QED
    BY <2>1, <2>2
<1>2. MView[x] = NoFrame
  BY DEF MView, FrameOf
<1>. QED
  BY <1>1, <1>2, RefStepShows DEF Latest!Take, MView

LEMMA SwapShows ==
  ASSUME IInv, UNCHANGED <<published, dims, frame, px>>,
         NEW r \in Owners, SwapRefs(r)
  PROVE  Latest!Swap(r)
<1>1. Held(r) \in Refs /\ Taken(r) \in Refs
  BY RefFacts
<1>2. MView' = [MView EXCEPT ![Held(r)] = MView[Taken(r)], ![Taken(r)] = NoFrame]
  <2>1. MView' = [x \in Refs |-> FrameOf(ref'[x])]
    BY RefStepShows
  <2>2. FrameOf(None) = NoFrame
    BY DEF FrameOf
  <2>. QED
    BY <1>1, <2>1, <2>2 DEF SwapRefs, MView, IInv, TypeOK
<1>. QED
  BY <1>2, RefStepShows DEF Latest!Swap, Latest!Held, Latest!Next_, Held, Taken, MView

\* The frame pool implements the register of the latest frame.
THEOREM Refinement == Spec => ImplementsLatestFrame
<1>1. Init => Latest!Init
  BY DEF Init, Latest!Init, FrameOf, Refs, Latest!AbsRefs
<1>2. ASSUME IInv, [Next]_vars
      PROVE  [Latest!Next]_(Latest!absVars)
  <2>1. CASE ProducerOwnStep
    BY <1>2, <2>1, OwnStepShows DEF Latest!Next, Latest!Publish, Latest!absVars, MView
  <2>2. CASE ProducerTake
    <3>1. Taken(Producer) \in Refs /\ ref[Taken(Producer)] = None
      BY <1>2, <2>2, RefFacts DEF ProducerTake, IInv, TakenEmpty, Owners
    <3>2. Latest!Take(Taken(Producer))
      BY <1>2, <2>2, <3>1, AcquireShows DEF ProducerTake
    <3>. QED
      BY <3>1, <3>2 DEF Latest!Next, Refs, Latest!AbsRefs
  <2>3. CASE ProducerSwap
    <3>1. Latest!Swap(Producer)
      BY <1>2, <2>3, SwapShows DEF ProducerSwap, Owners
    <3>. QED
      BY <3>1 DEF Latest!Next, Owners
  <2>4. ASSUME NEW p \in Presenters, PresenterTake(p)
        PROVE  Latest!Next
    <3>1. p \in Owners /\ Taken(p) \in Refs /\ ref[Taken(p)] = None
      BY <1>2, <2>4, RefFacts DEF PresenterTake, IInv, TakenEmpty, Owners
    <3>2. Latest!Take(Taken(p))
      BY <1>2, <2>4, <3>1, AcquireShows DEF PresenterTake
    <3>. QED
      BY <3>1, <3>2 DEF Latest!Next, Refs, Latest!AbsRefs
  <2>5. ASSUME NEW p \in Presenters, PresenterSwap(p)
        PROVE  Latest!Next
    <3>1. p \in Owners /\ Latest!Swap(p)
      BY <1>2, <2>5, SwapShows DEF PresenterSwap, Owners
    <3>. QED
      BY <3>1 DEF Latest!Next
  <2>6. ASSUME NEW b \in Borrowers, Borrow(b)
        PROVE  Latest!Next
    <3>1. Held(b) \in Refs /\ Latest!Take(Held(b))
      BY <1>2, <2>6, RefFacts, AcquireShows DEF Borrow
    <3>. QED
      BY <3>1 DEF Latest!Next, Refs, Latest!AbsRefs
  <2>7. ASSUME NEW b \in Borrowers, Return(b)
        PROVE  Latest!Next
    <3>1. UNCHANGED <<published, dims, frame, px>> /\ Held(b) \in Refs
          /\ ref' = [ref EXCEPT ![Held(b)] = None]
      BY <2>7, RefFacts DEF Return, Release
    <3>2. MView' = [MView EXCEPT ![Held(b)] = NoFrame]
      <4>1. MView' = [x \in Refs |-> FrameOf(ref'[x])] /\ FrameOf(None) = NoFrame
        BY <3>1, RefStepShows DEF FrameOf
      <4>. QED
        BY <1>2, <3>1, <4>1 DEF MView, IInv, TypeOK
    <3>. QED
      BY <3>1, <3>2, RefStepShows DEF Latest!Next, Latest!GiveBack, Latest!Held, Held, MView
  <2>8. CASE UNCHANGED vars
    BY <2>8 DEF vars, poolVars, Latest!absVars, FrameOf
  <2>. QED
    BY <1>2, <2>1, <2>2, <2>3, <2>4, <2>5, <2>6, <2>7, <2>8
       DEF Next, ProducerStep, ProducerOwnStep, ReaderStep
<1>. QED
  BY <1>1, <1>2, Invariance, PTL DEF Spec, ImplementsLatestFrame, Latest!Spec

-----------------------------------------------------------------------------
(* There are slots enough.                                                 *)

\* Between two frames the producer holds the published one.
KeepsPublished ==
  /\ ppc \notin {"hold", "swap"} => ref[Held(Producer)] = published
  /\ ppc = "swap" => ref[Taken(Producer)] = published

LEMMA NextKeepsPublished ==
  ASSUME IInv, KeepsPublished, [Next]_vars
  PROVE  KeepsPublished'
<1>1. /\ Held(Producer) \in Refs /\ Taken(Producer) \in Refs
      /\ Held(Producer) # Taken(Producer) /\ ref \in [Refs -> SlotOrNone]
      /\ \A r \in Presenters : /\ Held(r) \notin {Held(Producer), Taken(Producer)}
                               /\ Taken(r) \notin {Held(Producer), Taken(Producer)}
      /\ \A b \in Borrowers : Held(b) \notin {Held(Producer), Taken(Producer)}
  BY RefFacts, PoolAssumption DEF IInv, TypeOK, Owners, Held, Taken
<1>2. CASE ProducerOwnStep
  <2>1. UNCHANGED ref
    BY <1>2 DEF ProducerOwnStep, Begin, BeginDropped, Grow, GrowFailed, GiveUp, FillBegin,
       FillEnd, Publish, PublishRefused, Abandon
  <2>2. /\ ppc \notin {"hold", "swap"}
        /\ ppc' # "swap"
        /\ ppc' # "hold" => published' = published
    BY <1>2 DEF ProducerOwnStep, Begin, BeginDropped, Grow, GrowFailed, GiveUp, FillBegin,
       FillEnd, Publish, PublishRefused, Abandon
  <2> QED
    BY <2>1, <2>2 DEF KeepsPublished
<1>3. CASE ProducerTake
  BY <1>1, <1>3 DEF ProducerTake, Acquire, KeepsPublished, IInv, Discipline, Copying
<1>4. CASE ProducerSwap
  BY <1>1, <1>4 DEF ProducerSwap, SwapRefs, KeepsPublished
<1>5. CASE ReaderStep
  <2>1. UNCHANGED <<ppc, published>>
    BY <1>5 DEF ReaderStep, PresenterTake, PresenterSwap, Borrow, Return
  <2>2. /\ ref'[Held(Producer)] = ref[Held(Producer)]
        /\ ref'[Taken(Producer)] = ref[Taken(Producer)]
    BY <1>1, <1>5 DEF ReaderStep, PresenterTake, PresenterSwap, Borrow, Return,
       Acquire, SwapRefs, Release
  <2> QED
    BY <2>1, <2>2 DEF KeepsPublished
<1>6. CASE UNCHANGED vars
  BY <1>6 DEF vars, poolVars, KeepsPublished
<1> QED
  BY <1>2, <1>3, <1>4, <1>5, <1>6 DEF Next, ProducerStep, ProducerOwnStep

LEMMA PublishedIsKept == Spec => []KeepsPublished
<1>1. Init => KeepsPublished
  BY RefFacts DEF Init, KeepsPublished, Owners
<1>2. IInv /\ KeepsPublished /\ [Next]_vars => KeepsPublished'
  BY NextKeepsPublished
<1> QED
  BY <1>1, <1>2, Invariance, PTL DEF Spec

\* The references that can be in use when the producer wants a slot.
InUse == Refs \ {Taken(Producer)}

LEMMA InUseSize ==
  IsFiniteSet(InUse) /\ Cardinality(InUse) = 2 * Cardinality(Presenters) + Cardinality(Borrowers) + 1
<1> DEFINE P == Cardinality(Presenters)
           B == Cardinality(Borrowers)
           Firsts == (Owners \union Borrowers) \X {"held"}
           Seconds == Owners \X {"next"}
<1>1. P \in Nat /\ B \in Nat
  BY PoolAssumption, FS_CardinalityType
<1>2. IsFiniteSet(Owners) /\ Cardinality(Owners) = P + 1
  BY PoolAssumption, FS_AddElement DEF Owners
<1>3. IsFiniteSet(Owners \union Borrowers) /\ Cardinality(Owners \union Borrowers) = P + 1 + B
  <2>1. Owners \intersect Borrowers = {}
    BY PoolAssumption DEF Owners
  <2>2. Cardinality(Owners \intersect Borrowers) = 0
    BY <2>1, FS_EmptySet
  <2>3. /\ IsFiniteSet(Owners \union Borrowers)
        /\ Cardinality(Owners \union Borrowers)
             = Cardinality(Owners) + B - Cardinality(Owners \intersect Borrowers)
    BY <1>2, PoolAssumption, FS_Union
  <2> QED
    BY <1>1, <1>2, <2>2, <2>3
<1>4. /\ IsFiniteSet({"held"}) /\ Cardinality({"held"}) = 1
      /\ IsFiniteSet({"next"}) /\ Cardinality({"next"}) = 1
  BY FS_Singleton
<1>5. IsFiniteSet(Firsts) /\ Cardinality(Firsts) = P + 1 + B
  <2>1. IsFiniteSet(Firsts) /\ Cardinality(Firsts) = Cardinality(Owners \union Borrowers) * 1
    BY <1>3, <1>4, FS_Product
  <2> QED
    BY <1>1, <1>3, <2>1
<1>6. IsFiniteSet(Seconds) /\ Cardinality(Seconds) = P + 1
  <2>1. IsFiniteSet(Seconds) /\ Cardinality(Seconds) = Cardinality(Owners) * 1
    BY <1>2, <1>4, FS_Product
  <2> QED
    BY <1>1, <1>2, <2>1
<1>7. Cardinality(Firsts \intersect Seconds) = 0
  <2>1. Firsts \intersect Seconds = {}
    OBVIOUS
  <2> QED
    BY <2>1, FS_EmptySet
<1>8. IsFiniteSet(Refs) /\ Cardinality(Refs) = 2 * P + B + 2
  <2>1. /\ IsFiniteSet(Firsts \union Seconds)
        /\ Cardinality(Firsts \union Seconds)
             = Cardinality(Firsts) + Cardinality(Seconds) - Cardinality(Firsts \intersect Seconds)
    BY <1>5, <1>6, FS_Union
  <2>2. Refs = Firsts \union Seconds
    BY DEF Refs
  <2> HIDE DEF P, B, Firsts, Seconds
  <2> QED
    BY <1>1, <1>5, <1>6, <1>7, <2>1, <2>2
<1>9. Taken(Producer) \in Refs
  BY RefFacts DEF Owners
<1>10. /\ IsFiniteSet(InUse)
       /\ Cardinality(InUse) = Cardinality(Refs) - 1
  BY <1>8, <1>9, FS_RemoveElement DEF InUse
<1> HIDE DEF P, B
<1>11. Cardinality(InUse) = 2 * P + B + 1
  BY <1>1, <1>8, <1>10
<1> QED
  BY <1>10, <1>11 DEF P, B

\* A slot that is not free, between two frames, is one a reference points to.
LEMMA NotFreeIsHeld ==
  ASSUME IInv, KeepsPublished, ppc = "idle", NEW s \in Slots, ~ Free(s)
  PROVE  \E x \in InUse : ref[x] = s
<1>1. ~ writing[s]
  BY DEF IInv, Discipline, Copying
<1>2. Held(Producer) \in InUse /\ s # None /\ ref[Taken(Producer)] = None
  BY RefFacts, PoolAssumption DEF InUse, Owners, Slots, None, IInv, TakenEmpty
<1>3. CASE s = published
  BY <1>2, <1>3 DEF KeepsPublished
<1>4. CASE readers[s] # 0
  <2>1. Cardinality(HoldersOf(ref, s)) # 0
    BY <1>4 DEF IInv, Counted, CountOf
  <2>2. HoldersOf(ref, s) # {}
    BY <2>1, FS_EmptySet
  <2>3. PICK x \in Refs : ref[x] = s
    BY <2>2 DEF HoldersOf
  <2> QED
    BY <1>2, <2>3 DEF InUse
<1> QED
  BY <1>1, <1>3, <1>4 DEF Free

\* FRAME_POOL_SLOTS is enough: with two slots for each presenter, one for each
\* borrower, one for the producer's last frame and one to fill, frame_pool_begin
\* finds a slot however the readers and the producer interleave.
THEOREM SlotsAreEnough ==
  ASSUME NSlots >= 2 * Cardinality(Presenters) + Cardinality(Borrowers) + 2
  PROVE  Spec => []SlotForNextFrame
<1>1. ASSUME IInv, KeepsPublished, ppc = "idle", \A s \in Slots : ~ Free(s)
      PROVE  FALSE
  <2> DEFINE holder == [s \in Slots |-> CHOOSE x \in InUse : ref[x] = s]
  <2>1. \A s \in Slots : holder[s] \in InUse /\ ref[holder[s]] = s
    BY <1>1, NotFreeIsHeld
  <2>2. holder \in Injection(Slots, InUse)
    <3>1. holder \in [Slots -> InUse]
      BY <2>1
    <3>2. \A s, u \in Slots : holder[s] = holder[u] => s = u
      BY <2>1
    <3> QED
      BY <3>1, <3>2 DEF Injection, IsInjective
  <2>3. Cardinality(Slots) =< Cardinality(InUse)
    BY <2>2, InUseSize, FS_Injection
  <2>4. Cardinality(Slots) = NSlots
    BY PoolAssumption, FS_Interval DEF Slots
  <2>5. Cardinality(Presenters) \in Nat /\ Cardinality(Borrowers) \in Nat
    BY PoolAssumption, FS_CardinalityType
  <2> QED
    BY <2>3, <2>4, <2>5, InUseSize, PoolAssumption
<1>2. IInv /\ KeepsPublished => SlotForNextFrame
  BY <1>1 DEF SlotForNextFrame
<1> QED
  BY <1>2, Invariance, PublishedIsKept, PTL

=============================================================================
