----------------------------- MODULE FramePool -----------------------------
(***************************************************************************)
(* The pool of finished frames (src/src/kernel/frame_pool.h) as its one    *)
(* producer, snapshot_surface in nv2a_pb_exec.c, and its readers use it.   *)
(*                                                                         *)
(* Every pthread_mutex critical section of the header is one action.  What *)
(* the code does outside the mutex -- growing the storage of the slot it   *)
(* was given, copying the rows, reading a held frame -- is in actions of   *)
(* its own, so that every other thread can run in between.                 *)
(*                                                                         *)
(* A frame's pixels are abstracted to the number of the publish they were  *)
(* copied for, the geometry they were copied at and whether the copy has   *)
(* finished.  Statistics (publishes, acquires, empty) are left out.        *)
(***************************************************************************)
EXTENDS Integers, FiniteSets

CONSTANTS
  NSlots,      \* FRAME_POOL_SLOTS
  Presenters,  \* threads that call nv2a_pb_exec_surface (frame_pool_reacquire)
  Borrowers,   \* threads that acquire, read and release (dumps, counters)
  Producer,    \* the pusher thread
  Geoms,       \* surface geometries (w, h, bpp)
  Bytes,       \* w * h * bpp of each geometry
  AnyCaller,   \* TRUE: the whole API, beyond what snapshot_surface does with it
  MaxFrames    \* bound on the frames published

ASSUME PoolAssumption ==
  /\ NSlots \in Nat \ {0}
  /\ IsFiniteSet(Presenters) /\ IsFiniteSet(Borrowers)
  /\ Producer \notin Presenters \union Borrowers
  /\ Presenters \intersect Borrowers = {}
  /\ Bytes \in [Geoms -> Nat \ {0}]
  /\ AnyCaller \in BOOLEAN
  /\ MaxFrames \in Nat

Slots == 0 .. NSlots - 1
None == -1
SlotOrNone == Slots \union {None}

\* The threads that keep a frame between calls: a presenter in its t_held, the
\* producer in s_snap_held.
Owners == Presenters \union {Producer}

\* A reference is a variable a FramePoolSlot pointer is kept in while the slot
\* counts it.  An owner acquires the next frame before it releases the last
\* one, so it has two.
Held(r)  == <<r, "held">>
Taken(r) == <<r, "next">>
Refs == ((Owners \union Borrowers) \X {"held"}) \union (Owners \X {"next"})

VARIABLES
  published,  \* index of the published slot, or None
  seq,        \* FramePool.seq
  cap,        \* per slot: bytes allocated
  dims,       \* per slot: w, h, bpp set by the last publish of it
  frame,      \* per slot: FramePoolSlot.seq, 0 before any publish
  px,         \* per slot: what the storage holds
  readers,    \* per slot: the reference count
  writing,    \* per slot: the producer is filling it
  dropped,    \* a frame has been dropped (the counter, as a flag)
  ref,        \* the slot each reference points to
  ppc,        \* where the producer is in snapshot_surface
  cur,        \* the slot frame_pool_begin returned to it
  asked,      \* the geometry it asked for
  rpc         \* where each presenter is in frame_pool_reacquire

poolVars == <<published, seq, cap, dims, frame, px, readers, writing, dropped>>
vars == <<poolVars, ref, ppc, cur, asked, rpc>>

Pixels == [id : Nat, geom : Geoms, whole : BOOLEAN]

Init ==
  /\ published = None
  /\ seq = 0
  /\ cap = [s \in Slots |-> 0]
  /\ dims \in {[s \in Slots |-> g] : g \in Geoms}
  /\ frame = [s \in Slots |-> 0]
  /\ px = [s \in Slots |-> [id |-> 0, geom |-> dims[s], whole |-> FALSE]]
  /\ readers = [s \in Slots |-> 0]
  /\ writing = [s \in Slots |-> FALSE]
  /\ dropped = FALSE
  /\ ref = [x \in Refs |-> None]
  /\ ppc = "idle"
  /\ cur = None
  /\ asked \in Geoms
  /\ rpc = [r \in Presenters |-> "idle"]

-----------------------------------------------------------------------------
(* The producer: frame_pool_begin, the copy, frame_pool_publish.           *)

\* Fault: a slot a reader still holds counts as free.
Free_ReadersIgnored(s) == ~writing[s] /\ s # published

Free(s) == readers[s] = 0 /\ ~writing[s] /\ s # published

\* The scan takes the lowest free slot.
FirstFree(s) == Free(s) /\ \A i \in Slots : i < s => ~Free(i)

\* Fault: the scan marks one slot and returns the next.
Begin_OffByOne(g) ==
  /\ ppc = "idle"
  /\ seq < MaxFrames
  /\ \E s \in Slots :
       /\ FirstFree(s)
       /\ writing' = [writing EXCEPT ![s] = TRUE]
       /\ cur' = s + 1
  /\ asked' = g
  /\ ppc' = "size"
  /\ UNCHANGED <<published, seq, cap, dims, frame, px, readers, dropped, ref, rpc>>

Begin(g) ==
  /\ ppc = "idle"
  /\ seq < MaxFrames
  /\ \E s \in Slots :
       /\ FirstFree(s)
       /\ writing' = [writing EXCEPT ![s] = TRUE]
       /\ cur' = s
  /\ asked' = g
  /\ ppc' = "size"
  /\ UNCHANGED <<published, seq, cap, dims, frame, px, readers, dropped, ref, rpc>>

BeginDropped ==
  /\ ppc = "idle"
  /\ seq < MaxFrames
  /\ \A s \in Slots : ~Free(s)
  /\ dropped' = TRUE
  /\ UNCHANGED <<published, seq, cap, dims, frame, px, readers, writing,
                 ref, ppc, cur, asked, rpc>>

\* Outside the lock: grow the storage if the frame does not fit.
Grow ==
  /\ ppc = "size"
  /\ cap' = [cap EXCEPT ![cur] = IF @ < Bytes[asked] THEN Bytes[asked] ELSE @]
  /\ ppc' = "fill"
  /\ UNCHANGED <<published, seq, dims, frame, px, readers, writing, dropped,
                 ref, cur, asked, rpc>>

\* The producer gives up the slot it was given; nothing is published.
GiveUp ==
  /\ writing' = [writing EXCEPT ![cur] = FALSE]
  /\ ppc' = "idle"
  /\ cur' = None
  /\ UNCHANGED <<published, seq, cap, dims, frame, px, readers, ref, asked, rpc>>

GrowFailed ==
  /\ ppc = "size"
  /\ cap[cur] < Bytes[asked]
  /\ dropped' = TRUE
  /\ GiveUp

\* The rows are copied one memcpy at a time: between the two actions the
\* storage holds rows of two frames.
FillBegin ==
  /\ ppc = "fill"
  /\ px' = [px EXCEPT ![cur] = [id |-> seq + 1, geom |-> asked, whole |-> FALSE]]
  /\ ppc' = "filling"
  /\ UNCHANGED <<published, seq, cap, dims, frame, readers, writing, dropped,
                 ref, cur, asked, rpc>>

FillEnd ==
  /\ ppc = "filling"
  /\ px' = [px EXCEPT ![cur].whole = TRUE]
  /\ ppc' = "filled"
  /\ UNCHANGED <<published, seq, cap, dims, frame, readers, writing, dropped,
                 ref, cur, asked, rpc>>

\* snapshot_surface publishes at the geometry it began with.
PublishGeom(g) == g = asked \/ AnyCaller

\* Fault: a slot published before keeps its old sequence number.
Publish_StaleSeq(g) ==
  /\ ppc = "filled"
  /\ PublishGeom(g)
  /\ Bytes[g] <= cap[cur]
  /\ dims' = [dims EXCEPT ![cur] = g]
  /\ seq' = seq + 1
  /\ frame' = [frame EXCEPT ![cur] = IF @ = 0 THEN seq + 1 ELSE @]
  /\ writing' = [writing EXCEPT ![cur] = FALSE]
  /\ published' = cur
  /\ ppc' = "hold"
  /\ UNCHANGED <<cap, px, readers, dropped, ref, cur, asked, rpc>>

\* Fault: the frame is published before its rows are all copied.
Publish_Early(g) ==
  /\ ppc \in {"filling", "filled"}
  /\ PublishGeom(g)
  /\ Bytes[g] <= cap[cur]
  /\ dims' = [dims EXCEPT ![cur] = g]
  /\ seq' = seq + 1
  /\ frame' = [frame EXCEPT ![cur] = seq + 1]
  /\ writing' = [writing EXCEPT ![cur] = FALSE]
  /\ published' = cur
  /\ ppc' = "hold"
  /\ UNCHANGED <<cap, px, readers, dropped, ref, cur, asked, rpc>>

\* Fault: the size check of frame_pool_publish is missing.
Publish_Unchecked(g) ==
  /\ ppc = "filled"
  /\ PublishGeom(g)
  /\ dims' = [dims EXCEPT ![cur] = g]
  /\ seq' = seq + 1
  /\ frame' = [frame EXCEPT ![cur] = seq + 1]
  /\ writing' = [writing EXCEPT ![cur] = FALSE]
  /\ published' = cur
  /\ ppc' = "hold"
  /\ UNCHANGED <<cap, px, readers, dropped, ref, cur, asked, rpc>>

Publish(g) ==
  /\ ppc = "filled"
  /\ PublishGeom(g)
  /\ Bytes[g] <= cap[cur]
  /\ dims' = [dims EXCEPT ![cur] = g]
  /\ seq' = seq + 1
  /\ frame' = [frame EXCEPT ![cur] = seq + 1]
  /\ writing' = [writing EXCEPT ![cur] = FALSE]
  /\ published' = cur
  /\ ppc' = "hold"
  /\ UNCHANGED <<cap, px, readers, dropped, ref, cur, asked, rpc>>

PublishRefused(g) ==
  /\ ppc = "filled"
  /\ PublishGeom(g)
  /\ Bytes[g] > cap[cur]
  /\ dropped' = TRUE
  /\ GiveUp

\* frame_pool_abandon has no caller in snapshot_surface.
Abandon ==
  /\ AnyCaller
  /\ ppc \in {"fill", "filling", "filled"}
  /\ UNCHANGED dropped
  /\ GiveUp

-----------------------------------------------------------------------------
(* References: frame_pool_acquire and frame_pool_release.                  *)

Acquire(x) ==
  IF published = None
  THEN UNCHANGED <<ref, readers>>
  ELSE /\ ref' = [ref EXCEPT ![x] = published]
       /\ readers' = [readers EXCEPT ![published] = @ + 1]

\* The count after one release of h.
Released(h) ==
  IF h = None
  THEN readers
  ELSE [readers EXCEPT ![h] = IF @ > 0 THEN @ - 1 ELSE @]

Release(x) ==
  /\ readers' = Released(ref[x])
  /\ ref' = [ref EXCEPT ![x] = None]

\* Fault: the last frame is never given back.
SwapRefs_NoRelease(r) ==
  /\ UNCHANGED readers
  /\ ref' = [ref EXCEPT ![Held(r)] = ref[Taken(r)], ![Taken(r)] = None]

\* Give the last frame back and keep the one taken after it.
SwapRefs(r) ==
  /\ readers' = Released(ref[Held(r)])
  /\ ref' = [ref EXCEPT ![Held(r)] = ref[Taken(r)], ![Taken(r)] = None]

\* Up to here flight_flip reads cur with no reference; the producer then takes
\* one, and only then drops the frame before it.
ProducerTake ==
  /\ ppc = "hold"
  /\ Acquire(Taken(Producer))
  /\ cur' = None
  /\ ppc' = "swap"
  /\ UNCHANGED <<published, seq, cap, dims, frame, px, writing, dropped, asked, rpc>>

ProducerSwap ==
  /\ ppc = "swap"
  /\ SwapRefs(Producer)
  /\ ppc' = "idle"
  /\ UNCHANGED <<published, seq, cap, dims, frame, px, writing, dropped,
                 cur, asked, rpc>>

PresenterTake(r) ==
  /\ rpc[r] = "idle"
  /\ Acquire(Taken(r))
  /\ rpc' = [rpc EXCEPT ![r] = "swap"]
  /\ UNCHANGED <<published, seq, cap, dims, frame, px, writing, dropped,
                 ppc, cur, asked>>

PresenterSwap(r) ==
  /\ rpc[r] = "swap"
  /\ SwapRefs(r)
  /\ rpc' = [rpc EXCEPT ![r] = "idle"]
  /\ UNCHANGED <<published, seq, cap, dims, frame, px, writing, dropped,
                 ppc, cur, asked>>

Borrow(b) ==
  /\ ref[Held(b)] = None
  /\ Acquire(Held(b))
  /\ UNCHANGED <<published, seq, cap, dims, frame, px, writing, dropped,
                 ppc, cur, asked, rpc>>

Return(b) ==
  /\ ref[Held(b)] # None
  /\ Release(Held(b))
  /\ UNCHANGED <<published, seq, cap, dims, frame, px, writing, dropped,
                 ppc, cur, asked, rpc>>

-----------------------------------------------------------------------------
ProducerStep ==
  \/ \E g \in Geoms : Begin(g)
  \/ BeginDropped
  \/ Grow
  \/ GrowFailed
  \/ FillBegin
  \/ FillEnd
  \/ \E g \in Geoms : Publish(g)
  \/ \E g \in Geoms : PublishRefused(g)
  \/ Abandon
  \/ ProducerTake
  \/ ProducerSwap

ReaderStep ==
  \/ \E r \in Presenters : PresenterTake(r)
  \/ \E r \in Presenters : PresenterSwap(r)
  \/ \E b \in Borrowers : Borrow(b)
  \/ \E b \in Borrowers : Return(b)

Next == ProducerStep \/ ReaderStep

Spec == Init /\ [][Next]_vars

-----------------------------------------------------------------------------
(* Properties.                                                             *)

\* Type invariant of the pool and of the callers' program counters.
TypeOK ==
  /\ published \in SlotOrNone
  /\ seq \in Nat
  /\ cap \in [Slots -> Nat]
  /\ dims \in [Slots -> Geoms]
  /\ frame \in [Slots -> Nat]
  /\ px \in [Slots -> Pixels]
  /\ readers \in [Slots -> Nat]
  /\ writing \in [Slots -> BOOLEAN]
  /\ dropped \in BOOLEAN
  /\ ref \in [Refs -> SlotOrNone]
  /\ ppc \in {"idle", "size", "fill", "filling", "filled", "hold", "swap"}
  /\ cur \in SlotOrNone
  /\ asked \in Geoms
  /\ rpc \in [Presenters -> {"idle", "swap"}]

\* "Every frame handed out is internally consistent" (frame_pool_test.c): the
\* pixels of a slot somebody holds are one finished copy, made for the sequence
\* number and at the geometry the slot carries.
HeldFrameWhole ==
  \A x \in Refs : ref[x] # None =>
    px[ref[x]] = [id |-> frame[ref[x]], geom |-> dims[ref[x]], whole |-> TRUE]

\* A reader computes w*h*bpp and indexes px with it: whatever the callers pass
\* to begin and publish, that stays inside the storage of the slot.
HeldStorageCovers ==
  \A x \in Refs : ref[x] # None => Bytes[dims[ref[x]]] <= cap[ref[x]]

\* No step of any thread reallocates, rewrites or relabels a slot while a
\* reference to it lives on across the step.
HeldFrameFrozen ==
  [][\A x \in Refs : ref[x] # None /\ ref'[x] = ref[x] =>
       LET s == ref[x] IN
         /\ cap'[s] = cap[s]
         /\ dims'[s] = dims[s]
         /\ frame'[s] = frame[s]
         /\ px'[s] = px[s]]_vars

\* The reference count of a slot is the number of references to it: no release
\* is lost to the "readers > 0" guard, and no slot is pinned for ever.
RefCountExact ==
  \A s \in Slots : readers[s] = Cardinality({x \in Refs : ref[x] = s})

\* What an owner shows next is never older than what it showed before.
NeverShowsOlder ==
  [][\A r \in Owners :
       LET old == ref[Held(r)]
           new == ref'[Held(r)]
       IN old # None /\ new # None => frame'[new] >= frame[old]]_vars

\* The slot count is enough: a producer that wants a slot finds one.
SlotForNextFrame == ppc = "idle" => \E s \in Slots : Free(s)

\* The pool is a register of the latest frame, and what a reference shows does
\* not change until it is given back.
NoFrame == [seq |-> 0]
FrameOf(s) ==
  IF s = None THEN NoFrame
              ELSE [seq |-> frame[s], geom |-> dims[s], pixels |-> px[s]]

Latest == INSTANCE LatestFrame
  WITH Frames <- [seq : Nat \ {0}, geom : Geoms, pixels : Pixels],
       latest <- FrameOf(published),
       view   <- [x \in Refs |-> FrameOf(ref[x])]

ImplementsLatestFrame == Latest!Spec

=============================================================================
