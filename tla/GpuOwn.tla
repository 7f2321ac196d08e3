------------------------------- MODULE GpuOwn -------------------------------
(***************************************************************************)
(* Which guest memory the GPU owes pixels to (recomp_gpu_own.c, its two    *)
(* ends in nv2a_d3d11.c and XBOX_PTR in recomp_types.h).  A draw leaves    *)
(* pixels pending in a retained surface; publish_ownership counts it in a  *)
(* map of granules, at every alias of its memory; a guest access tests its *)
(* granule's count and, if it is not zero, has the surface written back.   *)
(* Everything but that test runs under the device lock, and publishing is  *)
(* the last thing each call does before it lets it go.                     *)
(***************************************************************************)
EXTENDS Naturals, FiniteSets

CONSTANTS
  NSurfaces,    \* SURFACE_CACHE_SIZE
  Targets,      \* render targets: [lo, size], in bytes of RAM
  RamBytes,     \* RAM
  Windows,      \* guest windows on to it, 0 the RAM itself
  Granule,      \* bytes of a granule (64 KB)
  MaxAccess,    \* RECOMP_GPU_OWN_MAX_ACCESS
  MaxCount      \* the count that sticks (0xFF)

ASSUME GpuOwnAssumption ==
  /\ NSurfaces \in Nat \ {0} /\ RamBytes \in Nat /\ Granule \in Nat \ {0}
  /\ MaxAccess \in Nat \ {0} /\ MaxCount \in Nat \ {0}
  /\ Windows \in Nat
  /\ Targets \subseteq [lo : 0..RamBytes - 1, size : 1..RamBytes]

VARIABLES
  surface,    \* each cached surface's target and whether its pixels are pending
  held,       \* own_ram: the target it last armed the map for
  counts,     \* g_recomp_gpu_own_map
  device,     \* the surface that publishing is at, or 0: the lock is free
  touch       \* the guest access in flight: [pc, va]

goVars == <<surface, held, counts, device, touch>>

Surfaces == 1..NSurfaces
NoTarget == [lo |-> 0, size |-> 0]
Granules == 0..((Windows + 1) * RamBytes - 1) \div Granule
Addresses == 0..(Windows + 1) * RamBytes - 1
NoTouch == [pc |-> "none", va |-> 0]

GoInit ==
  /\ surface = [s \in Surfaces |-> [target |-> NoTarget, pending |-> FALSE]]
  /\ held = [s \in Surfaces |-> NoTarget]
  /\ counts = [g \in Granules |-> 0]
  /\ device = 0
  /\ touch = NoTouch

\* slot_span: one access width wider at the low end.
SlotSpan_Exact(va, bytes) == (va \div Granule)..((va + bytes - 1) \div Granule)
SlotSpan(va, bytes) ==
  (IF va > MaxAccess - 1 THEN (va - (MaxAccess - 1)) \div Granule ELSE 0)
    ..((va + bytes - 1) \div Granule)

\* adjust_all_aliases: how often the range covers a granule.
Covers(t, g) ==
  Cardinality({w \in 0..Windows : t.size > 0 /\ g \in SlotSpan(w * RamBytes + t.lo, t.size)})

Overlaps(t, at, bytes) == t.lo < at + bytes /\ at < t.lo + t.size

-----------------------------------------------------------------------------
(* Calls of the renderer, and of the runtime where it knows what it reads. *)

\* A draw into a target: its surface, else a free one, else one that is
\* written back for it.
Draw(t) ==
  /\ device = 0 /\ device' = 1
  /\ \E s \in Surfaces :
       /\ \/ surface[s].target = t
          \/ /\ \A u \in Surfaces : surface[u].target # t
             /\ \/ surface[s].target = NoTarget
                \/ \A u \in Surfaces : surface[u].target # NoTarget
       /\ surface' = [surface EXCEPT ![s] = [target |-> t, pending |-> TRUE]]
  /\ UNCHANGED <<held, counts, touch>>

\* A surface that cannot be mapped stays pending.
WriteBack(S) ==
  /\ device = 0 /\ device' = 1
  /\ \E done \in SUBSET S :
       surface' = [s \in Surfaces |->
         IF s \in done THEN [target |-> surface[s].target, pending |-> FALSE] ELSE surface[s]]

SyncAll ==            \* nv2a_d3d11_sync
  /\ WriteBack(Surfaces)
  /\ UNCHANGED <<held, counts, touch>>

SyncRange ==          \* nv2a_d3d11_sync_range of a target
  /\ \E t \in Targets : WriteBack({s \in Surfaces : Overlaps(surface[s].target, t.lo, t.size)})
  /\ UNCHANGED <<held, counts, touch>>

-----------------------------------------------------------------------------
(* publish_ownership: one surface at a time.                               *)

Want(s) == IF surface[s].pending THEN surface[s].target ELSE NoTarget

\* map_adjust: saturating up, and never down from the top.
Lower(n, k) == IF n = MaxCount THEN n ELSE IF n < k THEN 0 ELSE n - k
Raise(n, k) == IF n + k > MaxCount THEN MaxCount ELSE n + k

PublishSurface ==
  /\ device > 0
  /\ device' = (device + 1) % (NSurfaces + 1)
  /\ held' = [held EXCEPT ![device] = Want(device)]
  /\ counts' = IF held[device] = Want(device) THEN counts
               ELSE [g \in Granules |->
                 Raise(Lower(counts[g], Covers(held[device], g)), Covers(Want(device), g))]
  /\ UNCHANGED <<surface, touch>>

-----------------------------------------------------------------------------
(* XBOX_PTR in translated code.                                            *)

Touch(va) ==
  /\ touch.pc = "none" /\ counts[va \div Granule] > 0
  /\ touch' = [pc |-> "sync", va |-> va]
  /\ UNCHANGED <<surface, held, counts, device>>

\* recomp_gpu_own_reconcile: the host pointer of the address that was used.
Reconcile ==
  /\ touch.pc = "sync"
  /\ WriteBack({s \in Surfaces : Overlaps(surface[s].target, touch.va, MaxAccess)})
  /\ touch' = NoTouch
  /\ UNCHANGED <<held, counts>>

GoNext ==
  \/ \E t \in Targets : Draw(t)
  \/ SyncAll \/ SyncRange \/ PublishSurface
  \/ (\E va \in Addresses : Touch(va)) \/ Reconcile

GoSpec == GoInit /\ [][GoNext]_goVars

-----------------------------------------------------------------------------

\* Whatever window an access goes through and however far below a surface it
\* starts, if it reaches into pixels that are still on the GPU its granule is
\* armed: "Arming every alias of a range is what makes the observer complete".
OwedIsArmed ==
  device = 0 => \A s \in Surfaces, w \in 0..Windows, a \in 0..RamBytes - 1 :
    surface[s].pending /\ Overlaps(surface[s].target, a, MaxAccess)
      => counts[(w * RamBytes + a) \div Granule] > 0

=============================================================================
