------------------------------ MODULE GuestHeap ------------------------------
(***************************************************************************)
(* The guest heap (xbox_memory_layout.c): a frontier that only moves up    *)
(* and a table of blocks in address order, from which freed blocks are     *)
(* served again.  Merged blocks stay in the table as entries of size 0.    *)
(* Contiguous memory, pool blocks and thread stacks all come from it.      *)
(* A call is one step: nothing in the code keeps two threads out of it.    *)
(* Addresses are in units of the smallest block (16 bytes).                *)
(***************************************************************************)
EXTENDS Naturals, Sequences, FiniteSets

CONSTANTS
  HeapBase, HeapTop,   \* XBOX_HEAP_BASE, XBOX_HEAP_TOP
  MaxBlocks,           \* XBOX_HEAP_MAX_BLOCKS
  SplitMin,            \* XBOX_HEAP_SPLIT_MIN
  Page,                \* 4096 bytes
  Mirror,              \* where the physical view of low memory begins
  Sizes,               \* sizes the title asks for
  StackMin, StackMax,  \* XBOX_THREAD_STACK_MIN, XBOX_THREAD_STACK_SIZE
  MaxStacks            \* XBOX_MAX_THREAD_STACKS

ASSUME HeapAssumption ==
  /\ HeapBase \in Nat \ {0} /\ HeapTop \in Nat /\ HeapBase < HeapTop
  /\ MaxBlocks \in Nat /\ SplitMin \in Nat \ {0} /\ Page \in Nat \ {0}
  /\ Mirror \in Nat /\ Mirror >= HeapTop
  /\ Sizes \subseteq Nat \ {0}
  /\ StackMin \in Nat \ {0} /\ StackMax \in Nat /\ StackMin =< StackMax
  /\ MaxStacks \in Nat

VARIABLES
  blocks,   \* g_heap_blocks
  next,     \* g_heap_next
  owned,    \* what the title holds: [va, size, align]
  stacks,   \* g_thread_stack_sizes: [top, bytes]
  refused   \* the request that has just returned 0, or Nothing

heapVars == <<blocks, next, owned, stacks, refused>>

Nothing == [size |-> 0, align |-> 1]
Block == [addr : Nat, size : Nat, req : Nat, free : BOOLEAN]

HeapInit ==
  /\ blocks = <<>>
  /\ next = HeapBase
  /\ owned = {}
  /\ stacks = {}
  /\ refused = Nothing

Up(n, align) == ((n + align - 1) \div align) * align
End(b) == b.addr + b.size
Entries(B) == {i \in 1..Len(B) : B[i].size > 0}
LeastOf(S) == CHOOSE i \in S : \A j \in S : i =< j
LastOf(S) == CHOOSE i \in S : \A j \in S : j =< i

\* heap_canonical_va: the mirror names the same memory.
Canonical_Identity(va) == va
Canonical(va) == IF va >= Mirror THEN va - Mirror ELSE va

-----------------------------------------------------------------------------
(* xbox_HeapAlloc.                                                         *)

\* heap_absorb_frontier: does the last block reach the untouched arena?
Absorbs ==
  /\ next < HeapTop /\ Entries(blocks) # {}
  /\ LET last == blocks[LastOf(Entries(blocks))] IN last.free /\ End(last) = next

Absorbed ==
  IF Absorbs
    THEN LET i == LastOf(Entries(blocks)) IN
           [blocks EXCEPT ![i].size = HeapTop - blocks[i].addr]
    ELSE blocks

Lead(b, align) == Up(b.addr, align) - b.addr
Fits(B, i, size, align) ==
  /\ B[i].free /\ B[i].size >= Lead(B[i], align) + size
  /\ Lead(B[i], align) > 0 => Len(B) + 2 =< MaxBlocks

\* What is left behind the request is worth an entry, and there is one.
Splits(avail, kept, entries) == avail >= kept + SplitMin /\ entries < MaxBlocks

\* The piece before the boundary stays free, and so does what is split off.
Pieces(B, i, size, align) ==
  LET b == B[i] kept == Up(size, align) at == b.addr + Lead(b, align)
      avail == b.size - Lead(b, align)
      first == IF at > b.addr THEN <<[b EXCEPT !.size = at - b.addr]>> ELSE <<>>
      taken(n) == [addr |-> at, size |-> n, req |-> size, free |-> FALSE]
      spare == [addr |-> at + kept, size |-> avail - kept, req |-> 0, free |-> TRUE] IN
  IF Splits(avail, kept, Len(B) + Len(first))
    THEN first \o <<taken(kept), spare>>
    ELSE Append(first, taken(avail))

Reuse(size, align, view, B, i) ==
  /\ blocks' = SubSeq(B, 1, i - 1) \o Pieces(B, i, size, align) \o SubSeq(B, i + 1, Len(B))
  /\ owned' = owned \cup {[va |-> view + Up(B[i].addr, align), size |-> size, align |-> align]}
  /\ next' = IF Absorbs THEN HeapTop ELSE next
  /\ refused' = Nothing

\* From the frontier; a full table does not record the block.
Bump(size, align, view) ==
  LET at == Up(next, align) IN
  /\ blocks' = IF Len(blocks) < MaxBlocks
                 THEN Append(blocks, [addr |-> at, size |-> size, req |-> size, free |-> FALSE])
                 ELSE blocks
  /\ owned' = owned \cup {[va |-> view + at, size |-> size, align |-> align]}
  /\ next' = at + size
  /\ refused' = Nothing

Refuse(size, align) ==
  /\ blocks' = Absorbed
  /\ next' = IF Absorbs THEN HeapTop ELSE next
  /\ refused' = [size |-> size, align |-> align]
  /\ UNCHANGED owned

HeapAlloc(size, align, view) ==
  LET B == Absorbed
      found == {i \in 1..Len(B) : Fits(B, i, size, align)}
      room == ~ Absorbs /\ Up(next, align) + size =< HeapTop IN
  \/ found # {} /\ Reuse(size, align, view, B, LeastOf(found))
  \/ found = {} /\ room /\ Bump(size, align, view)
  \/ found = {} /\ ~ room /\ Refuse(size, align)

-----------------------------------------------------------------------------
(* xbox_HeapFree.                                                          *)

\* The nearest entry that still describes a block.
After_NextIndex(B, i) == Entries(B) \cap {i + 1}
After(B, i) == LET S == {j \in Entries(B) : j > i} IN IF S = {} THEN {} ELSE {LeastOf(S)}
Before(B, i) == LET S == {j \in Entries(B) : j < i} IN IF S = {} THEN {} ELSE {LastOf(S)}

Joins(B, i, j) == B[i].free /\ B[j].free /\ End(B[i]) = B[j].addr
\* Entry j becomes a hole, and the flag stays.
Merge(B, i, j) ==
  [k \in 1..Len(B) |->
     IF k = i THEN [B[i] EXCEPT !.size = B[i].size + B[j].size]
     ELSE IF k = j THEN [B[j] EXCEPT !.size = 0, !.addr = 0] ELSE B[k]]

Freed(B, i) ==
  LET marked == [B EXCEPT ![i] = [B[i] EXCEPT !.free = TRUE, !.req = 0]]
      up == {j \in After(marked, i) : Joins(marked, i, j)}
      grown == IF up = {} THEN marked ELSE Merge(marked, i, LeastOf(up))
      down == {j \in Before(grown, i) : Joins(grown, j, i)} IN
  IF down = {} THEN grown ELSE Merge(grown, LeastOf(down), i)

HeapFree(va) ==
  LET match == {i \in Entries(blocks) : blocks[i].addr = Canonical(va) /\ ~ blocks[i].free} IN
  /\ blocks' = IF match = {} THEN blocks ELSE Freed(blocks, LeastOf(match))
  /\ refused' = Nothing

-----------------------------------------------------------------------------
(* The callers.                                                            *)

\* MmAllocateContiguousMemory, whose address is in the mirror.
ContiguousAlloc(size) == HeapAlloc(size, Page, Mirror) /\ UNCHANGED stacks
\* ExAllocatePool.
PoolAlloc(size) == HeapAlloc(size, 1, 0) /\ UNCHANGED stacks

Tops == {s.top : s \in stacks}
StackBase(s) == s.top + 1 - s.bytes
Low(o) == o.va % Mirror
Holds(o, va) == Low(o) = va % Mirror

\* MmFreeContiguousMemory and ExFreePool: an address the title holds, through
\* either window, or one that nothing was allocated at.
Free(va) ==
  /\ \A s \in stacks : va % Mirror # StackBase(s)
  /\ HeapFree(va)
  /\ owned' = {o \in owned : ~ Holds(o, va)}
  /\ UNCHANGED <<next, stacks>>

StackBytes(asked) ==
  Up(IF asked < StackMin THEN StackMin ELSE IF asked > StackMax THEN StackMax ELSE asked, Page)

\* xbox_AllocThreadStack remembers the size under the top it hands out.
AllocThreadStack(asked) ==
  LET bytes == StackBytes(asked) IN
  /\ Cardinality(stacks) < MaxStacks
  /\ HeapAlloc(bytes, Page, 0)
  /\ stacks' = stacks \cup {[top |-> o.va + bytes - 1, bytes |-> bytes] : o \in owned' \ owned}

FreeThreadStack ==
  \E s \in stacks :
    /\ HeapFree(StackBase(s))
    /\ owned' = {o \in owned : ~ Holds(o, s.top + 1 - s.bytes)}
    /\ stacks' = stacks \ {s}
    /\ UNCHANGED next

HeapNext ==
  \/ \E n \in Sizes : ContiguousAlloc(n) \/ PoolAlloc(n) \/ AllocThreadStack(n)
  \/ (\E va \in {Low(o) : o \in owned} \cup {HeapBase - 1} : Free(va) \/ Free(va + Mirror))
  \/ FreeThreadStack

HeapSpec == HeapInit /\ [][HeapNext]_heapVars

-----------------------------------------------------------------------------

\* Types of the table and of what the title holds.
HeapTypeOK ==
  /\ blocks \in Seq(Block) /\ Len(blocks) =< MaxBlocks
  /\ next \in HeapBase..HeapTop
  /\ \A o \in owned : o.size \in Nat /\ Low(o) \in HeapBase..HeapTop - 1
  /\ Cardinality(stacks) =< MaxStacks

Recorded == Len(blocks) < MaxBlocks      \* the table has never been full

\* No two holdings of the title overlap, none reaches into a block that would
\* be handed out again or past the frontier, and as long as the table has not
\* been full every live block is a holding and every holding a live block:
\* a thread's stack is given back whole, and through either window.
HoldingsApart ==
  /\ \A o, p \in owned : o = p \/ Low(o) + o.size =< Low(p)
                                \/ Low(p) + p.size =< Low(o)
  /\ \A o \in owned :
       /\ Low(o) + o.size =< next
       /\ \A i \in Entries(blocks) : blocks[i].free =>
            Low(o) + o.size =< blocks[i].addr \/ End(blocks[i]) =< Low(o)
  /\ Recorded => {Low(o) : o \in owned} =
                   {blocks[i].addr : i \in {j \in Entries(blocks) : ~ blocks[j].free}}

FreeUnit(u) ==
  u >= next \/ \E i \in Entries(blocks) :
                 blocks[i].free /\ blocks[i].addr =< u /\ u < End(blocks[i])
RoomFor(size, align) ==
  \E a \in HeapBase..HeapTop : a % align = 0 /\ a + size =< HeapTop
                               /\ \A u \in a..a + size - 1 : FreeUnit(u)

\* A request is refused only if no aligned run of free memory is long enough,
\* the untouched arena counted with the free block below it: "no single piece
\* of which was large enough -- while the two largest pieces were adjacent".
ServedIfRoom ==
  refused # Nothing /\ Len(blocks) + 1 < MaxBlocks => ~ RoomFor(refused.size, refused.align)

=============================================================================
