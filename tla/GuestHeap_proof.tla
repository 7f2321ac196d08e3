--------------------------- MODULE GuestHeap_proof ---------------------------
(***************************************************************************)
(* The guest heap, for any arena, any table and any calls: two holdings    *)
(* share no byte, and a request that is refused found the table full or no *)
(* run of free memory long enough.                                         *)
(*                                                                         *)
(* The inductive invariant HeapInv says of the table that its blocks lie   *)
(* in the order of their addresses, that no two free ones touch, that no   *)
(* holding reaches into a block that is free or another's, and that while  *)
(* the table is not full every holding has its block there and every live  *)
(* block its holding.                                                      *)
(***************************************************************************)
EXTENDS GuestHeap, Integers, FiniteSetTheorems, WellFoundedInduction, TLAPS

\* Division and remainder, of a number and back.
LEMMA DivMod ==
  ASSUME NEW n \in Nat, NEW a \in Nat \ {0}
  PROVE  \E d \in Nat, r \in 0..a-1 : d = n \div a /\ r = n % a /\ n = d * a + r
<1>1. n % a \in 0..a-1
  OBVIOUS
<1>2. n \div a \in Int
  OBVIOUS
<1>3. n - a * (n \div a) = n % a
  OBVIOUS
<1> DEFINE d == n \div a
           r == n % a
<1>4. d \in Int /\ r \in 0..a-1 /\ n - a * d = r
  BY <1>1, <1>2, <1>3
<1> HIDE DEF d, r
<1>5. d >= 0
  BY <1>4
<1>6. n = d * a + r
  BY <1>4
<1>7. d \in Nat /\ d = n \div a /\ r = n % a
  BY <1>4, <1>5 DEF d, r
<1> QED BY <1>4, <1>6, <1>7

LEMMA DivModOf ==
  ASSUME NEW q \in Nat, NEW a \in Nat \ {0}, NEW r \in 0..a-1
  PROVE  (q * a + r) % a = r /\ (q * a + r) \div a = q
OBVIOUS

\* The first multiple of a that is not below n, and the last that is not above.
LEMMA UpIs ==
  ASSUME NEW n \in Nat, NEW a \in Nat \ {0}
  PROVE  /\ Up(n, a) \in Nat /\ n =< Up(n, a) /\ Up(n, a) % a = 0
         /\ \A m \in Nat : n =< m /\ m % a = 0 => Up(n, a) =< m
<1>1. PICK q \in Nat, r \in 0..a-1 : q = (n + a - 1) \div a /\ n + a - 1 = q * a + r
  BY DivMod
<1>2. Up(n, a) = q * a
  BY <1>1 DEF Up
<1>3. q * a \in Nat
  BY <1>1
<1>4. n =< q * a
  BY <1>1, <1>3
<1>5. (q * a) % a = 0
  <2>1. 0 \in 0..a-1 /\ q * a + 0 = q * a
    BY <1>1, <1>3
  <2>2. (q * a + 0) % a = 0
    BY <1>1, <2>1, DivModOf
  <2> QED BY <2>1, <2>2
<1>6. ASSUME NEW m \in Nat, n =< m, m % a = 0 PROVE q * a =< m
  <2>1. PICK k \in Nat : m = k * a
    BY <1>6, DivMod
  <2>2. q =< k
    <3>1. q * a =< k * a + a - 1
      BY <1>1, <1>6, <2>1
    <3>2. CASE k + 1 =< q
      <4>1. (k + 1) * a =< q * a
        BY <1>1, <3>2, <2>1
      <4> QED BY <3>1, <4>1, <1>1
    <3> QED BY <1>1, <3>2
  <2> QED BY <1>1, <2>1, <2>2
<1> QED BY <1>2, <1>3, <1>4, <1>5, <1>6

LEMMA LowIs ==
  ASSUME NEW at \in Nat, at < HeapTop, NEW view \in {0, Mirror}
  PROVE  (view + at) % Mirror = at /\ view + at \in Nat
<1>1. Mirror \in Nat \ {0} /\ at \in 0..Mirror-1
  BY HeapAssumption
<1>2. (0 * Mirror + at) % Mirror = at /\ (1 * Mirror + at) % Mirror = at
  BY <1>1, DivModOf
<1> QED BY <1>1, <1>2

-----------------------------------------------------------------------------
(* The invariant. *)

\* Two stretches of memory share no unit.
Misses(b, c) == End(b) =< c.addr \/ End(c) =< b.addr
Span(o) == [addr |-> Low(o), size |-> o.size]

\* The table B below the frontier n: its blocks lie in the arena, in order.
Laid(B, n) ==
  /\ B \in Seq(Block) /\ Len(B) =< MaxBlocks /\ n \in HeapBase..HeapTop
  /\ \A i \in 1..Len(B) : B[i].size > 0 => HeapBase =< B[i].addr /\ End(B[i]) =< n
  /\ \A i, j \in 1..Len(B) :
       i < j /\ B[i].size > 0 /\ B[j].size > 0 => End(B[i]) =< B[j].addr

\* Free neighbours have been merged.
Whole(B) ==
  \A i, j \in 1..Len(B) :
    B[i].size > 0 /\ B[j].size > 0 /\ B[i].free /\ B[j].free => End(B[i]) # B[j].addr

\* The holdings H lie below the frontier and apart.
Held(H, n) ==
  /\ \A o \in H : /\ o.va \in Nat /\ o.size \in Nat \ {0} /\ Low(o) \in Nat
                  /\ HeapBase =< Low(o) /\ Low(o) + o.size =< n
  /\ \A o, p \in H : o = p \/ Misses(Span(o), Span(p))

\* A holding meets no block but its own.
Lives(b, o) == ~ b.free /\ b.addr = Low(o) /\ o.size =< b.size
Meet(B, H) ==
  \A o \in H : \A i \in 1..Len(B) : B[i].size > 0 => Misses(Span(o), B[i]) \/ Lives(B[i], o)

\* As long as the table has not been full, live blocks are the holdings.
Recording(B, H) ==
  Len(B) < MaxBlocks =>
    /\ \A o \in H : \E i \in 1..Len(B) : B[i].size > 0 /\ Lives(B[i], o)
    /\ \A i \in 1..Len(B) : B[i].size > 0 /\ ~ B[i].free => \E o \in H : Low(o) = B[i].addr

Kept(B, n, H) == Laid(B, n) /\ Held(H, n) /\ Meet(B, H) /\ Recording(B, H)

StacksOK ==
  /\ IsFiniteSet(stacks) /\ Cardinality(stacks) =< MaxStacks
  /\ \A s \in stacks : StackBase(s) \in HeapBase..HeapTop - 1

HeapInv == Kept(blocks, next, owned) /\ Whole(blocks) /\ StacksOK /\ ServedIfRoom

-----------------------------------------------------------------------------
(* Least and last. *)

LEMMA LeastIs ==
  ASSUME NEW S \in SUBSET Nat, S # {}
  PROVE  LeastOf(S) \in S /\ \A j \in S : LeastOf(S) =< j
<1> DEFINE Less == OpToRel(<, Nat)
<1>1. \A i, j \in Nat : <<j, i>> \in Less <=> j < i
  BY DEF OpToRel
<1>2. IsWellFoundedOn(Less, Nat)
  BY NatLessThanWellFounded
<1> HIDE DEF Less
<1>3. PICK i \in S : \A j \in S : ~ (<<j, i>> \in Less)
  BY <1>2, WFMin
<1>4. \A j \in S : i =< j
  <2> SUFFICES ASSUME NEW j \in S PROVE i =< j
    OBVIOUS
  <2>1. i \in Nat /\ j \in Nat /\ ~ (j < i)
    BY <1>1, <1>3
  <2> QED BY <2>1
<1> QED BY <1>4 DEF LeastOf

LEMMA LastIs ==
  ASSUME NEW n \in Nat, NEW S \in SUBSET (1..n), S # {}
  PROVE  LastOf(S) \in S /\ \A j \in S : j =< LastOf(S)
<1> DEFINE T == {n - i : i \in S}
<1>1. T \in SUBSET Nat /\ T # {}
  <2>1. \A i \in S : i \in 1..n /\ n - i \in Nat
    OBVIOUS
  <2> QED BY <2>1
<1>2. LeastOf(T) \in T /\ \A j \in T : LeastOf(T) =< j
  BY <1>1, LeastIs
<1>3. PICK i \in S : LeastOf(T) = n - i
  BY <1>2
<1>4. \A j \in S : j =< i
  <2> SUFFICES ASSUME NEW j \in S PROVE j =< i
    OBVIOUS
  <2>1. n - j \in T
    OBVIOUS
  <2>2. n - i =< n - j
    BY <1>2, <1>3, <2>1
  <2> QED BY <2>2
<1> QED BY <1>4 DEF LastOf

LEMMA EntriesAre ==
  ASSUME NEW B
  PROVE  Entries(B) \in SUBSET (1..Len(B)) /\ \A i \in 1..Len(B) : i \in Entries(B) <=> B[i].size > 0
BY DEF Entries

\* What the provers need to know of an entry.
LEMMA BlockIs ==
  ASSUME NEW B \in Seq(Block), NEW l \in 1..Len(B)
  PROVE  /\ B[l] \in Block /\ B[l].addr \in Nat /\ B[l].size \in Nat
         /\ B[l].free \in BOOLEAN /\ End(B[l]) = B[l].addr + B[l].size
<1>1. B[l] \in Block
  OBVIOUS
<1>2. B[l].addr \in Nat /\ B[l].size \in Nat /\ B[l].free \in BOOLEAN
  BY <1>1 DEF Block
<1> QED BY <1>1, <1>2 DEF End

\* The neighbours of entry i that a block next to it can be.
LEMMA AfterIs ==
  ASSUME NEW B \in Seq(Block), NEW i \in 1..Len(B)
  PROVE  /\ \A j \in After(B, i) : j \in 1..Len(B) /\ B[j].size > 0 /\ i < j
         /\ \A k \in 1..Len(B) :
              /\ k # i /\ B[i].size > 0 /\ B[k].size > 0 /\ B[k].addr = End(B[i])
              /\ \A l, m \in 1..Len(B) :
                   l < m /\ B[l].size > 0 /\ B[m].size > 0 => End(B[l]) =< B[m].addr
              => k \in After(B, i)
<1> DEFINE S == {j \in Entries(B) : j > i}
<1>1. S \in SUBSET Nat /\ S \in SUBSET (1..Len(B)) /\ \A j \in S : B[j].size > 0 /\ i < j
  BY DEF Entries
<1>2. After(B, i) = IF S = {} THEN {} ELSE {LeastOf(S)}
  BY DEF After
<1>3. ASSUME NEW k \in 1..Len(B), k # i, B[i].size > 0, B[k].size > 0, B[k].addr = End(B[i]),
             \A l, m \in 1..Len(B) :
               l < m /\ B[l].size > 0 /\ B[m].size > 0 => End(B[l]) =< B[m].addr
      PROVE  k \in After(B, i)
  <2>1. \A l \in 1..Len(B) : B[l].addr \in Nat /\ B[l].size \in Nat /\ End(B[l]) = B[l].addr + B[l].size
    BY BlockIs
  <2>2. i < k
    <3>1. CASE k < i
      <4>1. End(B[k]) =< B[i].addr
        BY <1>3, <3>1
      <4> QED BY <1>3, <2>1, <4>1
    <3> QED BY <1>3, <3>1
  <2>3. k \in S
    BY <1>3, <2>2 DEF Entries
  <2>4. LeastOf(S) \in S /\ LeastOf(S) =< k
    BY <1>1, <2>3, LeastIs
  <2> HIDE DEF S
  <2>5. PICK l \in S : l = LeastOf(S)
    BY <2>4
  <2>6. l \in 1..Len(B) /\ B[l].size > 0 /\ i < l /\ l =< k
    BY <1>1, <2>4, <2>5
  <2>7. CASE l < k
    <3>1. End(B[i]) =< B[l].addr /\ End(B[l]) =< B[k].addr
      BY <1>3, <2>6, <2>7
    <3> QED BY <1>3, <2>1, <2>6, <3>1
  <2> QED BY <1>2, <2>3, <2>5, <2>6, <2>7
<1>4. ASSUME NEW j \in After(B, i) PROVE j \in S
  <2>1. S # {} /\ j = LeastOf(S)
    BY <1>2, <1>4
  <2> QED BY <1>1, <2>1, LeastIs
<1> HIDE DEF S
<1> QED BY <1>1, <1>3, <1>4

LEMMA BeforeIs ==
  ASSUME NEW B \in Seq(Block), NEW i \in 1..Len(B)
  PROVE  /\ \A j \in Before(B, i) : j \in 1..Len(B) /\ B[j].size > 0 /\ j < i
         /\ \A k \in 1..Len(B) :
              /\ k # i /\ B[i].size > 0 /\ B[k].size > 0 /\ End(B[k]) = B[i].addr
              /\ \A l, m \in 1..Len(B) :
                   l < m /\ B[l].size > 0 /\ B[m].size > 0 => End(B[l]) =< B[m].addr
              => k \in Before(B, i)
<1> DEFINE S == {j \in Entries(B) : j < i}
<1>1. S \in SUBSET (1..Len(B)) /\ Len(B) \in Nat /\ \A j \in S : B[j].size > 0 /\ j < i
  BY DEF Entries
<1>2. Before(B, i) = IF S = {} THEN {} ELSE {LastOf(S)}
  BY DEF Before
<1>3. ASSUME NEW k \in 1..Len(B), k # i, B[i].size > 0, B[k].size > 0, End(B[k]) = B[i].addr,
             \A l, m \in 1..Len(B) :
               l < m /\ B[l].size > 0 /\ B[m].size > 0 => End(B[l]) =< B[m].addr
      PROVE  k \in Before(B, i)
  <2>1. \A l \in 1..Len(B) : B[l].addr \in Nat /\ B[l].size \in Nat /\ End(B[l]) = B[l].addr + B[l].size
    BY BlockIs
  <2>2. k < i
    <3>1. CASE i < k
      <4>1. End(B[i]) =< B[k].addr
        BY <1>3, <3>1
      <4> QED BY <1>3, <2>1, <4>1
    <3> QED BY <1>3, <3>1
  <2>3. k \in S
    BY <1>3, <2>2 DEF Entries
  <2>4. LastOf(S) \in S /\ k =< LastOf(S)
    BY <1>1, <2>3, LastIs
  <2> HIDE DEF S
  <2>5. PICK l \in S : l = LastOf(S)
    BY <2>4
  <2>6. l \in 1..Len(B) /\ B[l].size > 0 /\ l < i /\ k =< l
    BY <1>1, <2>4, <2>5
  <2>7. CASE k < l
    <3>1. End(B[k]) =< B[l].addr
      BY <1>3, <2>6, <2>7
    <3> QED BY <1>3, <2>1, <2>6, <3>1
  <2> QED BY <1>2, <2>3, <2>5, <2>6, <2>7
<1>4. ASSUME NEW j \in Before(B, i) PROVE j \in S
  <2>1. S # {} /\ j = LastOf(S)
    BY <1>2, <1>4
  <2> QED BY <1>1, <2>1, LastIs
<1> HIDE DEF S
<1> QED BY <1>1, <1>3, <1>4

-----------------------------------------------------------------------------
(* xbox_HeapFree.                                                          *)

\* What two entries are once they are one.
LEMMA MergeIs ==
  ASSUME NEW B \in Seq(Block), NEW i \in 1..Len(B), NEW j \in 1..Len(B), i # j
  PROVE  /\ Merge(B, i, j) \in Seq(Block) /\ Len(Merge(B, i, j)) = Len(B)
         /\ Merge(B, i, j)[j].size = 0
         /\ Merge(B, i, j)[i].addr = B[i].addr /\ Merge(B, i, j)[i].free = B[i].free
         /\ Merge(B, i, j)[i].size = B[i].size + B[j].size
         /\ \A k \in 1..Len(B) : k # i /\ k # j => Merge(B, i, j)[k] = B[k]
<1> DEFINE M == Merge(B, i, j)
           x == [B[i] EXCEPT !.size = B[i].size + B[j].size]
           y == [B[j] EXCEPT !.size = 0, !.addr = 0]
<1>1. B[i] \in Block /\ B[j] \in Block /\ B[i].size + B[j].size \in Nat /\ Len(B) \in Nat
  BY BlockIs
<1>2. x \in Block /\ y \in Block /\ y.size = 0
      /\ x.addr = B[i].addr /\ x.free = B[i].free /\ x.size = B[i].size + B[j].size
  BY <1>1 DEF Block
<1>3. M = [k \in 1..Len(B) |-> IF k = i THEN x ELSE IF k = j THEN y ELSE B[k]]
  BY DEF Merge
<1> HIDE DEF M, x, y
<1>4. \A k \in 1..Len(B) : M[k] = (IF k = i THEN x ELSE IF k = j THEN y ELSE B[k])
  BY <1>3
<1>5. M \in Seq(Block) /\ Len(M) = Len(B)
  <2>1. \A k \in 1..Len(B) : (IF k = i THEN x ELSE IF k = j THEN y ELSE B[k]) \in Block
    BY <1>1, <1>2
  <2>2. M \in [1..Len(B) -> Block]
    BY <1>3, <2>1
  <2> QED BY <1>1, <2>2
<1> QED BY <1>2, <1>4, <1>5 DEF M

\* A block that is merged with its upper neighbour: nothing else changes.
LEMMA MergeKeeps ==
  ASSUME NEW B, NEW n, NEW H, Kept(B, n, H), NEW i \in 1..Len(B), NEW j \in 1..Len(B), i < j,
         B[i].size > 0, B[j].size > 0, Joins(B, i, j)
  PROVE  Kept(Merge(B, i, j), n, H)
<1> DEFINE M == Merge(B, i, j)
<1>1. B \in Seq(Block) /\ Len(B) =< MaxBlocks /\ n \in HeapBase..HeapTop
  BY DEF Kept, Laid
<1>2. /\ M \in Seq(Block) /\ Len(M) = Len(B) /\ M[j].size = 0
      /\ M[i].addr = B[i].addr /\ M[i].free = B[i].free /\ M[i].size = B[i].size + B[j].size
      /\ \A k \in 1..Len(B) : k # i /\ k # j => M[k] = B[k]
  BY <1>1, MergeIs
<1>3. B[i].free /\ B[j].free /\ End(B[i]) = B[j].addr
  BY DEF Joins
<1>4. /\ \A k \in 1..Len(B) : B[k].addr \in Nat /\ B[k].size \in Nat /\ End(B[k]) = B[k].addr + B[k].size
      /\ \A k \in 1..Len(B) : End(M[k]) = M[k].addr + M[k].size
  BY <1>1, BlockIs DEF End
<1>5. End(M[i]) = End(B[j]) /\ M[i].size > 0
  BY <1>2, <1>3, <1>4
<1> HIDE DEF M
<1>6. Laid(M, n)
  <2>1. \A k \in 1..Len(B) : B[k].size > 0 => HeapBase =< B[k].addr /\ End(B[k]) =< n
    BY DEF Kept, Laid
  <2>2. \A k, l \in 1..Len(B) :
          k < l /\ B[k].size > 0 /\ B[l].size > 0 => End(B[k]) =< B[l].addr
    BY DEF Kept, Laid
  <2>3. ASSUME NEW k \in 1..Len(B), M[k].size > 0 PROVE HeapBase =< M[k].addr /\ End(M[k]) =< n
    BY <1>2, <1>5, <2>1, <2>3
  <2>4. ASSUME NEW k \in 1..Len(B), NEW l \in 1..Len(B), k < l, M[k].size > 0, M[l].size > 0
        PROVE  End(M[k]) =< M[l].addr
    <3>1. k # j /\ l # j
      BY <1>2, <2>4
    <3>2. CASE k # i /\ l # i
      BY <1>2, <2>2, <2>4, <3>1, <3>2
    <3>3. CASE l = i
      BY <1>2, <2>2, <2>4, <3>1, <3>3
    <3>4. CASE k = i
      <4>1. M[l] = B[l] /\ B[l].size > 0 /\ l # i
        BY <1>2, <2>4, <3>1, <3>4
      <4>2. CASE j < l
        BY <1>5, <2>2, <3>4, <4>1, <4>2
      <4>3. CASE l < j
        <5>1. End(B[i]) =< B[l].addr /\ End(B[l]) =< B[j].addr
          BY <2>2, <2>4, <3>4, <4>1, <4>3
        <5> QED BY <1>3, <1>4, <4>1, <5>1
      <4> QED BY <3>1, <4>2, <4>3
    <3> QED BY <3>2, <3>3, <3>4
  <2> QED BY <1>1, <1>2, <2>3, <2>4 DEF Laid
<1>7. Meet(M, H)
  <2> SUFFICES ASSUME NEW o \in H, NEW k \in 1..Len(B), M[k].size > 0
               PROVE  Misses(Span(o), M[k]) \/ Lives(M[k], o)
    BY <1>2 DEF Meet
  <2>1. k # j
    BY <1>2
  <2>2. \A l \in 1..Len(B) : B[l].size > 0 => Misses(Span(o), B[l]) \/ Lives(B[l], o)
    BY DEF Kept, Meet
  <2>3. CASE k # i
    BY <1>2, <2>1, <2>2, <2>3
  <2>4. CASE k = i
    <3>1. Misses(Span(o), B[i]) /\ Misses(Span(o), B[j])
      BY <1>3, <2>2 DEF Lives
    <3>2. /\ Low(o) \in Nat /\ o.size \in Nat \ {0}
          /\ End(Span(o)) = Low(o) + o.size /\ Span(o).addr = Low(o)
      BY DEF Kept, Held, End, Span
    <3>3. /\ Low(o) + o.size =< B[i].addr \/ End(B[i]) =< Low(o)
          /\ Low(o) + o.size =< B[j].addr \/ End(B[j]) =< Low(o)
      BY <3>1, <3>2 DEF Misses
    <3>4. Low(o) + o.size =< M[i].addr \/ End(M[i]) =< Low(o)
      BY <1>2, <1>3, <1>4, <1>5, <3>2, <3>3
    <3> QED BY <2>4, <3>2, <3>4 DEF Misses
  <2> QED BY <2>3, <2>4
<1>8. Recording(M, H)
  <2>1. \A k \in 1..Len(B) : ~ B[k].free => k # i /\ k # j /\ M[k] = B[k]
    BY <1>2, <1>3
  <2>2. ASSUME NEW k \in 1..Len(B), M[k].size > 0, ~ M[k].free PROVE M[k] = B[k]
    <3>1. k # j
      BY <1>2, <2>2
    <3>2. k # i
      BY <1>2, <1>3, <2>2, Zenon
    <3> QED BY <1>2, <3>1, <3>2
  <2>3. Recording(B, H)
    BY DEF Kept
  <2>4. ASSUME Len(B) < MaxBlocks, NEW o \in H
        PROVE  \E k \in 1..Len(B) : M[k].size > 0 /\ Lives(M[k], o)
    <3>1. PICK k \in 1..Len(B) : B[k].size > 0 /\ Lives(B[k], o)
      BY <2>3, <2>4 DEF Recording
    <3>2. M[k] = B[k]
      BY <2>1, <3>1 DEF Lives
    <3> QED BY <3>1, <3>2
  <2>5. ASSUME Len(B) < MaxBlocks, NEW k \in 1..Len(B), M[k].size > 0, ~ M[k].free
        PROVE  \E o \in H : Low(o) = M[k].addr
    <3>1. M[k] = B[k]
      BY <2>2, <2>5
    <3> QED BY <2>3, <2>5, <3>1 DEF Recording
  <2> QED BY <1>2, <2>4, <2>5 DEF Recording
<1> QED BY <1>6, <1>7, <1>8 DEF Kept, M

\* The block that is given back, before its neighbours are looked at.
Marked(B, i) == [B EXCEPT ![i] = [B[i] EXCEPT !.free = TRUE, !.req = 0]]

LEMMA MarkedIs ==
  ASSUME NEW B \in Seq(Block), NEW i \in 1..Len(B)
  PROVE  /\ Marked(B, i) \in Seq(Block) /\ Len(Marked(B, i)) = Len(B)
         /\ Marked(B, i)[i].addr = B[i].addr /\ Marked(B, i)[i].size = B[i].size
         /\ Marked(B, i)[i].free
         /\ \A k \in 1..Len(B) \ {i} : Marked(B, i)[k] = B[k]
<1> DEFINE x == [B[i] EXCEPT !.free = TRUE, !.req = 0]
<1>1. B[i] \in Block
  BY BlockIs
<1>2. x \in Block /\ x.free = TRUE /\ x.addr = B[i].addr /\ x.size = B[i].size
  BY <1>1 DEF Block
<1>3. Marked(B, i) = [B EXCEPT ![i] = x]
  BY DEF Marked
<1> HIDE DEF x
<1>4. [B EXCEPT ![i] = x] \in Seq(Block) /\ Len([B EXCEPT ![i] = x]) = Len(B)
  BY <1>2
<1>5. [B EXCEPT ![i] = x][i] = x /\ \A k \in 1..Len(B) \ {i} : [B EXCEPT ![i] = x][k] = B[k]
  BY <1>2
<1> QED BY <1>2, <1>3, <1>4, <1>5

\* The only holding that a live block can meet is its own.
LEMMA MarkKeeps ==
  ASSUME NEW B, NEW n, NEW H, Kept(B, n, H), NEW i \in 1..Len(B), B[i].size > 0, ~ B[i].free
  PROVE  Kept(Marked(B, i), n, {o \in H : Low(o) # B[i].addr})
<1> DEFINE M == Marked(B, i)
           G == {o \in H : Low(o) # B[i].addr}
<1>1. B \in Seq(Block) /\ Len(B) =< MaxBlocks /\ n \in HeapBase..HeapTop
  BY DEF Kept, Laid
<1>2. /\ M \in Seq(Block) /\ Len(M) = Len(B)
      /\ M[i].addr = B[i].addr /\ M[i].size = B[i].size /\ M[i].free
      /\ \A k \in 1..Len(B) : k # i => M[k] = B[k]
  BY <1>1, MarkedIs
<1> HIDE DEF M
<1>3. \A k \in 1..Len(B) : M[k].addr = B[k].addr /\ M[k].size = B[k].size /\ End(M[k]) = End(B[k])
  BY <1>2 DEF End
<1>4. Laid(M, n)
  BY <1>1, <1>2, <1>3 DEF Kept, Laid
<1>5. Held(G, n)
  BY DEF Kept, Held
<1>6. Meet(M, G)
  <2> SUFFICES ASSUME NEW o \in G, NEW k \in 1..Len(B), M[k].size > 0
               PROVE  Misses(Span(o), M[k]) \/ Lives(M[k], o)
    BY <1>2 DEF Meet
  <2>1. Misses(Span(o), B[k]) \/ Lives(B[k], o)
    BY <1>3 DEF Kept, Meet
  <2>2. CASE k = i
    BY <1>3, <2>1, <2>2 DEF Lives, Misses
  <2>3. CASE k # i
    BY <1>2, <2>1, <2>3
  <2> QED BY <2>2, <2>3
<1>7. Recording(M, G)
  <2> SUFFICES ASSUME Len(B) < MaxBlocks
               PROVE  /\ \A o \in G : \E k \in 1..Len(B) : M[k].size > 0 /\ Lives(M[k], o)
                      /\ \A k \in 1..Len(B) : M[k].size > 0 /\ ~ M[k].free =>
                           \E o \in G : Low(o) = M[k].addr
    BY <1>2 DEF Recording
  <2>1. ASSUME NEW o \in G PROVE \E k \in 1..Len(B) : M[k].size > 0 /\ Lives(M[k], o)
    <3>1. PICK k \in 1..Len(B) : B[k].size > 0 /\ Lives(B[k], o)
      BY DEF Kept, Recording
    <3>2. k # i
      BY <3>1 DEF Lives
    <3> QED BY <1>2, <3>1, <3>2
  <2>2. ASSUME NEW k \in 1..Len(B), M[k].size > 0, ~ M[k].free
        PROVE  \E o \in G : Low(o) = M[k].addr
    <3>1. k # i /\ M[k] = B[k]
      BY <1>2, <2>2
    <3>2. PICK o \in H : Low(o) = B[k].addr
      BY <2>2, <3>1 DEF Kept, Recording
    <3>3. B[k].addr # B[i].addr
      <4>1. k < i \/ i < k
        BY <3>1
      <4>2. End(B[k]) =< B[i].addr \/ End(B[i]) =< B[k].addr
        BY <1>3, <2>2, <4>1 DEF Kept, Laid
      <4>3. /\ B[k].addr \in Nat /\ B[k].size \in Nat /\ End(B[k]) = B[k].addr + B[k].size
            /\ B[i].addr \in Nat /\ B[i].size \in Nat /\ End(B[i]) = B[i].addr + B[i].size
            /\ B[k].size > 0
        BY <1>1, <1>3, <2>2, BlockIs
      <4> QED BY <4>2, <4>3
    <3> QED BY <3>1, <3>2, <3>3
  <2> QED BY <2>1, <2>2
<1> QED BY <1>4, <1>5, <1>6, <1>7 DEF Kept, M

\* Free neighbours, if there are any, are those of entry i.
WholeBut(B, i) ==
  \A j, k \in 1..Len(B) :
    /\ B[j].size > 0 /\ B[k].size > 0 /\ B[j].free /\ B[k].free /\ End(B[j]) = B[k].addr
    => j = i \/ k = i

\* No free block begins where entry i ends.
NoneAbove(B, i) ==
  \A k \in 1..Len(B) : B[k].size > 0 /\ B[k].free => End(B[i]) # B[k].addr

\* The free block that begins where entry i ends is merged into it.
LEMMA GrownIs ==
  ASSUME NEW B, NEW n, NEW H, Kept(B, n, H), NEW i \in 1..Len(B), B[i].size > 0, B[i].free,
         WholeBut(B, i), NEW G,
         LET up == {j \in After(B, i) : Joins(B, i, j)} IN
           G = IF up = {} THEN B ELSE Merge(B, i, LeastOf(up))
  PROVE  /\ Kept(G, n, H) /\ Len(G) = Len(B) /\ G[i].size > 0 /\ G[i].free
         /\ G[i].addr = B[i].addr /\ WholeBut(G, i) /\ NoneAbove(G, i)
<1> DEFINE up == {j \in After(B, i) : Joins(B, i, j)}
<1>1. B \in Seq(Block)
  BY DEF Kept, Laid
<1>2. /\ \A l, m \in 1..Len(B) :
           l < m /\ B[l].size > 0 /\ B[m].size > 0 => End(B[l]) =< B[m].addr
      /\ \A k \in 1..Len(B) : B[k].addr \in Nat /\ B[k].size \in Nat /\ End(B[k]) = B[k].addr + B[k].size
  BY <1>1, BlockIs DEF Kept, Laid
<1>3. ASSUME NEW k \in 1..Len(B), B[k].size > 0, B[k].free, End(B[i]) = B[k].addr
      PROVE  k \in up
  <2>1. k # i
    BY <1>2, <1>3
  <2>2. k \in After(B, i)
    BY <1>1, <1>2, <1>3, <2>1, AfterIs
  <2> QED BY <1>3, <2>2 DEF Joins
<1>4. CASE up = {}
  <2>1. G = B
    BY <1>4
  <2>2. NoneAbove(B, i)
    BY <1>3, <1>4 DEF NoneAbove
  <2> QED BY <2>1, <2>2
<1>5. CASE up # {}
  <2>1. \A j \in up : j \in 1..Len(B) /\ B[j].size > 0 /\ i < j /\ Joins(B, i, j)
    BY <1>1, AfterIs
  <2>2. PICK j \in up : G = Merge(B, i, j)
    <3>1. up \in SUBSET Nat
      BY <1>1, <2>1
    <3>2. LeastOf(up) \in up
      BY <1>5, <3>1, LeastIs
    <3> QED BY <1>5, <3>2
  <2> HIDE DEF up
  <2>3. j \in 1..Len(B) /\ B[j].size > 0 /\ i < j /\ Joins(B, i, j) /\ i # j
    BY <2>1
  <2>4. Kept(G, n, H)
    BY <2>2, <2>3, MergeKeeps
  <2>5. /\ G \in Seq(Block) /\ Len(G) = Len(B) /\ G[j].size = 0
        /\ G[i].addr = B[i].addr /\ G[i].free = B[i].free /\ G[i].size = B[i].size + B[j].size
        /\ \A k \in 1..Len(B) : k # i /\ k # j => G[k] = B[k]
  <3> DEFINE E == Merge(B, i, j)
    <3>1. /\ E \in Seq(Block) /\ Len(E) = Len(B) /\ E[j].size = 0
          /\ E[i].addr = B[i].addr /\ E[i].free = B[i].free /\ E[i].size = B[i].size + B[j].size
          /\ \A k \in 1..Len(B) : k # i /\ k # j => E[k] = B[k]
      <4>1. E \in Seq(Block) /\ Len(E) = Len(B)
        BY <1>1, <2>3, MergeIs
      <4>2. E[j].size = 0 /\ E[i].addr = B[i].addr /\ E[i].free = B[i].free
        BY <1>1, <2>3, MergeIs
      <4>3. E[i].size = B[i].size + B[j].size
        BY <1>1, <2>3, MergeIs
      <4>4. \A k \in 1..Len(B) : k # i /\ k # j => E[k] = B[k]
        BY <1>1, <2>3, MergeIs
      <4> QED BY <4>1, <4>2, <4>3, <4>4
    <3>2. G = E
      BY <2>2
    <3> HIDE DEF E
    <3> QED BY <3>1, <3>2
  <2>6. B[j].free /\ End(B[i]) = B[j].addr
    BY <2>3 DEF Joins
  <2>7. End(G[i]) = End(B[j]) /\ G[i].size > 0 /\ G[i].free
    <3>1. End(G[i]) = G[i].addr + G[i].size
      BY DEF End
    <3>2. G[i].free
      BY <2>5, Zenon
    <3> QED BY <1>2, <2>3, <2>5, <2>6, <3>1, <3>2
  <2>8. WholeBut(G, i)
    <3> SUFFICES ASSUME NEW k \in 1..Len(B), NEW l \in 1..Len(B), k # i, l # i,
                        G[k].size > 0, G[l].size > 0, G[k].free, G[l].free, End(G[k]) = G[l].addr
                 PROVE  FALSE
      BY <2>5 DEF WholeBut
    <3>1. G[k] = B[k] /\ G[l] = B[l]
      BY <2>5
    <3> QED BY <3>1 DEF WholeBut
  <2>9. NoneAbove(G, i)
    <3> SUFFICES ASSUME NEW k \in 1..Len(B), G[k].size > 0, G[k].free, End(G[i]) = G[k].addr
                 PROVE  FALSE
      BY <2>5 DEF NoneAbove
    <3>1. k # j
      BY <2>5
    <3>2. CASE k = i
      <4>1. End(G[i]) = G[i].addr + G[i].size /\ G[i].addr \in Nat /\ G[i].size \in Nat
        BY <2>5, BlockIs
      <4> QED BY <3>2, <4>1
    <3>3. CASE k # i
      <4>1. G[k] = B[k]
        BY <2>5, <3>1, <3>3
      <4> QED BY <2>3, <2>6, <2>7, <3>3, <4>1 DEF WholeBut
    <3> QED BY <3>2, <3>3
  <2> QED BY <2>4, <2>5, <2>7, <2>8, <2>9
<1> QED BY <1>4, <1>5

\* Marked, merged above and merged below: the invariant without the holding.
LEMMA FreedKeeps ==
  ASSUME NEW B, NEW n, NEW H, Kept(B, n, H), Whole(B), NEW i \in 1..Len(B),
         B[i].size > 0, ~ B[i].free
  PROVE  Kept(Freed(B, i), n, {o \in H : Low(o) # B[i].addr}) /\ Whole(Freed(B, i))
<1> DEFINE M == Marked(B, i)
           I == {o \in H : Low(o) # B[i].addr}
           up == {j \in After(M, i) : Joins(M, i, j)}
           G == IF up = {} THEN M ELSE Merge(M, i, LeastOf(up))
           down == {j \in Before(G, i) : Joins(G, j, i)}
           F == IF down = {} THEN G ELSE Merge(G, LeastOf(down), i)
<1>1. Freed(B, i) = F
  BY DEF Freed, Marked
<1>2. Kept(M, n, I)
  BY MarkKeeps
<1>3. B \in Seq(Block)
  BY DEF Kept, Laid
<1>4. /\ M \in Seq(Block) /\ Len(M) = Len(B)
      /\ M[i].addr = B[i].addr /\ M[i].size = B[i].size /\ M[i].free
      /\ \A k \in 1..Len(B) : k # i => M[k] = B[k]
  BY <1>3, MarkedIs
<1> HIDE DEF M, I
<1>5. WholeBut(M, i)
  BY <1>4 DEF Whole, WholeBut
<1>6. /\ Kept(G, n, I) /\ Len(G) = Len(M) /\ G[i].size > 0 /\ G[i].free
      /\ WholeBut(G, i) /\ NoneAbove(G, i)
  <2>1. M[i].size > 0 /\ i \in 1..Len(M)
    BY <1>4
  <2>2. LET u == {j \in After(M, i) : Joins(M, i, j)} IN
          G = IF u = {} THEN M ELSE Merge(M, i, LeastOf(u))
    OBVIOUS
  <2> HIDE DEF G
  <2> QED BY <1>2, <1>4, <1>5, <2>1, <2>2, GrownIs
<1> HIDE DEF G
<1>7. G \in Seq(Block) /\ Len(G) = Len(B) /\ i \in 1..Len(G)
  BY <1>4, <1>6 DEF Kept, Laid
<1>8. /\ \A l, m \in 1..Len(G) :
           l < m /\ G[l].size > 0 /\ G[m].size > 0 => End(G[l]) =< G[m].addr
      /\ \A k \in 1..Len(G) : G[k].addr \in Nat /\ G[k].size \in Nat /\ End(G[k]) = G[k].addr + G[k].size
  BY <1>6, <1>7, BlockIs DEF Kept, Laid
<1>9. ASSUME NEW k \in 1..Len(G), G[k].size > 0, G[k].free, End(G[k]) = G[i].addr
      PROVE  k \in down
  <2>1. k # i
    BY <1>6, <1>8, <1>9
  <2>2. k \in Before(G, i)
    BY <1>6, <1>7, <1>8, <1>9, <2>1, BeforeIs
  <2> QED BY <1>6, <1>9, <2>2 DEF Joins
<1>10. CASE down = {}
  <2>1. F = G
    BY <1>10
  <2>2. Whole(G)
    BY <1>6, <1>9, <1>10 DEF Whole, WholeBut, NoneAbove
  <2> QED BY <1>1, <1>6, <2>1, <2>2 DEF I
<1>11. CASE down # {}
  <2>1. \A j \in down : j \in 1..Len(G) /\ G[j].size > 0 /\ j < i /\ Joins(G, j, i)
    BY <1>7, BeforeIs
  <2>2. PICK j \in down : F = Merge(G, j, i)
    <3>1. down \in SUBSET Nat
      BY <1>7, <2>1
    <3>2. LeastOf(down) \in down
      BY <1>11, <3>1, LeastIs
    <3> QED BY <1>11, <3>2
  <2> HIDE DEF down, F
  <2>3. j \in 1..Len(G) /\ G[j].size > 0 /\ j < i /\ Joins(G, j, i) /\ i # j
    BY <1>7, <2>1
  <2>4. Kept(F, n, I)
    BY <1>6, <1>7, <2>2, <2>3, MergeKeeps
  <2>5. /\ F \in Seq(Block) /\ Len(F) = Len(G) /\ F[i].size = 0
        /\ F[j].addr = G[j].addr /\ F[j].free = G[j].free /\ F[j].size = G[j].size + G[i].size
        /\ \A k \in 1..Len(G) : k # i /\ k # j => F[k] = G[k]
    BY <1>7, <2>2, <2>3, MergeIs, Zenon
  <2>6. G[j].free /\ End(G[j]) = G[i].addr
    BY <2>3 DEF Joins
  <2>7. End(F[j]) = End(G[i])
    <3>1. End(F[j]) = F[j].addr + F[j].size
      BY DEF End
    <3> QED BY <1>7, <1>8, <2>3, <2>5, <2>6, <3>1
  <2>8. Whole(F)
    <3> SUFFICES ASSUME NEW k \in 1..Len(G), NEW l \in 1..Len(G),
                        F[k].size > 0, F[l].size > 0, F[k].free, F[l].free, End(F[k]) = F[l].addr
                 PROVE  FALSE
      BY <2>5 DEF Whole
    <3>1. k # i /\ l # i
      BY <2>5
    <3>2. CASE k # j /\ l # j
      <4>1. F[k] = G[k] /\ F[l] = G[l]
        BY <2>5, <3>1, <3>2
      <4> QED BY <1>6, <3>1, <4>1 DEF WholeBut
    <3>3. CASE k = j /\ l # j
      <4>1. F[l] = G[l]
        BY <2>5, <3>1, <3>3
      <4> QED BY <1>6, <2>7, <3>3, <4>1 DEF NoneAbove
    <3>4. CASE k # j /\ l = j
      <4>1. F[k] = G[k]
        BY <2>5, <3>1, <3>4
      <4>2. End(G[k]) = G[j].addr
        BY <2>5, <3>4, <4>1
      <4> QED BY <1>6, <2>3, <2>6, <3>1, <3>4, <4>1, <4>2 DEF WholeBut
    <3>5. CASE k = j /\ l = j
      <4>1. End(F[j]) = F[j].addr + F[j].size /\ F[j].addr \in Nat /\ F[j].size \in Nat
        BY <2>3, <2>5, BlockIs
      <4> QED BY <3>5, <4>1
    <3> QED BY <3>2, <3>3, <3>4, <3>5
  <2> QED BY <1>1, <2>4, <2>8 DEF I
<1> QED BY <1>10, <1>11

-----------------------------------------------------------------------------
(* xbox_HeapAlloc.                                                         *)

\* P is the free block b carved up for size units at the address at: the pieces
\* lie in b in order, one of them is live, and no two that are free touch.
Carved(P, b, at, size) ==
  /\ P \in Seq(Block) /\ Len(P) > 0
  /\ \A k \in 1..Len(P) : P[k].size > 0 /\ b.addr =< P[k].addr /\ End(P[k]) =< End(b)
  /\ \A k, l \in 1..Len(P) : k < l => End(P[k]) =< P[l].addr
  /\ \A k, l \in 1..Len(P) : P[k].free /\ P[l].free => End(P[k]) # P[l].addr
  /\ \E m \in 1..Len(P) :
       /\ ~ P[m].free /\ P[m].addr = at /\ size =< P[m].size
       /\ \A k \in 1..Len(P) : k # m => P[k].free

\* Sequences of up to three elements, put together.
LEMMA Trio ==
  ASSUME NEW S, NEW x \in S, NEW y \in S, NEW z \in S, NEW Q, Q = <<x>> \o <<y, z>>
  PROVE  Q \in Seq(S) /\ Len(Q) = 3 /\ Q[1] = x /\ Q[2] = y /\ Q[3] = z
<1>1. <<x>> \in Seq(S) /\ <<y, z>> \in Seq(S) /\ Len(<<x>>) = 1 /\ Len(<<y, z>>) = 2
  OBVIOUS
<1>2. Q \in Seq(S) /\ Len(Q) = 3
  BY <1>1
<1>3. Q[1] = x
  BY <1>1
<1>4. Q[2] = <<y, z>>[1] /\ Q[3] = <<y, z>>[2]
  BY <1>1
<1> QED BY <1>2, <1>3, <1>4

LEMMA Pair ==
  ASSUME NEW S, NEW x \in S, NEW y \in S, NEW Q, Q = Append(<<x>>, y) \/ Q = <<>> \o <<x, y>>
  PROVE  Q \in Seq(S) /\ Len(Q) = 2 /\ Q[1] = x /\ Q[2] = y
<1>1. CASE Q = Append(<<x>>, y)
  BY <1>1
<1>2. CASE Q = <<>> \o <<x, y>>
  BY <1>2
<1> QED BY <1>1, <1>2

LEMMA Single ==
  ASSUME NEW S, NEW x \in S, NEW Q, Q = Append(<<>>, x)
  PROVE  Q \in Seq(S) /\ Len(Q) = 1 /\ Q[1] = x
OBVIOUS

\* What a free block becomes when a request is cut from it.
LEMMA PiecesAre ==
  ASSUME NEW B \in Seq(Block), Len(B) =< MaxBlocks, NEW i \in 1..Len(B), B[i].size > 0,
         NEW size \in Nat \ {0}, NEW align \in Nat \ {0}, Fits(B, i, size, align)
  PROVE  /\ Carved(Pieces(B, i, size, align), B[i], Up(B[i].addr, align), size)
         /\ Len(B) + Len(Pieces(B, i, size, align)) - 1 =< MaxBlocks
         /\ B[i].addr =< Up(B[i].addr, align) /\ Up(B[i].addr, align) \in Nat
         /\ Up(B[i].addr, align) + size =< End(B[i])
<1> DEFINE b == B[i]
           kept == Up(size, align)
           at == b.addr + Lead(b, align)
           avail == b.size - Lead(b, align)
           lead == [b EXCEPT !.size = at - b.addr]
           first == IF at > b.addr THEN <<lead>> ELSE <<>>
           taken(n) == [addr |-> at, size |-> n, req |-> size, free |-> FALSE]
           spare == [addr |-> at + kept, size |-> avail - kept, req |-> 0, free |-> TRUE]
           P == Pieces(B, i, size, align)
<1>1. P = IF Splits(avail, kept, Len(B) + Len(first))
            THEN first \o <<taken(kept), spare>> ELSE Append(first, taken(avail))
  BY DEF Pieces
<1>2. /\ b \in Block /\ b.addr \in Nat /\ b.size \in Nat /\ End(b) = b.addr + b.size
      /\ Len(B) \in Nat /\ MaxBlocks \in Nat /\ SplitMin \in Nat \ {0}
  BY BlockIs, HeapAssumption
<1>3. Up(b.addr, align) \in Nat /\ b.addr =< Up(b.addr, align)
  BY <1>2, UpIs
<1>4. kept \in Nat /\ size =< kept
  BY UpIs
<1>5. b.free /\ b.size >= Lead(b, align) + size /\ (Lead(b, align) > 0 => Len(B) + 2 =< MaxBlocks)
  BY DEF Fits
<1>6. Lead(b, align) = Up(b.addr, align) - b.addr
  BY DEF Lead
<1>7. /\ at = Up(b.addr, align) /\ at \in Nat /\ b.addr =< at
      /\ avail \in Nat /\ size =< avail /\ at + avail = End(b) /\ Lead(b, align) = at - b.addr
  <2>1. Lead(b, align) \in Nat /\ at = Up(b.addr, align) /\ at \in Nat /\ b.addr =< at
    BY <1>2, <1>3, <1>6
  <2>2. avail \in Nat /\ size =< avail
    BY <1>2, <1>5, <2>1
  <2>3. at + avail = End(b)
    BY <1>2, <2>1
  <2> QED BY <1>6, <2>1, <2>2, <2>3
<1>8. at > b.addr => lead \in Block /\ lead.addr = b.addr /\ lead.size = at - b.addr /\ lead.free
  <2> SUFFICES ASSUME at > b.addr
               PROVE  lead \in Block /\ lead.addr = b.addr /\ lead.size = at - b.addr /\ lead.free
    OBVIOUS
  <2>1. at - b.addr \in Nat
    BY <1>2, <1>7
  <2>2. b \in Block /\ b.free
    BY <1>2, <1>5
  <2> HIDE DEF b, at
  <2> QED BY <2>1, <2>2 DEF Block
<1> HIDE DEF b, kept, at, avail, lead, P
<1>9. ASSUME NEW n \in Nat
      PROVE  /\ taken(n) \in Block /\ taken(n).addr = at /\ taken(n).size = n /\ ~ taken(n).free
  BY <1>7 DEF Block
<1>10. avail >= kept + SplitMin =>
         spare \in Block /\ spare.addr = at + kept /\ spare.size = avail - kept /\ spare.free
  <2> SUFFICES ASSUME avail >= kept + SplitMin
               PROVE  /\ spare \in Block /\ spare.addr = at + kept /\ spare.size = avail - kept
                      /\ spare.free
    OBVIOUS
  <2>0. at \in Nat /\ kept \in Nat /\ avail \in Nat /\ SplitMin \in Nat
    BY <1>2, <1>4, <1>7
  <2>1. at + kept \in Nat /\ avail - kept \in Nat
    BY <2>0
  <2> QED BY <2>1 DEF Block
<1> HIDE DEF taken, spare
<1>11. Carved(P, b, at, size) /\ Len(B) + Len(P) - 1 =< MaxBlocks
  <2>1. CASE at > b.addr /\ Splits(avail, kept, Len(B) + Len(first))
    <3>1. P = <<lead>> \o <<taken(kept), spare>> /\ Len(first) = 1
      BY <1>1, <2>1
    <3>2. avail >= kept + SplitMin /\ Len(B) + 1 < MaxBlocks
      BY <2>1, <3>1 DEF Splits
    <3> DEFINE t == taken(kept)
    <3>3. /\ lead \in Block /\ t \in Block /\ spare \in Block
          /\ lead.free /\ ~ t.free /\ spare.free /\ t.addr = at /\ t.size = kept
      BY <1>4, <1>8, <1>9, <1>10, <2>1, <3>2
    <3>4. /\ lead.size > 0 /\ t.size > 0 /\ spare.size > 0
          /\ lead.addr = b.addr /\ End(lead) = at /\ End(t) = at + kept
          /\ spare.addr = at + kept /\ End(spare) = End(b)
      BY <1>2, <1>4, <1>7, <1>8, <1>10, <2>1, <3>2, <3>3 DEF End
    <3> HIDE DEF t
    <3>5. P \in Seq(Block) /\ Len(P) = 3 /\ P[1] = lead /\ P[2] = t /\ P[3] = spare
      BY <3>1, <3>3, Trio DEF t
    <3>6. \A k \in 1..Len(P) : k = 1 \/ k = 2 \/ k = 3
      BY <3>5
    <3>11. /\ End(lead) =< t.addr /\ End(t) =< spare.addr /\ End(lead) < spare.addr
           /\ b.addr =< t.addr /\ b.addr =< spare.addr /\ b.addr =< lead.addr
           /\ End(lead) =< End(b) /\ End(t) =< End(b) /\ End(spare) =< End(b)
           /\ lead.addr < End(lead) /\ spare.addr < End(spare) /\ lead.addr < End(spare)
      <4>1. End(lead) =< t.addr /\ End(t) =< spare.addr /\ End(lead) < spare.addr
        BY <1>4, <1>7, <3>3, <3>4
      <4>2. b.addr =< t.addr /\ b.addr =< spare.addr /\ b.addr =< lead.addr
        BY <1>2, <1>4, <1>7, <3>3, <3>4
      <4>3. End(lead) =< End(b) /\ End(t) =< End(b) /\ End(spare) =< End(b)
        <5>1. kept =< avail
          BY <1>2, <1>4, <1>7, <3>2
        <5> QED BY <1>2, <1>4, <1>7, <3>4, <5>1
      <4>4. lead.addr < End(lead)
        BY <1>2, <1>7, <2>1, <3>4
      <4>5. spare.addr < End(spare)
        BY <1>2, <1>4, <1>7, <3>2, <3>4
      <4>6. lead.addr < End(spare)
        BY <1>2, <1>4, <1>7, <2>1, <3>2, <3>4
      <4> QED BY <4>1, <4>2, <4>3, <4>4, <4>5, <4>6
    <3>7. \A k \in 1..Len(P) : P[k].size > 0 /\ b.addr =< P[k].addr /\ End(P[k]) =< End(b)
      BY <3>4, <3>5, <3>6, <3>11
    <3>8. \A k, l \in 1..Len(P) : k < l => End(P[k]) =< P[l].addr
      <4> SUFFICES ASSUME NEW k \in 1..Len(P), NEW l \in 1..Len(P), k < l
                   PROVE  End(P[k]) =< P[l].addr
        OBVIOUS
      <4>1. \/ k = 1 /\ l = 2
            \/ k = 1 /\ l = 3
            \/ k = 2 /\ l = 3
        BY <3>6
      <4>2. End(lead) =< spare.addr
        BY <1>4, <1>7, <3>4, <3>11
      <4> QED BY <3>5, <3>11, <4>1, <4>2
    <3>9. \A k, l \in 1..Len(P) : P[k].free /\ P[l].free => End(P[k]) # P[l].addr
      <4> SUFFICES ASSUME NEW k \in 1..Len(P), NEW l \in 1..Len(P), P[k].free, P[l].free
                   PROVE  End(P[k]) # P[l].addr
        OBVIOUS
      <4>1. (k = 1 \/ k = 3) /\ (l = 1 \/ l = 3)
        BY <3>3, <3>5, <3>6
      <4>2. lead.addr \in Nat /\ spare.addr \in Nat /\ End(lead) \in Nat /\ End(spare) \in Nat
        <5>1. kept =< avail /\ kept \in Nat /\ at \in Nat /\ avail \in Nat /\ b.addr \in Nat
          BY <1>2, <1>4, <1>7, <3>2
        <5>2. at + kept \in Nat /\ End(b) = at + avail
          BY <1>7, <5>1
        <5> QED BY <3>4, <5>1, <5>2
      <4>3. /\ End(lead) # lead.addr /\ End(lead) # spare.addr
            /\ End(spare) # lead.addr /\ End(spare) # spare.addr
        BY <3>11, <4>2
      <4> QED BY <3>5, <4>1, <4>3, Zenon
    <3>10. 2 \in 1..Len(P) /\ ~ P[2].free /\ P[2].addr = at /\ size =< P[2].size
           /\ \A k \in 1..Len(P) : k # 2 => P[k].free
      BY <1>4, <3>3, <3>5, <3>6
    <3> QED BY <1>2, <3>2, <3>5, <3>7, <3>8, <3>9, <3>10 DEF Carved
  <2>2. CASE at > b.addr /\ ~ Splits(avail, kept, Len(B) + Len(first))
    <3> DEFINE t == taken(avail)
    <3>1. P = Append(<<lead>>, t)
      BY <1>1, <2>2
    <3>2. Len(B) + 2 =< MaxBlocks
      BY <1>2, <1>5, <1>7, <2>2
    <3>3. lead \in Block /\ t \in Block /\ lead.free /\ ~ t.free /\ t.addr = at /\ t.size = avail
      BY <1>7, <1>8, <1>9, <2>2
    <3>4. lead.size > 0 /\ t.size > 0 /\ lead.addr = b.addr /\ End(lead) = at /\ End(t) = End(b)
      BY <1>2, <1>4, <1>7, <1>8, <2>2, <3>3 DEF End
    <3> HIDE DEF t
    <3>5. P \in Seq(Block) /\ Len(P) = 2 /\ P[1] = lead /\ P[2] = t
      BY <3>1, <3>3, Pair
    <3>6. \A k \in 1..Len(P) : k = 1 \/ k = 2
      BY <3>5
    <3>7. \A k \in 1..Len(P) : P[k].size > 0 /\ b.addr =< P[k].addr /\ End(P[k]) =< End(b)
      BY <1>2, <1>4, <1>7, <3>3, <3>4, <3>5, <3>6
    <3>8. \A k, l \in 1..Len(P) : k < l => End(P[k]) =< P[l].addr
      BY <1>2, <1>7, <3>3, <3>4, <3>5, <3>6
    <3>9. \A k, l \in 1..Len(P) : P[k].free /\ P[l].free => End(P[k]) # P[l].addr
      BY <1>2, <1>7, <2>2, <3>3, <3>4, <3>5, <3>6
    <3>10. 2 \in 1..Len(P) /\ ~ P[2].free /\ P[2].addr = at /\ size =< P[2].size
           /\ \A k \in 1..Len(P) : k # 2 => P[k].free
      BY <1>7, <3>3, <3>5, <3>6
    <3> QED BY <1>2, <3>2, <3>5, <3>7, <3>8, <3>9, <3>10 DEF Carved
  <2>3. CASE at = b.addr /\ Splits(avail, kept, Len(B) + Len(first))
    <3> DEFINE t == taken(kept)
    <3>0. ~ (at > b.addr)
      BY <1>7, <2>3
    <3>1. P = <<>> \o <<t, spare>> /\ Len(first) = 0
      BY <1>1, <2>3, <3>0, Zenon
    <3>2. avail >= kept + SplitMin /\ Len(B) < MaxBlocks
      BY <2>3, <3>1, <1>2 DEF Splits
    <3>3. t \in Block /\ spare \in Block /\ ~ t.free /\ spare.free /\ t.addr = at /\ t.size = kept
      BY <1>4, <1>9, <1>10, <3>2
    <3>4. /\ t.size > 0 /\ spare.size > 0 /\ t.addr = b.addr /\ End(t) = at + kept
          /\ spare.addr = at + kept /\ End(spare) = End(b)
      <4>1. kept > 0 /\ avail - kept > 0 /\ (at + kept) + (avail - kept) = at + avail
        BY <1>2, <1>4, <1>7, <3>2
      <4>2. spare.addr = at + kept /\ spare.size = avail - kept
        BY <1>10, <3>2
      <4>3. End(t) = t.addr + t.size /\ End(spare) = spare.addr + spare.size
        BY DEF End
      <4> QED BY <1>7, <2>3, <3>3, <4>1, <4>2, <4>3
    <3> HIDE DEF t
    <3>5. P \in Seq(Block) /\ Len(P) = 2 /\ P[1] = t /\ P[2] = spare
      BY <3>1, <3>3, Pair
    <3>6. \A k \in 1..Len(P) : k = 1 \/ k = 2
      BY <3>5
    <3>11. /\ b.addr =< t.addr /\ b.addr =< spare.addr
           /\ End(t) =< End(b) /\ End(spare) =< End(b) /\ End(spare) # spare.addr
      <4>1. kept \in Nat /\ kept < avail /\ at \in Nat /\ avail \in Nat /\ End(b) = at + avail
        BY <1>2, <1>4, <1>7, <3>2
      <4> QED BY <2>3, <3>4, <4>1
    <3>7. \A k \in 1..Len(P) : P[k].size > 0 /\ b.addr =< P[k].addr /\ End(P[k]) =< End(b)
      BY <3>4, <3>5, <3>6, <3>11
    <3>8. \A k, l \in 1..Len(P) : k < l => End(P[k]) =< P[l].addr
      <4> SUFFICES ASSUME NEW k \in 1..Len(P), NEW l \in 1..Len(P), k < l
                   PROVE  End(P[k]) =< P[l].addr
        OBVIOUS
      <4>1. k = 1 /\ l = 2
        BY <3>6
      <4>2. End(t) = at + kept /\ spare.addr = at + kept /\ at + kept \in Nat
        BY <1>4, <1>7, <3>4
      <4> QED BY <3>5, <4>1, <4>2
    <3>9. \A k, l \in 1..Len(P) : P[k].free /\ P[l].free => End(P[k]) # P[l].addr
      <4> SUFFICES ASSUME NEW k \in 1..Len(P), NEW l \in 1..Len(P), P[k].free, P[l].free
                   PROVE  End(P[k]) # P[l].addr
        OBVIOUS
      <4>1. k = 2 /\ l = 2
        BY <3>3, <3>5, <3>6
      <4> QED BY <3>5, <3>11, <4>1
    <3>10. 1 \in 1..Len(P) /\ ~ P[1].free /\ P[1].addr = at /\ size =< P[1].size
           /\ \A k \in 1..Len(P) : k # 1 => P[k].free
      BY <1>4, <3>3, <3>5, <3>6
    <3> QED BY <1>2, <3>2, <3>5, <3>7, <3>8, <3>9, <3>10 DEF Carved
  <2>4. CASE at = b.addr /\ ~ Splits(avail, kept, Len(B) + Len(first))
    <3> DEFINE t == taken(avail)
    <3>0. ~ (at > b.addr)
      BY <1>7, <2>4
    <3>1. P = Append(<<>>, t)
      BY <1>1, <2>4, <3>0, Zenon
    <3>2. t \in Block /\ ~ t.free /\ t.addr = at /\ t.size = avail /\ End(t) = End(b)
      BY <1>7, <1>9 DEF End
    <3> HIDE DEF t
    <3>3. P \in Seq(Block) /\ Len(P) = 1 /\ P[1] = t /\ \A k \in 1..Len(P) : k = 1
      BY <3>1, <3>2, Single
    <3>4. t.size > 0 /\ size =< t.size /\ b.addr =< t.addr /\ End(t) =< End(b)
      BY <1>2, <1>7, <2>4, <3>2
    <3>5. Carved(P, b, at, size)
      BY <3>2, <3>3, <3>4 DEF Carved
    <3> QED BY <1>2, <3>3, <3>5
  <2> QED BY <1>7, <1>2, <2>1, <2>2, <2>3, <2>4
<1>12. at + size =< End(b)
  BY <1>2, <1>7
<1> QED BY <1>7, <1>11, <1>12 DEF b, P

\* The table B with P in the place of entry i.
Splice(B, i, P) == SubSeq(B, 1, i - 1) \o P \o SubSeq(B, i + 1, Len(B))

LEMMA Concat ==
  ASSUME NEW S, NEW s \in Seq(S), NEW t \in Seq(S)
  PROVE  /\ s \o t \in Seq(S) /\ Len(s \o t) = Len(s) + Len(t)
         /\ \A k \in 1..Len(s) : (s \o t)[k] = s[k]
         /\ \A k \in 1..Len(t) : (s \o t)[k + Len(s)] = t[k]
<1>1. Len(s) \in Nat /\ Len(t) \in Nat
  OBVIOUS
<1>2. s \o t \in Seq(S) /\ Len(s \o t) = Len(s) + Len(t)
  OBVIOUS
<1>3. \A k \in 1..Len(s) : (s \o t)[k] = s[k]
  OBVIOUS
<1>4. ASSUME NEW k \in 1..Len(t) PROVE (s \o t)[k + Len(s)] = t[k]
  <2>1. k + Len(s) \in 1..Len(s) + Len(t) /\ ~ (k + Len(s) =< Len(s)) /\ (k + Len(s)) - Len(s) = k
    BY <1>1
  <2>2. (s \o t)[k + Len(s)] = t[(k + Len(s)) - Len(s)]
    BY <1>1, <2>1
  <2> QED BY <2>1, <2>2
<1> QED BY <1>2, <1>3, <1>4

\* Entry by entry, what the table is after it.
LEMMA SpliceIs ==
  ASSUME NEW B \in Seq(Block), NEW i \in 1..Len(B), NEW P \in Seq(Block), NEW N,
         N = Splice(B, i, P)
  PROVE  /\ N \in Seq(Block) /\ Len(N) = Len(B) + Len(P) - 1
         /\ \A k \in 1..Len(N) : k < i => N[k] = B[k]
         /\ \A k \in 1..Len(P) : N[k + i - 1] = P[k]
         /\ \A k \in 1..Len(B) : k > i => N[k + Len(P) - 1] = B[k]
<1> DEFINE U == SubSeq(B, 1, i - 1)
           V == SubSeq(B, i + 1, Len(B))
           W == U \o P
<1>1. Len(B) \in Nat /\ Len(P) \in Nat /\ i \in Nat /\ i > 0 /\ i =< Len(B)
  OBVIOUS
<1>2. U \in Seq(Block) /\ Len(U) = i - 1 /\ \A k \in 1..i - 1 : U[k] = B[k]
  <2>1. \A k \in 1..i - 1 : k \in 1..Len(B)
    BY <1>1
  <2> QED BY <1>1, <2>1
<1>3. V \in Seq(Block) /\ Len(V) = Len(B) - i /\ \A k \in 1..Len(B) - i : V[k] = B[k + i]
  <2>1. \A k \in i + 1..Len(B) : k \in 1..Len(B)
    BY <1>1
  <2>2. V \in Seq(Block) /\ Len(V) = Len(B) - i
    BY <1>1, <2>1
  <2>3. ASSUME NEW k \in 1..Len(B) - i PROVE V[k] = B[k + i]
    <3>1. V[k] = B[(i + 1) + k - 1] /\ (i + 1) + k - 1 = k + i
      BY <1>1
    <3> QED BY <3>1
  <2> QED BY <2>2, <2>3
<1>4. N = W \o V
  BY DEF Splice
<1>5. /\ W \in Seq(Block) /\ Len(W) = (i - 1) + Len(P)
      /\ \A k \in 1..i - 1 : W[k] = U[k]
      /\ \A k \in 1..Len(P) : W[k + (i - 1)] = P[k]
  <2> HIDE DEF U
  <2>1. /\ U \o P \in Seq(Block) /\ Len(U \o P) = Len(U) + Len(P)
        /\ \A k \in 1..Len(U) : (U \o P)[k] = U[k]
        /\ \A k \in 1..Len(P) : (U \o P)[k + Len(U)] = P[k]
    <3>1. U \o P \in Seq(Block) /\ Len(U \o P) = Len(U) + Len(P)
      BY <1>2, Concat
    <3>2. \A k \in 1..Len(U) : (U \o P)[k] = U[k]
      BY <1>2, Concat
    <3>3. \A k \in 1..Len(P) : (U \o P)[k + Len(U)] = P[k]
      BY <1>2, Concat
    <3> QED BY <3>1, <3>2, <3>3
  <2> QED BY <1>2, <2>1
<1> HIDE DEF U, V, W
<1>6. /\ N \in Seq(Block) /\ Len(N) = Len(W) + Len(V)
      /\ \A k \in 1..Len(W) : N[k] = W[k]
      /\ \A k \in 1..Len(V) : N[k + Len(W)] = V[k]
  <2>1. W \o V \in Seq(Block) /\ Len(W \o V) = Len(W) + Len(V)
    BY <1>3, <1>5, Concat
  <2>2. \A k \in 1..Len(W) : (W \o V)[k] = W[k]
    BY <1>3, <1>5, Concat
  <2>3. \A k \in 1..Len(V) : (W \o V)[k + Len(W)] = V[k]
    BY <1>3, <1>5, Concat
  <2> QED BY <1>4, <2>1, <2>2, <2>3
<1>10. Len(N) = Len(B) + Len(P) - 1
  BY <1>1, <1>3, <1>5, <1>6
<1>7. ASSUME NEW k \in 1..Len(N), k < i PROVE N[k] = B[k]
  <2>1. k \in 1..i - 1 /\ k \in 1..Len(W)
    BY <1>1, <1>5, <1>7, <1>10
  <2> QED BY <1>2, <1>5, <1>6, <2>1
<1>8. ASSUME NEW k \in 1..Len(P) PROVE N[k + i - 1] = P[k]
  <2>1. k + i - 1 \in 1..Len(W) /\ k + (i - 1) = k + i - 1
    BY <1>1, <1>5
  <2>2. W[k + i - 1] = P[k]
    BY <1>5, <2>1
  <2> QED BY <1>6, <2>1, <2>2
<1>9. ASSUME NEW k \in 1..Len(B), k > i PROVE N[k + Len(P) - 1] = B[k]
  <2>1. k - i \in 1..Len(B) - i /\ k - i \in 1..Len(V) /\ (k - i) + i = k
        /\ (k - i) + Len(W) = k + Len(P) - 1
    BY <1>1, <1>3, <1>5, <1>9
  <2>2. V[k - i] = B[(k - i) + i] /\ N[(k - i) + Len(W)] = V[k - i]
    BY <1>3, <1>6, <2>1
  <2> QED BY <2>1, <2>2
<1> QED BY <1>6, <1>7, <1>8, <1>9, <1>10

\* Where an entry of the table came from.
From(i, m, k) == IF k < i THEN k ELSE IF k < i + m THEN i ELSE (k + 1) - m

LEMMA FromIs ==
  ASSUME NEW B \in Seq(Block), NEW i \in 1..Len(B), NEW P \in Seq(Block), Len(P) > 0, NEW N,
         N = Splice(B, i, P), NEW k \in 1..Len(N)
  PROVE  /\ From(i, Len(P), k) \in 1..Len(B)
         /\ From(i, Len(P), k) = i => \E q \in 1..Len(P) : k = q + i - 1 /\ N[k] = P[q]
         /\ From(i, Len(P), k) # i => N[k] = B[From(i, Len(P), k)]
<1>1. /\ N \in Seq(Block) /\ Len(N) = Len(B) + Len(P) - 1
      /\ \A j \in 1..Len(N) : j < i => N[j] = B[j]
      /\ \A j \in 1..Len(P) : N[j + i - 1] = P[j]
      /\ \A j \in 1..Len(B) : j > i => N[j + Len(P) - 1] = B[j]
  <2>0. N \in Seq(Block)
    BY SpliceIs
  <2>1. Len(N) = Len(B) + Len(P) - 1
    BY SpliceIs
  <2>2. \A j \in 1..Len(N) : j < i => N[j] = B[j]
    BY SpliceIs
  <2>3. \A j \in 1..Len(P) : N[j + i - 1] = P[j]
    BY SpliceIs
  <2>4. \A j \in 1..Len(B) : j > i => N[j + Len(P) - 1] = B[j]
    BY SpliceIs
  <2> QED BY <2>0, <2>1, <2>2, <2>3, <2>4
<1>0. Len(B) \in Nat /\ Len(P) \in Nat /\ i \in Nat /\ i > 0 /\ i =< Len(B)
  OBVIOUS
<1>2. CASE k < i
  BY <1>0, <1>1, <1>2 DEF From
<1>3. CASE k >= i /\ k < i + Len(P)
  <2>1. From(i, Len(P), k) = i
    BY <1>0, <1>1, <1>3 DEF From
  <2>2. (k + 1) - i \in 1..Len(P) /\ k = ((k + 1) - i) + i - 1
    BY <1>0, <1>1, <1>3
  <2>3. N[((k + 1) - i) + i - 1] = P[(k + 1) - i]
    BY <1>0, <1>1, <2>2
  <2>4. N[k] = P[(k + 1) - i]
    BY <2>2, <2>3
  <2> QED BY <2>1, <2>2, <2>4
<1>4. CASE k >= i + Len(P)
  <2> DEFINE j == (k + 1) - Len(P)
  <2>1. From(i, Len(P), k) = j /\ j \in 1..Len(B) /\ j > i /\ j + Len(P) - 1 = k
    BY <1>0, <1>1, <1>4 DEF From
  <2> HIDE DEF j
  <2>2. N[j + Len(P) - 1] = B[j]
    BY <1>0, <1>1, <2>1
  <2> QED BY <2>1, <2>2
<1> QED BY <1>0, <1>1, <1>2, <1>3, <1>4

\* The order of the entries is that of where they came from.
LEMMA FromMonotone ==
  ASSUME NEW i \in Nat, NEW m \in Nat, NEW k \in Nat, NEW l \in Nat, k < l
  PROVE  From(i, m, k) < From(i, m, l) \/ (From(i, m, k) = i /\ From(i, m, l) = i)
BY DEF From

\* Sums and orders of naturals.
LEMMA Leq == \A a, b, c \in Nat : a =< b /\ b =< c => a =< c
OBVIOUS

LEMMA Further == \A a \in Nat, s \in Nat : s > 0 => a + s \in Nat /\ a < a + s
OBVIOUS

LEMMA Within ==
  \A x, s, t \in Nat : s =< t => x + t \in Nat /\ x + s =< x + t
OBVIOUS

\* A free block that is carved up for a request: the invariant is kept with the
\* request among the holdings.
LEMMA CarveKeeps ==
  ASSUME NEW B, NEW n, NEW H, Kept(B, n, H), Whole(B), NEW i \in 1..Len(B),
         B[i].size > 0, B[i].free, NEW P, NEW o,
         Carved(P, B[i], Low(o), o.size), Len(B) + Len(P) - 1 =< MaxBlocks,
         o.va \in Nat, o.size \in Nat \ {0}, Low(o) \in Nat,
         B[i].addr =< Low(o), Low(o) + o.size =< End(B[i]), NEW N, N = Splice(B, i, P)
  PROVE  Kept(N, n, H \cup {o}) /\ Whole(N)
<1> DEFINE F(k) == From(i, Len(P), k)
<1>size. Low(o) \in Nat /\ o.size \in Nat /\ o.size > 0 /\ Low(o) + o.size \in Nat
  <2>1. Low(o) \in Nat /\ o.size \in Nat /\ o.size > 0
    OBVIOUS
  <2> QED BY ONLY <2>1
<1>1. B \in Seq(Block) /\ Len(B) =< MaxBlocks /\ n \in HeapBase..HeapTop
  BY DEF Kept, Laid
<1>2. P \in Seq(Block) /\ Len(P) > 0 /\ Len(P) \in Nat /\ Len(B) \in Nat /\ i \in Nat
  BY <1>1 DEF Carved
<1>3. N \in Seq(Block) /\ Len(N) = Len(B) + Len(P) - 1 /\ Len(N) \in Nat /\ Len(B) =< Len(N)
  <2>1. N \in Seq(Block)
    BY <1>1, <1>2, SpliceIs
  <2>2. Len(N) = Len(B) + Len(P) - 1
    BY <1>1, <1>2, SpliceIs
  <2> QED BY <1>2, <2>1, <2>2
<1>seqs. B \in Seq(Block) /\ P \in Seq(Block)
  BY <1>1, <1>2
<1>above. \A k \in 1..Len(B) : k > i => N[k + Len(P) - 1] = B[k]
  BY <1>seqs, SpliceIs
<1>within. \A k \in 1..Len(P) : N[k + i - 1] = P[k]
  BY <1>seqs, SpliceIs
<1>below. \A k \in 1..Len(N) : k < i => N[k] = B[k]
  BY <1>seqs, SpliceIs
<1>4. /\ \A k \in 1..Len(B) : B[k].addr \in Nat /\ B[k].size \in Nat /\ End(B[k]) = B[k].addr + B[k].size
      /\ \A k \in 1..Len(P) : P[k].addr \in Nat /\ P[k].size \in Nat /\ End(P[k]) = P[k].addr + P[k].size
      /\ \A k \in 1..Len(N) : N[k].addr \in Nat /\ N[k].size \in Nat /\ End(N[k]) = N[k].addr + N[k].size
  BY <1>1, <1>2, <1>3, BlockIs
<1>ends. B[i].addr \in Nat /\ End(B[i]) \in Nat
  BY <1>1, BlockIs
<1>5. ASSUME NEW k \in 1..Len(N)
      PROVE  /\ F(k) \in 1..Len(B)
             /\ F(k) = i => \E q \in 1..Len(P) : k = q + i - 1 /\ N[k] = P[q]
             /\ F(k) # i => N[k] = B[F(k)]
  <2>1. F(k) \in 1..Len(B)
    BY <1>1, <1>2, FromIs
  <2>2. F(k) = i => \E q \in 1..Len(P) : k = q + i - 1 /\ N[k] = P[q]
    BY <1>1, <1>2, FromIs
  <2>3. F(k) # i => N[k] = B[F(k)]
    BY <1>1, <1>2, FromIs
  <2> QED BY <2>1, <2>2, <2>3
<1>6. ASSUME NEW k \in 1..Len(N), NEW l \in 1..Len(N), k < l
      PROVE  F(k) < F(l) \/ (F(k) = i /\ F(l) = i)
  BY <1>2, <1>3, <1>6, FromMonotone
<1> HIDE DEF F
\* An entry lies in the one that it came from.
<1>7. ASSUME NEW k \in 1..Len(N), N[k].size > 0
      PROVE  /\ B[F(k)].size > 0 /\ B[F(k)].addr =< N[k].addr /\ End(N[k]) =< End(B[F(k)])
             /\ N[k].free => B[F(k)].free
             /\ N[k].addr < End(N[k])
             /\ N[k].addr \in Nat /\ End(N[k]) \in Nat
             /\ B[F(k)].addr \in Nat /\ End(B[F(k)]) \in Nat
  <2>3. /\ N[k].addr < End(N[k]) /\ N[k].addr \in Nat /\ End(N[k]) \in Nat
        /\ B[F(k)].addr \in Nat /\ End(B[F(k)]) \in Nat
    <3>1. F(k) \in 1..Len(B)
      BY <1>5
    <3>2. B[F(k)].addr \in Nat /\ B[F(k)].size \in Nat /\ End(B[F(k)]) = B[F(k)].addr + B[F(k)].size
      BY <1>4, <3>1
    <3>3. N[k].addr \in Nat /\ N[k].size \in Nat /\ End(N[k]) = N[k].addr + N[k].size
      BY <1>4
    <3>4. End(N[k]) \in Nat /\ N[k].addr < End(N[k])
      BY <1>7, <3>3, Further
    <3>5. End(B[F(k)]) \in Nat
      BY ONLY <3>2
    <3> QED BY <3>2, <3>3, <3>4, <3>5
  <2>1. CASE F(k) = i
    <3>1. PICK q \in 1..Len(P) : N[k] = P[q]
      BY <1>5, <2>1
    <3>2. B[i].addr =< P[q].addr /\ End(P[q]) =< End(B[i])
      BY DEF Carved
    <3>4. N[k].free => B[F(k)].free
      BY <2>1
    <3> QED BY <2>1, <2>3, <3>1, <3>2, <3>4
  <2>2. CASE F(k) # i
    BY <1>5, <1>7, <2>2, <2>3
  <2> QED BY <2>1, <2>2, <2>3
<1>8. \A k, l \in 1..Len(B) : k < l /\ B[k].size > 0 /\ B[l].size > 0 => End(B[k]) =< B[l].addr
  BY DEF Kept, Laid
<1>9. ASSUME NEW k \in 1..Len(N), NEW l \in 1..Len(N), k < l, N[k].size > 0, N[l].size > 0
      PROVE  End(N[k]) =< N[l].addr
  <2>1. CASE F(k) < F(l)
    <3>1. End(B[F(k)]) =< B[F(l)].addr
      BY <1>5, <1>7, <1>8, <1>9, <2>1
    <3>2. End(N[k]) =< End(B[F(k)]) /\ B[F(l)].addr =< N[l].addr
      BY <1>7, <1>9
    <3>3. /\ End(N[k]) \in Nat /\ End(B[F(k)]) \in Nat
          /\ N[l].addr \in Nat /\ B[F(l)].addr \in Nat
      BY <1>7, <1>9
    <3>4. End(N[k]) =< B[F(l)].addr
      BY <3>1, <3>2, <3>3, Leq
    <3> QED BY <3>2, <3>3, <3>4, Leq
  <2>2. CASE F(k) = i /\ F(l) = i
    <3>1. PICK q \in 1..Len(P) : k = q + i - 1 /\ N[k] = P[q]
      BY <1>5, <2>2
    <3>2. PICK r \in 1..Len(P) : l = r + i - 1 /\ N[l] = P[r]
      BY <1>5, <2>2
    <3>3. q < r
      BY <1>2, <1>9, <3>1, <3>2
    <3> QED BY <3>1, <3>2, <3>3 DEF Carved
  <2> QED BY <1>6, <1>9, <2>1, <2>2
<1>10. Laid(N, n)
  <2>1. ASSUME NEW k \in 1..Len(N), N[k].size > 0 PROVE HeapBase =< N[k].addr /\ End(N[k]) =< n
    <3>1. HeapBase =< B[F(k)].addr /\ End(B[F(k)]) =< n
      BY <1>5, <1>7, <2>1 DEF Kept, Laid
    <3>2. /\ B[F(k)].addr =< N[k].addr /\ End(N[k]) =< End(B[F(k)])
          /\ N[k].addr \in Nat /\ End(N[k]) \in Nat
          /\ B[F(k)].addr \in Nat /\ End(B[F(k)]) \in Nat
      BY <1>7, <2>1
    <3>3. n \in Nat /\ HeapBase \in Nat
      BY <1>1, HeapAssumption
    <3> QED BY <3>1, <3>2, <3>3, Leq
  <2> QED BY <1>1, <1>3, <1>9, <2>1 DEF Laid
<1>11. Whole(N)
  <2> SUFFICES ASSUME NEW k \in 1..Len(N), NEW l \in 1..Len(N), N[k].size > 0, N[l].size > 0,
                      N[k].free, N[l].free, End(N[k]) = N[l].addr
               PROVE  FALSE
    BY DEF Whole
  <2>1. F(k) \in 1..Len(B) /\ F(l) \in 1..Len(B)
    BY <1>5
  <2>2. /\ B[F(k)].size > 0 /\ End(N[k]) =< End(B[F(k)]) /\ B[F(k)].free
        /\ B[F(l)].size > 0 /\ B[F(l)].addr =< N[l].addr /\ B[F(l)].free
        /\ N[k].addr < End(N[k]) /\ N[l].addr < End(N[l])
        /\ End(B[F(k)]) \in Nat /\ B[F(l)].addr \in Nat /\ End(N[k]) \in Nat /\ N[l].addr \in Nat
        /\ End(N[l]) \in Nat /\ N[k].addr \in Nat
    BY <1>7
  <2>3. k < l
    <3>1. ~ (l < k)
      <4> SUFFICES ASSUME l < k PROVE FALSE
        OBVIOUS
      <4>1. End(N[l]) =< N[k].addr
        BY <1>9
      <4>3. N[l].addr < End(N[l]) /\ End(N[l]) =< N[k].addr /\ N[k].addr < N[l].addr
        BY <2>2, <4>1
      <4>4. \A p, q, r \in Nat : ~ (p < q /\ q =< r /\ r < p)
        OBVIOUS
      <4> QED BY <2>2, <4>3, <4>4
    <3>2. k # l
      BY <1>4, <2>2
    <3> QED BY <3>1, <3>2
  <2>4. CASE F(k) = i /\ F(l) = i
    <3>1. PICK q \in 1..Len(P) : N[k] = P[q]
      BY <1>5, <2>4
    <3>2. PICK r \in 1..Len(P) : N[l] = P[r]
      BY <1>5, <2>4
    <3> QED BY <3>1, <3>2 DEF Carved
  <2>5. CASE F(k) < F(l)
    <3>1. End(B[F(k)]) =< B[F(l)].addr
      BY <1>8, <2>1, <2>2, <2>5
    <3>2. End(B[F(k)]) = B[F(l)].addr
      <4>1. B[F(l)].addr =< End(B[F(k)])
        <5>1. End(N[k]) =< End(B[F(k)]) /\ B[F(l)].addr =< End(N[k])
          BY <2>2
        <5> QED BY <2>2, <5>1, Leq
      <4>2. \A p, q \in Nat : p =< q /\ q =< p => p = q
        OBVIOUS
      <4> QED BY <2>2, <3>1, <4>1, <4>2
    <3> QED BY <2>1, <2>2, <3>2 DEF Whole
  <2> QED BY <1>6, <2>3, <2>4, <2>5
<1>12. /\ End(Span(o)) = Low(o) + o.size /\ Span(o).addr = Low(o)
       /\ \A p \in H : /\ End(Span(p)) = Low(p) + p.size /\ Span(p).addr = Low(p)
                       /\ p.size \in Nat \ {0} /\ Low(p) \in Nat
  BY DEF End, Span, Kept, Held
\* No holding so far reaches into the block.
<1>13. ASSUME NEW p \in H PROVE Misses(Span(p), B[i])
  BY DEF Kept, Meet, Lives
<1>14. Held(H \cup {o}, n)
  <2>1. HeapBase =< Low(o) /\ Low(o) + o.size =< n
    <3>1. HeapBase =< B[i].addr /\ End(B[i]) =< n
      BY DEF Kept, Laid
    <3>2. /\ n \in Nat /\ HeapBase \in Nat /\ B[i].addr \in Nat /\ End(B[i]) \in Nat
          /\ Low(o) + o.size \in Nat
      <4>1. B[i].addr \in Nat /\ End(B[i]) \in Nat
        BY <1>ends
      <4>2. n \in Nat /\ HeapBase \in Nat
        BY <1>1, HeapAssumption
      <4> QED BY <1>size, <4>1, <4>2
    <3> QED BY <3>1, <3>2, Leq
  <2>2. ASSUME NEW p \in H PROVE Misses(Span(p), Span(o)) /\ Misses(Span(o), Span(p))
    <3>1. Low(p) + p.size =< B[i].addr \/ End(B[i]) =< Low(p)
      BY <1>12, <1>13 DEF Misses
    <3>2. Low(p) + p.size =< Low(o) \/ Low(o) + o.size =< Low(p)
      BY <1>4, <1>12, <3>1
    <3> QED BY <1>12, <3>2 DEF Misses
  <2>3. Held(H, n)
    BY DEF Kept
  <2> QED BY <2>1, <2>2, <2>3 DEF Held
<1>15. PICK m \in 1..Len(P) : /\ ~ P[m].free /\ P[m].addr = Low(o) /\ o.size =< P[m].size
                              /\ \A k \in 1..Len(P) : k # m => P[k].free
  BY DEF Carved
<1>16. Meet(N, H \cup {o})
  <2> SUFFICES ASSUME NEW p \in H \cup {o}, NEW k \in 1..Len(N), N[k].size > 0
               PROVE  Misses(Span(p), N[k]) \/ Lives(N[k], p)
    BY DEF Meet
  <2>1. F(k) \in 1..Len(B) /\ B[F(k)].size > 0 /\ B[F(k)].addr =< N[k].addr
        /\ End(N[k]) =< End(B[F(k)])
        /\ N[k].addr \in Nat /\ End(N[k]) \in Nat
        /\ B[F(k)].addr \in Nat /\ End(B[F(k)]) \in Nat
    BY <1>5, <1>7
  <2>2. CASE p \in H /\ F(k) # i
    BY <1>5, <2>1, <2>2 DEF Kept, Meet
  <2>3. CASE p \in H /\ F(k) = i
    <3>1. Low(p) + p.size =< B[i].addr \/ End(B[i]) =< Low(p)
      BY <1>12, <1>13, <2>3 DEF Misses
    <3>2. Low(p) + p.size =< N[k].addr \/ End(N[k]) =< Low(p)
      <4>1. Low(p) \in Nat /\ p.size \in Nat
        BY <1>12, <2>3
      <4>2. B[i].addr =< N[k].addr /\ End(N[k]) =< End(B[i])
            /\ N[k].addr \in Nat /\ End(N[k]) \in Nat /\ B[i].addr \in Nat /\ End(B[i]) \in Nat
        BY <2>1, <2>3
      <4>3. Low(p) + p.size \in Nat
        BY <4>1
      <4>4. CASE Low(p) + p.size =< B[i].addr
        BY <4>2, <4>3, <4>4, Leq
      <4>5. CASE End(B[i]) =< Low(p)
        BY <4>1, <4>2, <4>5, Leq
      <4> QED BY <3>1, <4>4, <4>5
    <3> QED BY <1>12, <2>3, <3>2 DEF Misses
  <2>4. CASE p = o /\ F(k) # i
    <3>1. F(k) < i \/ i < F(k)
      BY <1>2, <2>1, <2>4
    <3>2. End(B[F(k)]) =< B[i].addr \/ End(B[i]) =< B[F(k)].addr
      BY <1>8, <2>1, <3>1
    <3>3. End(N[k]) =< Low(o) \/ Low(o) + o.size =< N[k].addr
      <4>1. End(B[i]) \in Nat /\ B[i].addr \in Nat
        BY <1>ends
      <4>2. CASE End(B[F(k)]) =< B[i].addr
        <5>1. End(B[F(k)]) =< Low(o)
          BY <2>1, <4>1, <4>2, Leq
        <5> QED BY <2>1, <5>1, Leq
      <4>3. CASE End(B[i]) =< B[F(k)].addr
        <5>1. Low(o) + o.size =< B[F(k)].addr
          BY <1>size, <2>1, <4>1, <4>3, Leq
        <5> QED BY <1>size, <2>1, <5>1, Leq
      <4> QED BY <3>2, <4>2, <4>3
    <3> QED BY <1>12, <2>4, <3>3 DEF Misses
  <2>5. CASE p = o /\ F(k) = i
    <3>1. PICK q \in 1..Len(P) : N[k] = P[q]
      BY <1>5, <2>5
    <3>2. CASE q = m
      BY <1>15, <2>5, <3>1, <3>2 DEF Lives
    <3>3. CASE q < m
      <4>1. End(P[q]) =< P[m].addr
        BY <3>3 DEF Carved
      <4> QED BY <1>12, <1>15, <2>5, <3>1, <4>1 DEF Misses
    <3>4. CASE m < q
      <4>1. End(P[m]) =< P[q].addr
        BY <3>4 DEF Carved
      <4>2. Low(o) + o.size =< P[q].addr
        <5>1. /\ P[m].addr \in Nat /\ P[m].size \in Nat /\ End(P[m]) = P[m].addr + P[m].size
              /\ P[q].addr \in Nat
          BY <1>4
        <5>2. o.size =< P[m].size /\ P[m].addr = Low(o)
          BY <1>15
        <5>3. Low(o) + P[m].size \in Nat /\ Low(o) + o.size =< Low(o) + P[m].size
          BY <1>size, <5>1, <5>2, Within
        <5>4. Low(o) + P[m].size =< P[q].addr
          BY <4>1, <5>1, <5>2
        <5> QED BY <1>size, <5>1, <5>3, <5>4, Leq
      <4> QED BY <1>12, <2>5, <3>1, <4>2 DEF Misses
    <3> QED BY <3>2, <3>3, <3>4
  <2> QED BY <2>2, <2>3, <2>4, <2>5
<1>17. Recording(N, H \cup {o})
  <2> SUFFICES ASSUME Len(N) < MaxBlocks
               PROVE  /\ \A p \in H \cup {o} : \E k \in 1..Len(N) : N[k].size > 0 /\ Lives(N[k], p)
                      /\ \A k \in 1..Len(N) : N[k].size > 0 /\ ~ N[k].free =>
                           \E p \in H \cup {o} : Low(p) = N[k].addr
    BY DEF Recording
  <2>1. Len(B) < MaxBlocks
    BY <1>2, <1>3, HeapAssumption
  <2>2. ASSUME NEW p \in H PROVE \E k \in 1..Len(N) : N[k].size > 0 /\ Lives(N[k], p)
    <3>1. PICK j \in 1..Len(B) : B[j].size > 0 /\ Lives(B[j], p)
      BY <2>1 DEF Kept, Recording
    <3>2. j # i
      BY <3>1 DEF Lives
    <3>3. CASE j < i
      <4>1. j \in 1..Len(N)
        BY <1>2, <1>3
      <4>2. N[j] = B[j]
        BY <1>below, <3>3, <4>1
      <4> QED BY <3>1, <4>1, <4>2
    <3>4. CASE i < j
      <4>1. j + Len(P) - 1 \in 1..Len(N)
        BY <1>2, <1>3
      <4>2. N[j + Len(P) - 1] = B[j]
        <5>1. j > i /\ j \in 1..Len(B)
          BY <3>4
        <5> QED BY <1>above, <5>1
      <4> QED BY <3>1, <4>1, <4>2
    <3> QED BY <3>2, <3>3, <3>4
  <2>3. \E k \in 1..Len(N) : N[k].size > 0 /\ Lives(N[k], o)
    <3>1. m + i - 1 \in 1..Len(N)
      BY <1>2, <1>3
    <3>2. N[m + i - 1] = P[m]
      BY <1>within
    <3>3. P[m].size > 0
      BY DEF Carved
    <3> QED BY <1>15, <3>1, <3>2, <3>3 DEF Lives
  <2>4. ASSUME NEW k \in 1..Len(N), N[k].size > 0, ~ N[k].free
        PROVE  \E p \in H \cup {o} : Low(p) = N[k].addr
    <3>1. CASE F(k) = i
      <4>1. PICK q \in 1..Len(P) : N[k] = P[q]
        BY <1>5, <3>1
      <4>2. q = m
        BY <1>15, <2>4, <4>1
      <4> QED BY <1>15, <4>1, <4>2
    <3>2. CASE F(k) # i
      <4>1. N[k] = B[F(k)] /\ F(k) \in 1..Len(B)
        BY <1>5, <3>2
      <4>2. PICK p \in H : Low(p) = B[F(k)].addr
        BY <2>1, <2>4, <4>1 DEF Kept, Recording
      <4> QED BY <4>1, <4>2
    <3> QED BY <3>1, <3>2
  <2> QED BY <2>2, <2>3, <2>4
<1> QED BY <1>10, <1>11, <1>14, <1>16, <1>17 DEF Kept

\* A block from the frontier, which a full table does not record.
LEMMA BumpKeeps ==
  ASSUME NEW B, NEW n, NEW H, Kept(B, n, H), Whole(B), NEW b \in Block, ~ b.free, NEW o,
         b.addr = Low(o), b.size = o.size, o.va \in Nat, o.size \in Nat \ {0}, Low(o) \in Nat,
         n =< Low(o), Low(o) + o.size =< HeapTop, NEW N,
         N = IF Len(B) < MaxBlocks THEN Append(B, b) ELSE B
  PROVE  Kept(N, Low(o) + o.size, H \cup {o}) /\ Whole(N)
<1> DEFINE top == Low(o) + o.size
<1>1. /\ B \in Seq(Block) /\ Len(B) =< MaxBlocks /\ n \in HeapBase..HeapTop
      /\ \A k, l \in 1..Len(B) : k < l /\ B[k].size > 0 /\ B[l].size > 0 => End(B[k]) =< B[l].addr
      /\ \A k \in 1..Len(B) : B[k].size > 0 => HeapBase =< B[k].addr /\ End(B[k]) =< n
      /\ HeapBase \in Nat /\ HeapTop \in Nat /\ MaxBlocks \in Nat /\ n \in Nat
  BY HeapAssumption DEF Kept, Laid
<1>2. /\ top \in HeapBase..HeapTop /\ n < top /\ Low(o) < top /\ HeapBase =< Low(o)
      /\ End(b) = top /\ End(Span(o)) = top /\ Span(o).addr = Low(o)
  BY <1>1 DEF End, Span
<1>3. /\ \A k \in 1..Len(B) : B[k].addr \in Nat /\ B[k].size \in Nat /\ End(B[k]) = B[k].addr + B[k].size
      /\ Len(B) \in Nat
  BY <1>1, BlockIs
<1> HIDE DEF top
<1>4. ASSUME NEW k \in 1..Len(B), B[k].size > 0
      PROVE  HeapBase =< B[k].addr /\ End(B[k]) =< Low(o) /\ End(B[k]) =< top /\ B[k].addr < Low(o)
  <2>1. HeapBase =< B[k].addr /\ End(B[k]) =< n
    BY <1>1, <1>4
  <2>2. B[k].addr \in Nat /\ B[k].size \in Nat /\ End(B[k]) = B[k].addr + B[k].size
    BY <1>3
  <2>3. B[k].addr < End(B[k]) /\ End(B[k]) \in Nat
    BY <1>4, <2>2
  <2>4. n \in Nat /\ Low(o) \in Nat /\ top \in Nat /\ n =< Low(o) /\ Low(o) =< top
    BY <1>1, <1>2
  <2>5. End(B[k]) =< Low(o)
    BY <2>1, <2>3, <2>4, Leq
  <2>6. End(B[k]) =< top
    BY <2>3, <2>4, <2>5, Leq
  <2>7. B[k].addr < Low(o)
    BY <2>2, <2>3, <2>4, <2>5
  <2> QED BY <2>1, <2>5, <2>6, <2>7
<1>5. Held(H \cup {o}, top)
  <2>1. \A p \in H : /\ p.va \in Nat /\ p.size \in Nat \ {0} /\ Low(p) \in Nat
                     /\ HeapBase =< Low(p) /\ Low(p) + p.size =< n
    BY DEF Kept, Held
  <2>2. ASSUME NEW p \in H
        PROVE  Low(p) + p.size =< top /\ Misses(Span(p), Span(o)) /\ Misses(Span(o), Span(p))
    <3>1. Low(p) + p.size \in Nat /\ Low(p) + p.size =< n
      BY <2>1
    <3>2. Low(p) + p.size =< top /\ Low(p) + p.size =< Low(o)
      BY <1>1, <1>2, <3>1
    <3>3. End(Span(p)) = Low(p) + p.size
      BY DEF End, Span
    <3> QED BY <1>2, <3>2, <3>3 DEF Misses
  <2>3. \A p, q \in H : p = q \/ Misses(Span(p), Span(q))
    BY DEF Kept, Held
  <2> QED BY <1>2, <2>1, <2>2, <2>3 DEF Held, top
<1>6. ASSUME NEW k \in 1..Len(B), B[k].size > 0 PROVE Misses(Span(o), B[k])
  BY <1>2, <1>4, <1>6 DEF Misses
<1>7. CASE Len(B) < MaxBlocks
  <2>1. /\ N \in Seq(Block) /\ Len(N) = Len(B) + 1 /\ N[Len(B) + 1] = b
        /\ \A k \in 1..Len(B) : N[k] = B[k]
        /\ \A k \in 1..Len(N) : k = Len(B) + 1 \/ k \in 1..Len(B)
    <3>1. N = Append(B, b)
      BY <1>7
    <3>2. N \in Seq(Block) /\ Len(N) = Len(B) + 1 /\ N[Len(B) + 1] = b
      BY <1>1, <3>1
    <3>3. \A k \in 1..Len(B) : N[k] = B[k]
      BY <1>1, <3>1
    <3> QED BY <1>3, <3>2, <3>3
  <2>2. Laid(N, top)
    <3>1. ASSUME NEW k \in 1..Len(N), N[k].size > 0 PROVE HeapBase =< N[k].addr /\ End(N[k]) =< top
      <4>1. CASE k = Len(B) + 1
        BY <1>1, <1>2, <2>1, <4>1
      <4>2. CASE k \in 1..Len(B)
        BY <1>4, <2>1, <3>1, <4>2
      <4> QED BY <2>1, <4>1, <4>2
    <3>2. ASSUME NEW k \in 1..Len(N), NEW l \in 1..Len(N), k < l, N[k].size > 0, N[l].size > 0
          PROVE  End(N[k]) =< N[l].addr
      <4>1. k \in 1..Len(B)
        BY <1>3, <2>1, <3>2
      <4>2. CASE l \in 1..Len(B)
        BY <1>1, <2>1, <3>2, <4>1, <4>2
      <4>3. CASE l = Len(B) + 1
        BY <1>4, <2>1, <3>2, <4>1, <4>3
      <4> QED BY <2>1, <4>2, <4>3
    <3>3. Len(N) =< MaxBlocks
      BY <1>1, <1>3, <1>7, <2>1
    <3> QED BY <1>2, <2>1, <3>1, <3>2, <3>3 DEF Laid
  <2>3. Whole(N)
    <3>1. \A k \in 1..Len(N) : N[k].free => k \in 1..Len(B) /\ N[k] = B[k]
      BY <2>1
    <3> QED BY <3>1 DEF Whole
  <2>4. Meet(N, H \cup {o})
    <3> SUFFICES ASSUME NEW p \in H \cup {o}, NEW k \in 1..Len(N), N[k].size > 0
                 PROVE  Misses(Span(p), N[k]) \/ Lives(N[k], p)
      BY DEF Meet
    <3>1. CASE p \in H /\ k \in 1..Len(B)
      BY <2>1, <3>1 DEF Kept, Meet
    <3>2. CASE p \in H /\ k = Len(B) + 1
      <4>1. Low(p) + p.size =< n /\ p.size \in Nat \ {0} /\ Low(p) \in Nat
        BY <3>2 DEF Kept, Held
      <4>2. Low(p) + p.size =< b.addr
        BY <1>1, <4>1
      <4>3. End(Span(p)) = Low(p) + p.size
        BY DEF End, Span
      <4> QED BY <2>1, <3>2, <4>2, <4>3 DEF Misses
    <3>3. CASE p = o /\ k \in 1..Len(B)
      BY <1>6, <2>1, <3>3
    <3>4. CASE p = o /\ k = Len(B) + 1
      BY <2>1, <3>4 DEF Lives
    <3> QED BY <2>1, <3>1, <3>2, <3>3, <3>4
  <2>5. Recording(N, H \cup {o})
    <3> SUFFICES /\ \A p \in H \cup {o} : \E k \in 1..Len(N) : N[k].size > 0 /\ Lives(N[k], p)
                 /\ \A k \in 1..Len(N) : N[k].size > 0 /\ ~ N[k].free =>
                      \E p \in H \cup {o} : Low(p) = N[k].addr
      BY DEF Recording
    <3>1. Len(B) + 1 \in 1..Len(N) /\ \A k \in 1..Len(B) : k \in 1..Len(N)
      BY <1>3, <2>1
    <3>2. ASSUME NEW p \in H PROVE \E k \in 1..Len(N) : N[k].size > 0 /\ Lives(N[k], p)
      <4>1. PICK k \in 1..Len(B) : B[k].size > 0 /\ Lives(B[k], p)
        BY <1>7 DEF Kept, Recording
      <4> QED BY <2>1, <3>1, <4>1
    <3>3. N[Len(B) + 1].size > 0 /\ Lives(N[Len(B) + 1], o)
      BY <2>1 DEF Lives
    <3>4. ASSUME NEW k \in 1..Len(N), N[k].size > 0, ~ N[k].free
          PROVE  \E p \in H \cup {o} : Low(p) = N[k].addr
      <4>1. CASE k \in 1..Len(B)
        BY <1>7, <2>1, <3>4, <4>1 DEF Kept, Recording
      <4>2. CASE k = Len(B) + 1
        BY <2>1, <4>2
      <4> QED BY <2>1, <4>1, <4>2
    <3> QED BY <3>1, <3>2, <3>3, <3>4
  <2> QED BY <1>5, <2>2, <2>3, <2>4, <2>5 DEF Kept, top
<1>8. CASE ~ (Len(B) < MaxBlocks)
  <2>1. N = B
    BY <1>8
  <2>2. Laid(B, top)
    BY <1>1, <1>2, <1>4 DEF Laid
  <2>3. Meet(B, H \cup {o})
    BY <1>6 DEF Kept, Meet
  <2>4. Recording(B, H \cup {o})
    BY <1>8 DEF Recording
  <2> QED BY <1>5, <2>1, <2>2, <2>3, <2>4 DEF Kept, top
<1> QED BY <1>7, <1>8

\* The frontier of which Absorbed is the table.
Reach == IF Absorbs THEN HeapTop ELSE next

\* No free block reaches the untouched arena.
Tight(B, n) ==
  n < HeapTop => \A i \in 1..Len(B) : B[i].size > 0 /\ B[i].free => End(B[i]) # n

LEMMA AbsorbKeeps ==
  ASSUME Kept(blocks, next, owned), Whole(blocks)
  PROVE  /\ Kept(Absorbed, Reach, owned) /\ Whole(Absorbed) /\ Tight(Absorbed, Reach)
         /\ Len(Absorbed) = Len(blocks)
<1>1. /\ blocks \in Seq(Block) /\ Len(blocks) =< MaxBlocks /\ next \in HeapBase..HeapTop
      /\ \A k, l \in 1..Len(blocks) :
           k < l /\ blocks[k].size > 0 /\ blocks[l].size > 0 => End(blocks[k]) =< blocks[l].addr
      /\ \A k \in 1..Len(blocks) :
           blocks[k].size > 0 => HeapBase =< blocks[k].addr /\ End(blocks[k]) =< next
      /\ HeapBase \in Nat /\ HeapTop \in Nat /\ next \in Nat
  BY HeapAssumption DEF Kept, Laid
<1>2. /\ \A k \in 1..Len(blocks) : /\ blocks[k].addr \in Nat /\ blocks[k].size \in Nat
                                   /\ End(blocks[k]) = blocks[k].addr + blocks[k].size
      /\ Len(blocks) \in Nat
  BY <1>1, BlockIs
<1>3. Entries(blocks) \in SUBSET (1..Len(blocks))
      /\ \A i \in 1..Len(blocks) : i \in Entries(blocks) <=> blocks[i].size > 0
  BY EntriesAre
<1> DEFINE i == LastOf(Entries(blocks))
<1>4. ASSUME Entries(blocks) # {}
      PROVE  i \in 1..Len(blocks) /\ blocks[i].size > 0 /\ \A k \in Entries(blocks) : k =< i
  <2>1. i \in Entries(blocks) /\ \A k \in Entries(blocks) : k =< i
    BY <1>2, <1>3, <1>4, LastIs
  <2> QED BY <1>3, <2>1
<1>5. CASE Absorbs
  <2> DEFINE A == Absorbed
             x == [blocks[i] EXCEPT !.size = HeapTop - blocks[i].addr]
  <2>1. /\ next < HeapTop /\ i \in 1..Len(blocks) /\ blocks[i].size > 0
        /\ blocks[i].free /\ End(blocks[i]) = next
    BY <1>4, <1>5 DEF Absorbs
  <2>2. Reach = HeapTop /\ A = [blocks EXCEPT ![i] = x]
    BY <1>5 DEF Reach, Absorbed
  <2>3. HeapTop - blocks[i].addr \in Nat /\ HeapTop - blocks[i].addr > 0
        /\ blocks[i].addr + (HeapTop - blocks[i].addr) = HeapTop
    BY <1>1, <1>2, <2>1
  <2>4. x \in Block /\ x.addr = blocks[i].addr /\ x.free /\ x.size > 0 /\ End(x) = HeapTop
    <3> DEFINE j == i
    <3>1. blocks[j] \in Block
      BY <1>1, <2>1, BlockIs
    <3> HIDE DEF j
    <3>2. /\ [blocks[j] EXCEPT !.size = HeapTop - blocks[j].addr] \in Block
          /\ [blocks[j] EXCEPT !.size = HeapTop - blocks[j].addr].addr = blocks[j].addr
          /\ [blocks[j] EXCEPT !.size = HeapTop - blocks[j].addr].free = blocks[j].free
          /\ [blocks[j] EXCEPT !.size = HeapTop - blocks[j].addr].size = HeapTop - blocks[j].addr
      BY <2>3, <3>1 DEF Block, j
    <3> QED BY <2>1, <2>3, <3>2 DEF j, End
  <2> HIDE DEF x, i
  <2>5. /\ A \in Seq(Block) /\ Len(A) = Len(blocks) /\ A[i] = x
        /\ \A k \in 1..Len(blocks) : k # i => A[k] = blocks[k]
    BY <1>1, <2>1, <2>2, <2>4
  <2> HIDE DEF A
  <2>6. \A k \in 1..Len(blocks) : k # i /\ blocks[k].size > 0 => k < i
    BY <1>3, <1>4, <2>1 DEF i
  <2>7. ASSUME NEW k \in 1..Len(blocks), A[k].size > 0
        PROVE  /\ blocks[k].size > 0 /\ A[k].addr = blocks[k].addr /\ A[k].free = blocks[k].free
               /\ HeapBase =< A[k].addr /\ End(A[k]) =< HeapTop
               /\ k # i => End(A[k]) = End(blocks[k]) /\ k < i /\ End(A[k]) =< next
    <3>1. CASE k = i
      <4>1. A[k] = x /\ blocks[k].size > 0 /\ blocks[k].free
        BY <2>1, <2>5, <3>1
      <4>2. x.addr = blocks[k].addr /\ x.free /\ End(x) = HeapTop /\ HeapBase =< blocks[k].addr
        BY <1>1, <2>4, <3>1, <4>1
      <4>3. A[k].free = blocks[k].free
        BY <1>1, <2>4, <2>5, <4>1, <4>2, BlockIs
      <4>4. HeapTop =< HeapTop
        BY <1>1
      <4> QED BY <3>1, <4>1, <4>2, <4>3, <4>4
    <3>2. CASE k # i
      BY <1>1, <1>2, <2>5, <2>6, <2>7, <3>2
    <3> QED BY <3>1, <3>2
  <2>8. ASSUME NEW k \in 1..Len(blocks), NEW l \in 1..Len(blocks), k < l,
               A[k].size > 0, A[l].size > 0
        PROVE  End(A[k]) =< A[l].addr
    <3>1. k # i
      BY <2>7, <2>8, <1>2
    <3>2. End(A[k]) = End(blocks[k]) /\ A[l].addr = blocks[l].addr
      BY <2>7, <2>8, <3>1
    <3> QED BY <1>1, <2>7, <2>8, <3>2
  <2>9. Laid(A, HeapTop)
    <3>1. HeapTop \in HeapBase..HeapTop
      BY <1>1, HeapAssumption
    <3> QED BY <1>1, <2>5, <2>7, <2>8, <3>1 DEF Laid
  <2>10. Whole(A)
    <3> SUFFICES ASSUME NEW k \in 1..Len(blocks), NEW l \in 1..Len(blocks), A[k].size > 0,
                        A[l].size > 0, A[k].free, A[l].free, End(A[k]) = A[l].addr
                 PROVE  FALSE
      BY <2>5 DEF Whole
    <3>1. CASE k = i
      <4>1. A[l].addr < End(A[l]) /\ End(A[l]) =< HeapTop /\ A[l].addr \in Nat /\ End(A[l]) \in Nat
        <5>1. A[l].addr \in Nat /\ A[l].size \in Nat /\ End(A[l]) = A[l].addr + A[l].size
          BY <2>5, BlockIs
        <5> QED BY <2>7, <5>1
      <4>2. End(A[k]) = HeapTop
        BY <2>4, <2>5, <3>1
      <4> QED BY <1>1, <4>1, <4>2
    <3>2. CASE k # i
      BY <2>7, <3>2 DEF Whole
    <3> QED BY <3>1, <3>2
  <2>11. Held(owned, HeapTop)
    <3>1. \A o \in owned : Low(o) + o.size =< next /\ Low(o) \in Nat /\ o.size \in Nat \ {0}
      BY DEF Kept, Held
    <3>2. \A o \in owned : Low(o) + o.size =< HeapTop
      BY <1>1, <2>1, <3>1
    <3> QED BY <3>2 DEF Kept, Held
  <2>12. Meet(A, owned)
    <3> SUFFICES ASSUME NEW o \in owned, NEW k \in 1..Len(blocks), A[k].size > 0
                 PROVE  Misses(Span(o), A[k]) \/ Lives(A[k], o)
      BY <2>5 DEF Meet
    <3>1. Misses(Span(o), blocks[k]) \/ Lives(blocks[k], o)
      BY <2>7 DEF Kept, Meet
    <3>2. CASE k # i
      BY <2>5, <3>1, <3>2
    <3>3. CASE k = i
      <4>1. /\ End(Span(o)) = Low(o) + o.size /\ Span(o).addr = Low(o)
            /\ Low(o) \in Nat /\ o.size \in Nat \ {0} /\ Low(o) + o.size =< next
        BY DEF End, Span, Kept, Held
      <4>2. Low(o) + o.size =< blocks[i].addr \/ next =< Low(o)
        BY <2>1, <3>1, <3>3, <4>1 DEF Misses, Lives
      <4>3. Low(o) + o.size =< blocks[i].addr
        BY <1>1, <4>1, <4>2
      <4> QED BY <2>4, <2>5, <3>3, <4>1, <4>3 DEF Misses
    <3> QED BY <3>2, <3>3
  <2>13. Recording(A, owned)
    <3>1. \A k \in 1..Len(blocks) : ~ blocks[k].free => k # i /\ A[k] = blocks[k]
      BY <2>1, <2>5
    <3>2. \A k \in 1..Len(blocks) : ~ A[k].free => k # i /\ A[k] = blocks[k]
      BY <2>4, <2>5
    <3>3. Recording(blocks, owned)
      BY DEF Kept
    <3> HIDE DEF A
    <3>4. ASSUME Len(blocks) < MaxBlocks, NEW o \in owned
          PROVE  \E k \in 1..Len(blocks) : A[k].size > 0 /\ Lives(A[k], o)
      <4>1. PICK k \in 1..Len(blocks) : blocks[k].size > 0 /\ Lives(blocks[k], o)
        BY <3>3, <3>4 DEF Recording
      <4>2. ~ blocks[k].free
        BY <4>1 DEF Lives
      <4>3. A[k] = blocks[k]
        BY <3>1, <4>2
      <4> QED BY <4>1, <4>3
    <3>5. ASSUME Len(blocks) < MaxBlocks, NEW k \in 1..Len(blocks), A[k].size > 0, ~ A[k].free
          PROVE  \E o \in owned : Low(o) = A[k].addr
      <4>1. A[k] = blocks[k]
        BY <3>2, <3>5
      <4> QED BY <3>3, <3>5, <4>1 DEF Recording
    <3> QED BY <2>5, <3>4, <3>5 DEF Recording
  <2>14. Tight(A, HeapTop)
    BY <1>1 DEF Tight
  <2> QED BY <2>2, <2>5, <2>9, <2>10, <2>11, <2>12, <2>13, <2>14 DEF Kept, A
<1>6. CASE ~ Absorbs
  <2>1. Absorbed = blocks /\ Reach = next
    BY <1>6 DEF Absorbed, Reach
  <2>2. Tight(blocks, next)
    <3> SUFFICES ASSUME next < HeapTop, NEW k \in 1..Len(blocks), blocks[k].size > 0,
                        blocks[k].free, End(blocks[k]) = next
                 PROVE  FALSE
      BY DEF Tight
    <3>1. Entries(blocks) # {} /\ k \in Entries(blocks)
      BY <1>3
    <3>2. i \in 1..Len(blocks) /\ blocks[i].size > 0 /\ k =< i
      BY <1>4, <3>1
    <3> HIDE DEF i
    <3>3. CASE k = i
      BY <1>6, <3>1, <3>3 DEF Absorbs, i
    <3>4. CASE k # i
      <4>1. End(blocks[k]) =< blocks[i].addr
        BY <1>1, <3>2, <3>4
      <4>2. End(blocks[i]) =< next /\ blocks[i].addr < End(blocks[i])
            /\ End(blocks[i]) \in Nat /\ blocks[i].addr \in Nat
        BY <1>1, <1>2, <3>2
      <4> QED BY <1>1, <4>1, <4>2
    <3> QED BY <3>3, <3>4
  <2> QED BY <2>1, <2>2
<1> QED BY <1>5, <1>6

\* Where a run of free memory is long enough, a block or the frontier serves.
LEMMA RoomServes ==
  ASSUME NEW B, NEW n, NEW H, Kept(B, n, H), Whole(B), Tight(B, n), Len(B) + 1 < MaxBlocks,
         NEW size \in Nat \ {0}, NEW align \in Nat \ {0},
         NEW a \in HeapBase..HeapTop, a % align = 0, a + size =< HeapTop,
         \A u \in a..a + size - 1 :
           \/ u >= n
           \/ \E i \in Entries(B) : B[i].free /\ B[i].addr =< u /\ u < End(B[i])
  PROVE  \/ \E i \in 1..Len(B) : Fits(B, i, size, align)
         \/ n < HeapTop /\ Up(n, align) + size =< HeapTop
<1>1. /\ B \in Seq(Block) /\ Len(B) =< MaxBlocks /\ n \in HeapBase..HeapTop
      /\ \A k, l \in 1..Len(B) : k < l /\ B[k].size > 0 /\ B[l].size > 0 => End(B[k]) =< B[l].addr
      /\ \A k \in 1..Len(B) : B[k].size > 0 => HeapBase =< B[k].addr /\ End(B[k]) =< n
      /\ HeapBase \in Nat /\ HeapTop \in Nat /\ n \in Nat /\ MaxBlocks \in Nat
      /\ a \in Nat /\ size \in Nat /\ size > 0
  BY HeapAssumption DEF Kept, Laid
<1>2. /\ \A k \in 1..Len(B) : B[k].addr \in Nat /\ B[k].size \in Nat /\ End(B[k]) = B[k].addr + B[k].size
      /\ Len(B) \in Nat
  BY <1>1, BlockIs
<1>3. a \in a..a + size - 1
  BY <1>1
<1>4. CASE a >= n
  <2>1. Up(n, align) =< a /\ Up(n, align) \in Nat
    BY <1>1, <1>4, UpIs
  <2>2. n < HeapTop
    BY <1>1, <1>4
  <2> QED BY <1>1, <2>1, <2>2
<1>5. CASE \E i \in Entries(B) : B[i].free /\ B[i].addr =< a /\ a < End(B[i])
  <2>1. PICK i \in 1..Len(B) : /\ B[i].size > 0 /\ B[i].free
                               /\ B[i].addr =< a /\ a < End(B[i])
    BY <1>5 DEF Entries
  <2>2. CASE a + size =< End(B[i])
    <3>1. /\ Up(B[i].addr, align) =< a /\ Up(B[i].addr, align) \in Nat
          /\ B[i].addr =< Up(B[i].addr, align)
      BY <1>1, <1>2, <2>1, UpIs
    <3>2. Lead(B[i], align) + size =< B[i].size
      <4>1. Up(B[i].addr, align) + size =< B[i].addr + B[i].size
        BY <1>1, <1>2, <2>2, <3>1
      <4> QED BY <1>1, <1>2, <3>1, <4>1 DEF Lead
    <3>3. Len(B) + 2 =< MaxBlocks
      BY <1>1, <1>2
    <3>4. B[i].size >= Lead(B[i], align) + size
      BY <1>1, <1>2, <3>1, <3>2 DEF Lead
    <3> QED BY <2>1, <3>3, <3>4 DEF Fits
  <2>3. CASE End(B[i]) < a + size
    <3> DEFINE u == End(B[i])
    <3>1. u \in a..a + size - 1 /\ u \in Nat /\ u =< n /\ B[i].addr < u
      BY <1>1, <1>2, <2>1, <2>3
    <3>2. u # n
      <4>1. ASSUME u = n PROVE n < HeapTop
        <5>1. n < a + size
          BY <2>3, <4>1
        <5> QED BY <1>1, <5>1
      <4> QED BY <2>1, <4>1 DEF Tight
    <3>3. PICK j \in 1..Len(B) : /\ B[j].size > 0 /\ B[j].free
                                 /\ B[j].addr =< u /\ u < End(B[j])
      <4>1. ~ (u >= n)
        BY <1>1, <3>1, <3>2
      <4> HIDE DEF u
      <4> QED BY <3>1, <4>1 DEF Entries
    <3>4. B[j].addr # u
      BY <2>1, <3>3 DEF Whole
    <3>5. i # j
      BY <1>2, <3>1, <3>3
    <3>6. CASE i < j
      <4>1. u =< B[j].addr
        BY <1>1, <2>1, <3>3, <3>6
      <4>2. B[j].addr \in Nat
        BY <1>2
      <4> QED BY <3>1, <3>3, <3>4, <4>1, <4>2
    <3>7. CASE j < i
      <4>1. End(B[j]) =< B[i].addr
        BY <1>1, <2>1, <3>3, <3>7
      <4>2. End(B[j]) \in Nat /\ B[i].addr \in Nat
        BY <1>2
      <4> QED BY <3>1, <3>3, <4>1, <4>2
    <3> QED BY <3>5, <3>6, <3>7
  <2>4. End(B[i]) \in Nat
    BY <1>2
  <2> QED BY <1>1, <2>2, <2>3, <2>4
<1> QED BY <1>3, <1>4, <1>5

\* What a request leaves: the invariant and, of a request that was refused, that
\* there was no room.  At most one holding is added.
LEMMA AllocKeeps ==
  ASSUME HeapInv, NEW size \in Nat \ {0}, NEW align \in Nat \ {0}, NEW view \in {0, Mirror},
         HeapAlloc(size, align, view)
  PROVE  /\ Kept(blocks', next', owned') /\ Whole(blocks') /\ ServedIfRoom'
         /\ \/ owned' = owned
            \/ \E at \in HeapBase..HeapTop - 1 :
                 owned' = owned \cup {[va |-> view + at, size |-> size, align |-> align]}
<1> DEFINE B == Absorbed
           found == {i \in 1..Len(B) : Fits(B, i, size, align)}
           room == ~ Absorbs /\ Up(next, align) + size =< HeapTop
           O(at) == [va |-> view + at, size |-> size, align |-> align]
<1>1. Kept(blocks, next, owned) /\ Whole(blocks)
  BY DEF HeapInv
<1>2. Kept(B, Reach, owned) /\ Whole(B) /\ Tight(B, Reach) /\ Len(B) = Len(blocks)
  BY <1>1, AbsorbKeeps
<1>3. /\ HeapBase \in Nat /\ HeapTop \in Nat /\ MaxBlocks \in Nat
      /\ B \in Seq(Block) /\ Len(B) =< MaxBlocks /\ Len(B) \in Nat
      /\ Reach \in HeapBase..HeapTop /\ next \in HeapBase..HeapTop
      /\ \A k \in 1..Len(B) : B[k].size > 0 => HeapBase =< B[k].addr /\ End(B[k]) =< Reach
  BY <1>1, <1>2, HeapAssumption DEF Kept, Laid
<1>4. ASSUME NEW at \in Nat, at < HeapTop
      PROVE  Low(O(at)) = at /\ O(at).va \in Nat /\ O(at).size = size
  BY <1>4, LowIs DEF Low
<1>5. \/ found # {} /\ Reuse(size, align, view, B, LeastOf(found))
      \/ found = {} /\ room /\ Bump(size, align, view)
      \/ found = {} /\ ~ room /\ Refuse(size, align)
  BY DEF HeapAlloc
<1> HIDE DEF B, O
<1>6. CASE found # {} /\ Reuse(size, align, view, B, LeastOf(found))
  <2>1. PICK i \in found : i = LeastOf(found)
    <3>1. found \in SUBSET Nat
      BY <1>3
    <3> QED BY <1>6, <3>1, LeastIs
  <2>2. i \in 1..Len(B) /\ Fits(B, i, size, align)
    BY <2>1
  <2> DEFINE at == Up(B[i].addr, align)
             P == Pieces(B, i, size, align)
  <2>3. /\ blocks' = Splice(B, i, P) /\ owned' = owned \cup {O(at)} /\ next' = Reach
        /\ refused' = Nothing
    BY <1>6, <2>1 DEF Reuse, Splice, O, Reach
  <2>4. /\ B[i].addr \in Nat /\ B[i].size \in Nat /\ End(B[i]) = B[i].addr + B[i].size
    BY <1>3, <2>2, BlockIs
  <2>5. B[i].free /\ B[i].size > 0
    <3>1. B[i].free /\ B[i].size >= Lead(B[i], align) + size
      BY <2>2 DEF Fits
    <3>2. Up(B[i].addr, align) \in Nat /\ B[i].addr =< Up(B[i].addr, align)
      BY <2>4, UpIs
    <3>3. Lead(B[i], align) \in Nat
      BY <2>4, <3>2 DEF Lead
    <3> QED BY <2>4, <3>1, <3>3
  <2>6. /\ Carved(P, B[i], at, size) /\ Len(B) + Len(P) - 1 =< MaxBlocks
        /\ B[i].addr =< at /\ at \in Nat /\ at + size =< End(B[i])
    <3>1. Carved(P, B[i], at, size)
      BY <1>3, <2>2, <2>5, PiecesAre
    <3>2. Len(B) + Len(P) - 1 =< MaxBlocks
      BY <1>3, <2>2, <2>5, PiecesAre
    <3>3. B[i].addr =< at /\ at \in Nat
      BY <1>3, <2>2, <2>5, PiecesAre
    <3>4. at + size =< End(B[i])
      BY <1>3, <2>2, <2>5, PiecesAre
    <3> QED BY <3>1, <3>2, <3>3, <3>4
  <2> HIDE DEF P, at
  <2>7. at < HeapTop /\ HeapBase =< at
    <3>1. HeapBase =< B[i].addr /\ End(B[i]) =< Reach
      BY <1>3, <2>2, <2>5
    <3>2. End(B[i]) \in Nat /\ Reach \in Nat /\ Reach =< HeapTop
      BY <1>3, <2>4
    <3>3. HeapBase =< at
      BY <1>3, <2>4, <2>6, <3>1
    <3>4. at < End(B[i])
      BY <2>6, <3>2
    <3> QED BY <1>3, <2>6, <3>1, <3>2, <3>3, <3>4
  <2>8. Low(O(at)) = at /\ O(at).va \in Nat /\ O(at).size = size
    BY <1>4, <2>6, <2>7
  <2> DEFINE o == O(at)
             N == Splice(B, i, P)
  <2>9. /\ Carved(P, B[i], Low(o), o.size) /\ o.va \in Nat /\ o.size \in Nat \ {0}
        /\ Low(o) \in Nat /\ B[i].addr =< Low(o) /\ Low(o) + o.size =< End(B[i])
    BY <2>6, <2>8
  <2> HIDE DEF o, N
  <2>10. Kept(N, Reach, owned \cup {o})
    BY <1>2, <2>2, <2>5, <2>6, <2>9, CarveKeeps DEF N
  <2>11. Whole(N)
    BY <1>2, <2>2, <2>5, <2>6, <2>9, CarveKeeps DEF N
  <2>12. ServedIfRoom'
    BY <2>3 DEF ServedIfRoom
  <2>13. at \in HeapBase..HeapTop - 1
    BY <1>3, <2>6, <2>7
  <2> QED BY <2>3, <2>10, <2>11, <2>12, <2>13 DEF N, o, O
<1>7. CASE found = {} /\ room /\ Bump(size, align, view)
  <2> DEFINE at == Up(next, align)
             b == [addr |-> at, size |-> size, req |-> size, free |-> FALSE]
             o == O(at)
             N == IF Len(blocks) < MaxBlocks THEN Append(blocks, b) ELSE blocks
  <2>1. /\ blocks' = N /\ owned' = owned \cup {o} /\ next' = at + size /\ refused' = Nothing
    BY <1>7 DEF Bump, O
  <2>2. at \in Nat /\ next =< at /\ at + size =< HeapTop
    BY <1>3, <1>7, UpIs
  <2> HIDE DEF at
  <2>3. at < HeapTop /\ at \in HeapBase..HeapTop - 1
    BY <1>3, <2>2
  <2>4. Low(o) = at /\ o.va \in Nat /\ o.size = size
    BY <1>4, <2>2, <2>3
  <2>5. b \in Block /\ ~ b.free /\ b.addr = at /\ b.size = size
    BY <2>2 DEF Block
  <2> HIDE DEF o, b, N
  <2>6. /\ b.addr = Low(o) /\ b.size = o.size /\ o.size \in Nat \ {0} /\ Low(o) \in Nat
        /\ next =< Low(o) /\ Low(o) + o.size =< HeapTop
    BY <2>2, <2>4, <2>5
  <2>7. Kept(N, Low(o) + o.size, owned \cup {o})
    BY <1>1, <2>4, <2>5, <2>6, BumpKeeps DEF N
  <2>8. Whole(N)
    BY <1>1, <2>4, <2>5, <2>6, BumpKeeps DEF N
  <2>9. ServedIfRoom'
    BY <2>1 DEF ServedIfRoom
  <2> QED BY <2>1, <2>3, <2>4, <2>7, <2>8, <2>9 DEF o, O
<1>8. CASE found = {} /\ ~ room /\ Refuse(size, align)
  <2>1. /\ blocks' = B /\ next' = Reach /\ owned' = owned
        /\ refused' = [size |-> size, align |-> align]
    BY <1>8 DEF Refuse, Reach, B
  <2>2. ServedIfRoom'
    <3> SUFFICES ASSUME Len(B) + 1 < MaxBlocks, RoomFor(size, align)' PROVE FALSE
      BY <2>1 DEF ServedIfRoom
    <3>1. PICK a \in HeapBase..HeapTop :
            /\ a % align = 0 /\ a + size =< HeapTop
            /\ \A u \in a..a + size - 1 :
                 \/ u >= Reach
                 \/ \E i \in Entries(B) : B[i].free /\ B[i].addr =< u /\ u < End(B[i])
      BY <2>1 DEF RoomFor, FreeUnit
    <3>2. \/ \E i \in 1..Len(B) : Fits(B, i, size, align)
          \/ Reach < HeapTop /\ Up(Reach, align) + size =< HeapTop
      BY <1>2, <3>1, RoomServes
    <3>3. CASE \E i \in 1..Len(B) : Fits(B, i, size, align)
      BY <1>8, <3>3
    <3>4. CASE Reach < HeapTop /\ Up(Reach, align) + size =< HeapTop
      <4>1. ~ Absorbs /\ Reach = next
        BY <1>3, <3>4 DEF Reach
      <4> QED BY <1>8, <3>4, <4>1
    <3> QED BY <3>2, <3>3, <3>4
  <2> QED BY <1>2, <2>1, <2>2
<1> QED BY <1>5, <1>6, <1>7, <1>8

-----------------------------------------------------------------------------
(* The steps.                                                              *)

LEMMA HeapInitHolds == HeapInit => HeapInv
<1> SUFFICES ASSUME HeapInit PROVE HeapInv
  OBVIOUS
<1> USE DEF HeapInit
<1>1. Laid(blocks, next)
  BY HeapAssumption DEF Laid
<1>2. Held(owned, next) /\ Meet(blocks, owned) /\ Recording(blocks, owned) /\ Whole(blocks)
  BY DEF Held, Meet, Recording, Whole
<1>3. StacksOK
  BY HeapAssumption, FS_EmptySet DEF StacksOK
<1>4. ServedIfRoom
  BY DEF ServedIfRoom
<1> QED BY <1>1, <1>2, <1>3, <1>4 DEF HeapInv, Kept

\* What is given back at va leaves the table and the holdings.
LEMMA FreeKeeps ==
  ASSUME HeapInv, NEW va \in Nat, Canonical(va) = va % Mirror, HeapFree(va),
         owned' = {o \in owned : ~ Holds(o, va)}, next' = next
  PROVE  Kept(blocks', next', owned') /\ Whole(blocks') /\ ServedIfRoom'
<1> DEFINE c == Canonical(va)
           match == {i \in Entries(blocks) : blocks[i].addr = c /\ ~ blocks[i].free}
           I == {o \in owned : Low(o) # c}
<1>1. Kept(blocks, next, owned) /\ Whole(blocks)
  BY DEF HeapInv
<1>2. /\ blocks' = IF match = {} THEN blocks ELSE Freed(blocks, LeastOf(match))
      /\ refused' = Nothing
  BY DEF HeapFree
<1>3. owned' = I
  BY DEF Holds
<1>4. ServedIfRoom'
  BY <1>2 DEF ServedIfRoom
<1>5. match \in SUBSET Nat /\ match \in SUBSET (1..Len(blocks))
  BY <1>1 DEF Entries, Kept, Laid
<1>6. CASE match = {}
  <2>1. \A k \in 1..Len(blocks) : blocks[k].size > 0 /\ ~ blocks[k].free => blocks[k].addr # c
    BY <1>6 DEF Entries
  <2>2. Held(I, next) /\ Meet(blocks, I)
    BY <1>1 DEF Kept, Held, Meet
  <2>3. Recording(blocks, I)
    <3>1. Recording(blocks, owned)
      BY <1>1 DEF Kept
    <3> HIDE DEF c, match
    <3> QED BY <2>1, <3>1 DEF Recording
  <2> QED BY <1>1, <1>2, <1>3, <1>4, <1>6, <2>2, <2>3 DEF Kept
<1>7. CASE match # {}
  <2>1. PICK i \in match : blocks' = Freed(blocks, i)
    BY <1>2, <1>5, <1>7, LeastIs
  <2>2. i \in 1..Len(blocks) /\ blocks[i].size > 0 /\ blocks[i].addr = c /\ ~ blocks[i].free
    BY <2>1 DEF Entries
  <2> HIDE DEF c, match
  <2>3. I = {o \in owned : Low(o) # blocks[i].addr}
    BY <2>2
  <2> HIDE DEF I
  <2>4. Kept(Freed(blocks, i), next, I)
    BY <1>1, <2>2, <2>3, FreedKeeps
  <2>5. Whole(Freed(blocks, i))
    BY <1>1, <2>2, FreedKeeps
  <2> QED BY <1>3, <1>4, <2>1, <2>4, <2>5
<1> QED BY <1>6, <1>7

LEMMA CanonicalIs ==
  ASSUME NEW a \in Nat, a < Mirror
  PROVE  /\ Canonical(a) = a % Mirror /\ a % Mirror = a
         /\ Canonical(a + Mirror) = (a + Mirror) % Mirror /\ (a + Mirror) % Mirror = a
<1>1. Mirror \in Nat \ {0} /\ a \in 0..Mirror - 1
  BY HeapAssumption
<1>2. (0 * Mirror + a) % Mirror = a /\ (1 * Mirror + a) % Mirror = a
  BY <1>1, DivModOf
<1>3. 0 * Mirror + a = a /\ 1 * Mirror + a = a + Mirror
  BY <1>1
<1>4. ~ (a >= Mirror) /\ a + Mirror >= Mirror /\ (a + Mirror) - Mirror = a
  BY <1>1
<1> QED BY <1>2, <1>3, <1>4 DEF Canonical

\* A stack has a length, and a free looks for one of the windows of an address.
LEMMA StackBytesAre == \A n \in Nat : StackBytes(n) \in Nat \ {0}
<1> SUFFICES ASSUME NEW n \in Nat PROVE StackBytes(n) \in Nat \ {0}
  OBVIOUS
<1> DEFINE x == IF n < StackMin THEN StackMin ELSE IF n > StackMax THEN StackMax ELSE n
<1>1. x \in Nat /\ x > 0
  BY HeapAssumption
<1>2. StackBytes(n) = Up(x, Page)
  BY DEF StackBytes
<1> HIDE DEF x
<1>3. Up(x, Page) \in Nat /\ x =< Up(x, Page)
  BY <1>1, UpIs, HeapAssumption
<1> QED BY <1>1, <1>2, <1>3

\* Every step keeps the invariant.
LEMMA HeapNextHolds == HeapInv /\ [HeapNext]_heapVars => HeapInv'
<1> SUFFICES ASSUME HeapInv, [HeapNext]_heapVars PROVE HeapInv'
  OBVIOUS
<1>1. /\ Page \in Nat \ {0} /\ 1 \in Nat \ {0} /\ Sizes \subseteq Nat \ {0} /\ MaxStacks \in Nat
      /\ HeapBase \in Nat \ {0} /\ HeapTop \in Nat /\ Mirror \in Nat /\ HeapTop =< Mirror
  BY HeapAssumption
<1>2. ASSUME NEW n \in Sizes, ContiguousAlloc(n) PROVE HeapInv'
  <2>1. HeapAlloc(n, Page, Mirror) /\ n \in Nat \ {0} /\ stacks' = stacks
    BY <1>1, <1>2 DEF ContiguousAlloc
  <2>2. Kept(blocks', next', owned') /\ Whole(blocks') /\ ServedIfRoom'
    BY <1>1, <2>1, AllocKeeps
  <2> QED BY <2>1, <2>2 DEF HeapInv, StacksOK
<1>3. ASSUME NEW n \in Sizes, PoolAlloc(n) PROVE HeapInv'
  <2>1. HeapAlloc(n, 1, 0) /\ n \in Nat \ {0} /\ stacks' = stacks
    BY <1>1, <1>3 DEF PoolAlloc
  <2>2. Kept(blocks', next', owned') /\ Whole(blocks') /\ ServedIfRoom'
    BY <1>1, <2>1, AllocKeeps
  <2> QED BY <2>1, <2>2 DEF HeapInv, StacksOK
<1>4. ASSUME NEW n \in Sizes, AllocThreadStack(n) PROVE HeapInv'
  <2> DEFINE bytes == StackBytes(n)
             S == {[top |-> o.va + bytes - 1, bytes |-> bytes] : o \in owned' \ owned}
  <2>1. /\ Cardinality(stacks) < MaxStacks /\ HeapAlloc(bytes, Page, 0) /\ stacks' = stacks \cup S
    BY <1>4 DEF AllocThreadStack
  <2>2. bytes \in Nat \ {0}
    BY <1>1, StackBytesAre
  <2>3. Kept(blocks', next', owned') /\ Whole(blocks') /\ ServedIfRoom'
    BY <1>1, <2>1, <2>2, AllocKeeps
  <2>4. \/ owned' = owned
        \/ \E at \in HeapBase..HeapTop - 1 :
             owned' = owned \cup {[va |-> 0 + at, size |-> bytes, align |-> Page]}
    BY <1>1, <2>1, <2>2, AllocKeeps
  <2> HIDE DEF bytes
  <2>5. IsFiniteSet(stacks) /\ Cardinality(stacks) \in Nat
    BY FS_CardinalityType DEF HeapInv, StacksOK
  <2>6. CASE owned' = owned
    <3>1. S = {}
      BY <2>6
    <3> QED BY <2>1, <2>3, <3>1 DEF HeapInv, StacksOK
  <2>7. ASSUME NEW at \in HeapBase..HeapTop - 1,
               owned' = owned \cup {[va |-> 0 + at, size |-> bytes, align |-> Page]}
        PROVE  HeapInv'
    <3> DEFINE s == [top |-> at + bytes - 1, bytes |-> bytes]
    <3>1. at \in Nat /\ 0 + at = at
      BY <1>1
    <3>2. \A t \in S : t = s
      BY <2>7, <3>1
    <3>3. s.top + 1 - s.bytes = at
      BY <2>2, <3>1
    <3> HIDE DEF s, S
    <3>4. stacks' = stacks \/ stacks' = stacks \cup {s}
      BY <2>1, <3>2
    <3>5. IsFiniteSet(stacks') /\ Cardinality(stacks') =< MaxStacks
      <4>1. /\ IsFiniteSet(stacks \cup {s})
            /\ Cardinality(stacks \cup {s}) = Cardinality(stacks)
               \/ Cardinality(stacks \cup {s}) = Cardinality(stacks) + 1
        BY <2>5, FS_AddElement
      <4> QED BY <1>1, <2>1, <2>5, <3>4, <4>1
    <3>6. \A t \in stacks' : StackBase(t) \in HeapBase..HeapTop - 1
      BY <3>3, <3>4 DEF StackBase, HeapInv, StacksOK
    <3> QED BY <2>3, <3>5, <3>6 DEF HeapInv, StacksOK
  <2> QED BY <2>4, <2>6, <2>7
<1>5. ASSUME NEW a \in Nat, a < Mirror, Free(a) \/ Free(a + Mirror) PROVE HeapInv'
  <2>1. PICK va \in {a, a + Mirror} : Free(va)
    BY <1>5
  <2>2. va \in Nat /\ Canonical(va) = va % Mirror
    <3>1. Canonical(a) = a % Mirror /\ Canonical(a + Mirror) = (a + Mirror) % Mirror
      BY <1>5, CanonicalIs
    <3>2. a + Mirror \in Nat
      BY <1>1
    <3> QED BY <3>1, <3>2
  <2>3. /\ HeapFree(va) /\ owned' = {o \in owned : ~ Holds(o, va)} /\ next' = next
        /\ stacks' = stacks
    BY <2>1 DEF Free
  <2>4. Kept(blocks', next', owned') /\ Whole(blocks') /\ ServedIfRoom'
    BY <2>2, <2>3, FreeKeeps
  <2> QED BY <2>3, <2>4 DEF HeapInv, StacksOK
<1>6. CASE FreeThreadStack
  <2>1. PICK s \in stacks : /\ HeapFree(StackBase(s))
                            /\ owned' = {o \in owned : ~ Holds(o, StackBase(s))}
                            /\ stacks' = stacks \ {s} /\ next' = next
    BY <1>6 DEF FreeThreadStack, StackBase
  <2>2. StackBase(s) \in Nat /\ StackBase(s) < Mirror
    BY <1>1 DEF HeapInv, StacksOK
  <2>3. Canonical(StackBase(s)) = StackBase(s) % Mirror
    BY <2>2, CanonicalIs
  <2>4. Kept(blocks', next', owned') /\ Whole(blocks') /\ ServedIfRoom'
    BY <2>1, <2>2, <2>3, FreeKeeps
  <2>5. /\ IsFiniteSet(stacks) /\ Cardinality(stacks) \in Nat /\ Cardinality(stacks) =< MaxStacks
        /\ IsFiniteSet(stacks \ {s}) /\ Cardinality(stacks \ {s}) = Cardinality(stacks) - 1
    BY FS_CardinalityType, FS_RemoveElement DEF HeapInv, StacksOK
  <2>6. StacksOK'
    BY <1>1, <2>1, <2>5 DEF HeapInv, StacksOK
  <2> QED BY <2>4, <2>6 DEF HeapInv
<1>7. CASE UNCHANGED heapVars
  <2>1. blocks' = blocks /\ next' = next /\ owned' = owned /\ stacks' = stacks /\ refused' = refused
    BY <1>7 DEF heapVars
  <2>2. ServedIfRoom'
    BY <2>1 DEF HeapInv, ServedIfRoom, RoomFor, FreeUnit
  <2>3. StacksOK'
    BY <2>1 DEF HeapInv, StacksOK
  <2> QED BY <2>1, <2>2, <2>3 DEF HeapInv
<1>8. \A va \in {Low(o) : o \in owned} \cup {HeapBase - 1} : va \in Nat /\ va < Mirror
  <2>1. ASSUME NEW o \in owned PROVE Low(o) \in Nat /\ Low(o) < Mirror
    <3>1. Low(o) \in Nat /\ o.size \in Nat \ {0} /\ Low(o) + o.size =< next /\ next =< HeapTop
      BY DEF HeapInv, Kept, Held, Laid
    <3>2. next \in Nat
      BY <1>1 DEF HeapInv, Kept, Laid
    <3> QED BY <1>1, <3>1, <3>2
  <2>2. HeapBase - 1 \in Nat /\ HeapBase - 1 < Mirror
    BY HeapAssumption
  <2> QED BY <2>1, <2>2
<1> QED BY <1>2, <1>3, <1>4, <1>5, <1>6, <1>7, <1>8 DEF HeapNext

\* What the invariant says of the holdings.
LEMMA HeapInvShows == HeapInv => HeapTypeOK /\ HoldingsApart
<1> SUFFICES ASSUME HeapInv PROVE HeapTypeOK /\ HoldingsApart
  OBVIOUS
<1>1. /\ blocks \in Seq(Block) /\ Len(blocks) =< MaxBlocks /\ next \in HeapBase..HeapTop
      /\ HeapBase \in Nat /\ HeapTop \in Nat /\ next \in Nat
  BY HeapAssumption DEF HeapInv, Kept, Laid
<1>2. \A o \in owned : /\ o.size \in Nat \ {0} /\ Low(o) \in Nat /\ HeapBase =< Low(o)
                       /\ Low(o) + o.size =< next /\ End(Span(o)) = Low(o) + o.size
                       /\ Span(o).addr = Low(o)
  BY DEF HeapInv, Kept, Held, End, Span
<1>3. HeapTypeOK
  <2>1. \A o \in owned : o.size \in Nat /\ Low(o) \in HeapBase..HeapTop - 1
    BY <1>1, <1>2
  <2> QED BY <1>1, <2>1 DEF HeapTypeOK, HeapInv, StacksOK
<1>4. \A o, p \in owned : o = p \/ Low(o) + o.size =< Low(p) \/ Low(p) + p.size =< Low(o)
  BY <1>2 DEF HeapInv, Kept, Held, Misses
<1>5. ASSUME NEW o \in owned, NEW i \in Entries(blocks), blocks[i].free
      PROVE  Low(o) + o.size =< blocks[i].addr \/ End(blocks[i]) =< Low(o)
  <2>1. i \in 1..Len(blocks) /\ blocks[i].size > 0
    BY DEF Entries
  <2>2. Misses(Span(o), blocks[i])
    BY <1>5, <2>1 DEF HeapInv, Kept, Meet, Lives
  <2> QED BY <1>2, <2>2 DEF Misses
<1>6. Recorded => {Low(o) : o \in owned} =
                    {blocks[i].addr : i \in {j \in Entries(blocks) : ~ blocks[j].free}}
  <2> SUFFICES ASSUME Recorded
               PROVE  {Low(o) : o \in owned} =
                        {blocks[i].addr : i \in {j \in Entries(blocks) : ~ blocks[j].free}}
    OBVIOUS
  <2>1. ASSUME NEW o \in owned
        PROVE  \E i \in {j \in Entries(blocks) : ~ blocks[j].free} : Low(o) = blocks[i].addr
    <3>1. PICK i \in 1..Len(blocks) : blocks[i].size > 0 /\ Lives(blocks[i], o)
      BY DEF HeapInv, Kept, Recording, Recorded
    <3> QED BY <3>1 DEF Entries, Lives
  <2>2. ASSUME NEW i \in {j \in Entries(blocks) : ~ blocks[j].free}
        PROVE  \E o \in owned : blocks[i].addr = Low(o)
    <3>1. i \in 1..Len(blocks) /\ blocks[i].size > 0 /\ ~ blocks[i].free
      BY DEF Entries
    <3> QED BY <3>1 DEF HeapInv, Kept, Recording, Recorded
  <2> QED BY <2>1, <2>2
<1> QED BY <1>2, <1>3, <1>4, <1>5, <1>6 DEF HoldingsApart

\* The table, its frontier and the holdings are well formed.
THEOREM HeapTyped == HeapSpec => []HeapTypeOK
BY HeapInitHolds, HeapNextHolds, HeapInvShows, PTL DEF HeapSpec

\* No two holdings of the title overlap, and none reaches into memory that would
\* be handed out again, whatever is allocated and given back.
THEOREM HoldingsStayApart == HeapSpec => []HoldingsApart
BY HeapInitHolds, HeapNextHolds, HeapInvShows, PTL DEF HeapSpec

\* A request is refused only if no aligned run of free memory is long enough.
THEOREM RefusedForLackOfRoom == HeapSpec => []ServedIfRoom
<1>1. HeapInv => ServedIfRoom
  BY DEF HeapInv
<1> QED BY <1>1, HeapInitHolds, HeapNextHolds, PTL DEF HeapSpec

=============================================================================
