---------------------------- MODULE LatestFrame ----------------------------
(***************************************************************************)
(* What the frame pool promises its callers, with no slots, no reference   *)
(* counts and no storage: one register holds the last finished frame, and  *)
(* each reference a reader holds is a frame that was once in the register  *)
(* and does not change for as long as it is held.                          *)
(***************************************************************************)
EXTENDS Integers

CONSTANTS
  Owners,     \* threads that swap one held reference for the next
  Borrowers,  \* threads that acquire, look and release
  Frames,     \* the frames that may be published, each with a number f.seq
  NoFrame     \* nothing published, or nothing held (number 0)

VARIABLES
  latest,     \* the frame a reader gets
  view        \* the frame each reference shows

absVars == <<latest, view>>

\* A reference is a place a frame pointer is kept in.  An owner has two: the
\* one its callers use, and the one it takes before giving that one back.
Held(r)   == <<r, "held">>
Next_(r)  == <<r, "next">>
AbsRefs   == ((Owners \union Borrowers) \X {"held"}) \union (Owners \X {"next"})

Init ==
  /\ latest = NoFrame
  /\ view = [x \in AbsRefs |-> NoFrame]

\* Every published frame is newer than the one it replaces.
Publish ==
  /\ latest' \in Frames
  /\ latest'.seq > latest.seq
  /\ UNCHANGED view

Take(x) ==
  /\ view[x] = NoFrame
  /\ view' = [view EXCEPT ![x] = latest]
  /\ UNCHANGED latest

GiveBack(x) ==
  /\ view' = [view EXCEPT ![x] = NoFrame]
  /\ UNCHANGED latest

Swap(r) ==
  /\ view' = [view EXCEPT ![Held(r)] = view[Next_(r)], ![Next_(r)] = NoFrame]
  /\ UNCHANGED latest

Next ==
  \/ Publish
  \/ \E x \in AbsRefs : Take(x)
  \/ \E r \in Borrowers : GiveBack(Held(r))
  \/ \E r \in Owners : Swap(r)

Spec == Init /\ [][Next]_absVars
=============================================================================
