---------------------------- MODULE MCEventWait ----------------------------
(* Instances of EventWait for TLC.                                         *)
EXTENDS EventWait

CONSTANTS t1, t2, t3, vblank, ready, sound   \* three threads, three events

\* Every event hashes to the slot 0.
Collide == [e \in Events |-> [i \in Slots |-> i]]

Nothing == [t \in Threads |-> {}]

\* t3 sets every event but sound, which nobody sets.
Device == [t \in Threads |-> IF t = t3 THEN Events \ {sound} ELSE {}]

\* t1 and t2 clear the vertical blank and wait for it.
Pumps == [t \in Threads |-> IF t = t3 THEN {} ELSE Events \cap {vblank}]

\* An interrupt that t2 pumps sets the vertical blank.
Own == [t \in Threads |-> IF t = t2 THEN Events \cap {vblank} ELSE {}]

\* t1 waits on every event, t2 on the one it can consume.
Mixed == [t \in Threads |->
  CASE t = t1 -> Events [] t = t2 -> Events \cap {ready} [] t = t3 -> {}]

=============================================================================
