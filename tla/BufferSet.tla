------------------------------ MODULE BufferSet ------------------------------
(***************************************************************************)
(* What the host mixer promises of its buffers: a handle exists from its   *)
(* creation to its release and plays as it was last told to, whatever is   *)
(* done with other handles.  VoiceTable implements it.                     *)
(***************************************************************************)
CONSTANT Handles
VARIABLE exists    \* the handles that exist: [handle -> playing]

NoBuffers == [h \in {} |-> FALSE]

Init == exists = NoBuffers

Create(h) ==
  exists' = [g \in DOMAIN exists \cup {h} |-> IF g = h THEN FALSE ELSE exists[g]]
Release(h) == exists' = [g \in DOMAIN exists \ {h} |-> exists[g]]
Play(h) == h \in DOMAIN exists /\ \E on \in BOOLEAN : exists' = [exists EXCEPT ![h] = on]
Reset == exists' = NoBuffers

Next == Reset \/ \E h \in Handles : Create(h) \/ Release(h) \/ Play(h)

Spec == Init /\ [][Next]_exists

=============================================================================
