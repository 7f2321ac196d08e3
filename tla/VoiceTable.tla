------------------------------ MODULE VoiceTable ------------------------------
(***************************************************************************)
(* The host mixer's table of buffers (dsound_host.c): open addressing with *)
(* tombstones, every call under one lock.  A voice is reduced to its       *)
(* handle and whether it is playing.                                       *)
(***************************************************************************)
EXTENDS Naturals

CONSTANTS
  VoiceMax,    \* DSH_MAX
  Handles,     \* handles the title's buffers have
  HashOf,      \* hash
  Empty, Tomb  \* what a slot without a buffer holds: 0 and TOMB

ASSUME VoiceAssumption ==
  /\ VoiceMax \in Nat \ {0}
  /\ HashOf \in [Handles -> 0..VoiceMax - 1]
  /\ Empty \notin Handles /\ Tomb \notin Handles /\ Empty # Tomb

VARIABLES
  voices,     \* g_v: the handles
  playing     \* the slots that play

voiceVars == <<voices, playing>>

VoiceSlots == 0..VoiceMax - 1
None == VoiceMax

VoiceInit ==
  /\ voices = [k \in VoiceSlots |-> Empty]
  /\ playing = {}

\* The i-th slot of a probe, and the steps at which it meets one of some words.
ProbeAt(h, i) == (HashOf[h] + i) % VoiceMax
Meets(h, words) == {i \in VoiceSlots : voices[ProbeAt(h, i)] \in words}
FirstOf(S) == CHOOSE i \in S : \A j \in S : i =< j

\* find: past tombstones, up to the handle or an empty slot.
Find(h) ==
  LET ends == Meets(h, {h, Empty}) IN
  IF ends # {} /\ voices[ProbeAt(h, FirstOf(ends))] = h THEN ProbeAt(h, FirstOf(ends)) ELSE None

\* insert: the handle's own slot, else the first tombstone passed on the way.
Insert(h) ==
  LET ends  == Meets(h, {h, Empty})
      tombs == {i \in Meets(h, {Tomb}) : \A j \in ends : i < FirstOf(ends)} IN
  IF Find(h) # None THEN Find(h)
  ELSE IF tombs # {} THEN ProbeAt(h, FirstOf(tombs))
  ELSE IF ends # {} THEN ProbeAt(h, FirstOf(ends)) ELSE None

\* dsh_buffer_create: a handle that exists begins afresh.
Create(h) ==
  LET k == Insert(h) IN
  /\ k # None
  /\ voices' = [voices EXCEPT ![k] = h]
  /\ playing' = playing \ {k}

ReleaseVoice_Empties(h) ==
  LET k == Find(h) IN
  /\ k # None
  /\ voices' = [voices EXCEPT ![k] = Empty]
  /\ playing' = playing \ {k}

\* dsh_buffer_release.
ReleaseVoice(h) ==
  LET k == Find(h) IN
  /\ k # None
  /\ voices' = [voices EXCEPT ![k] = Tomb]
  /\ playing' = playing \ {k}

\* dsh_play and dsh_stop.
PlayStop(h) ==
  /\ Find(h) # None
  /\ \E on \in BOOLEAN : playing' = IF on THEN playing \cup {Find(h)} ELSE playing \ {Find(h)}
  /\ UNCHANGED voices

\* dsh_reset.
ResetVoices ==
  /\ voices' = [k \in VoiceSlots |-> Empty]
  /\ playing' = {}

VoiceNext == ResetVoices \/ \E h \in Handles : Create(h) \/ ReleaseVoice(h) \/ PlayStop(h)

VoiceSpec == VoiceInit /\ [][VoiceNext]_voiceVars

-----------------------------------------------------------------------------

Found == {h \in Handles : Find(h) # None}

\* What the calls can see of the table is the set of buffers that were created
\* and not released, with what each was last told: a release loses no other
\* handle that had probed past it, and none is in the table twice.
BufferSpec == INSTANCE BufferSet WITH exists <- [h \in Found |-> Find(h) \in playing]
ImplementsBufferSet == BufferSpec!Spec

=============================================================================
