------------------------------ MODULE PushRing ------------------------------
(***************************************************************************)
(* The push buffer (diagnostics/jsrf_first_fault/main.c, nv2a_pusher.c).   *)
(* The title writes packets into a ring and publishes DMA_PUT; one host    *)
(* thread parses the ring in place, in bounded steps, and publishes        *)
(* DMA_GET, from which the title knows what it may write over.  The title  *)
(* is external: it keeps the word before GET free, never splits a packet   *)
(* over the end of the ring but ends it with a JUMP to the base, and may   *)
(* publish PUT in the middle of a packet.  Positions are word offsets from *)
(* the ring's base; the title of this project never issues a CALL, and the *)
(* default treats one as a loss of sync, like any word that is no header.  *)
(***************************************************************************)
EXTENDS Naturals, Sequences

CONSTANTS
  RingSize,     \* g_pb_ring_hi - g_pb_ring_lo
  MaxPayload,   \* the largest packet's data words (0x7FF)
  PbStep,       \* JSRF_PB_STEP
  PbSegments,   \* segments of one poll (16)
  MaxPackets    \* bound: packets the title sends

ASSUME PushRingAssumption ==
  /\ MaxPayload \in Nat /\ PbStep \in Nat /\ PbSegments \in Nat /\ MaxPackets \in Nat
  /\ RingSize \in Nat /\ RingSize > MaxPayload + 2

VARIABLES
  word,       \* the ring: what each word holds
  put, get,   \* DMA_PUT and DMA_GET
  title,      \* the producer: its write cursor, packet and data words to write
  cursor,     \* g_pb_last
  pb,         \* the poll
  executed,   \* packets dispatched, in order
  fault       \* stream_fault

pbVars == <<word, put, get, title, cursor, pb, executed, fault>>

Offsets == 0..RingSize - 1
Nop  == [is |-> "nop", id |-> 0, count |-> 0]
Jump == [is |-> "jump", id |-> 0, count |-> 0]
Header(id, n) == [is |-> "header", id |-> id, count |-> n]
Data(id) == [is |-> "data", id |-> id, count |-> 0]
WordRec == [is : {"nop", "jump", "header", "data"}, id : 0..MaxPackets, count : 0..MaxPayload]
\* now: the sample of PUT; at, end: the parser's position and its window.
PbRec == [pc : {"idle", "segment", "parse", "stop", "after", "done"}, now : 0..RingSize,
          at : 0..RingSize, end : 0..RingSize, stop : {"END", "PARTIAL", "JUMP", "INVALID"},
          seg : 0..PbSegments, frame : BOOLEAN]
IdlePb == [pc |-> "idle", now |-> 0, at |-> 0, end |-> 0, stop |-> "END", seg |-> 0,
           frame |-> FALSE]

PbInit ==
  /\ word = [o \in Offsets |-> Nop]
  /\ put = 0 /\ get = 0 /\ cursor = 0
  /\ title = [at |-> 0, id |-> 0, left |-> 0]
  /\ pb = IdlePb
  /\ executed = <<>>
  /\ fault = FALSE

-----------------------------------------------------------------------------
(* The title.                                                              *)

\* Words it may write from `at`: one is kept before GET, and one for the JUMP.
Room(at) == IF at >= get THEN RingSize - 1 - at ELSE get - at - 1

TitleHeader ==
  /\ title.left = 0 /\ title.id < MaxPackets
  /\ \E n \in 0..MaxPayload :
       /\ n + 1 =< Room(title.at)
       /\ word' = [word EXCEPT ![title.at] = Header(title.id + 1, n)]
       /\ title' = [at |-> title.at + 1, id |-> title.id + 1, left |-> n]
  /\ UNCHANGED <<put, get, cursor, pb, executed, fault>>

TitleData ==
  /\ title.left > 0
  /\ word' = [word EXCEPT ![title.at] = Data(title.id)]
  /\ title' = [title EXCEPT !.at = title.at + 1, !.left = title.left - 1]
  /\ UNCHANGED <<put, get, cursor, pb, executed, fault>>

TitlePublish ==
  /\ put # title.at /\ put' = title.at
  /\ UNCHANGED <<word, get, title, cursor, pb, executed, fault>>

\* No room for a largest packet before the end: wrap, unless GET is at the base.
TitleWrap ==
  /\ title.left = 0 /\ title.at >= get /\ get > 0
  /\ Room(title.at) < MaxPayload + 1
  /\ word' = [word EXCEPT ![title.at] = Jump]
  /\ title' = [title EXCEPT !.at = 0]
  /\ put' = 0
  /\ UNCHANGED <<get, cursor, pb, executed, fault>>

-----------------------------------------------------------------------------
(* jsrf_pb_poll and nv2a_pusher_run_segment.                               *)

PollRing ==
  /\ pb.pc = "idle" /\ ~ fault
  /\ pb' = [IdlePb EXCEPT !.pc = "segment", !.now = put]
  /\ UNCHANGED <<word, put, get, title, cursor, executed, fault>>

Least(a, b) == IF a < b THEN a ELSE b
WindowEnd_ShortStep(now) ==
  Least(IF now > cursor THEN now ELSE RingSize, cursor + MaxPayload)
WindowEnd(now) == Least(IF now > cursor THEN now ELSE RingSize, cursor + PbStep)

Segment ==
  /\ pb.pc = "segment"
  /\ pb' = IF cursor # pb.now /\ pb.seg < PbSegments /\ WindowEnd(pb.now) > cursor
             THEN [pb EXCEPT !.pc = "parse", !.at = cursor, !.end = WindowEnd(pb.now),
                             !.seg = pb.seg + 1]
             ELSE [pb EXCEPT !.pc = "done"]
  /\ UNCHANGED <<word, put, get, title, cursor, executed, fault>>

Stops(at, why) == pb' = [pb EXCEPT !.pc = "stop", !.at = at, !.stop = why]

\* A packet is dispatched once its last word is in the window; FLIP_STALL is
\* one of them.
ParsePacket ==
  LET w == word[pb.at] next == pb.at + 1 + w.count IN
  /\ w.is = "header"
  /\ \/ /\ next > pb.end /\ Stops(pb.at, "PARTIAL") /\ UNCHANGED executed
     \/ /\ next =< pb.end
        /\ executed' = Append(executed, w.id)
        /\ \E flip \in BOOLEAN : pb' = [pb EXCEPT !.at = next, !.frame = pb.frame \/ flip]

Parse ==
  /\ pb.pc = "parse"
  /\ \/ pb.at = pb.end /\ Stops(pb.at, "END") /\ UNCHANGED executed
     \/ /\ pb.at < pb.end
        /\ \/ ParsePacket
           \/ /\ UNCHANGED executed
              /\ \/ word[pb.at].is = "nop" /\ pb' = [pb EXCEPT !.at = pb.at + 1]
                 \/ word[pb.at].is = "jump" /\ Stops(pb.at + 1, "JUMP")
                 \/ word[pb.at].is = "data" /\ Stops(pb.at, "INVALID")
  /\ UNCHANGED <<word, put, get, title, cursor, fault>>

PublishGet_FromPut ==
  /\ pb.pc = "stop"
  /\ cursor' = pb.at /\ get' = pb.now
  /\ pb' = [pb EXCEPT !.pc = "after"]
  /\ UNCHANGED <<word, put, title, executed, fault>>

\* The cursor moves by what was consumed, and GET with it.
PublishGet ==
  /\ pb.pc = "stop"
  /\ cursor' = pb.at /\ get' = pb.at
  /\ pb' = [pb EXCEPT !.pc = "after"]
  /\ UNCHANGED <<word, put, title, executed, fault>>

\* A JUMP is followed if it goes anywhere in the ring but to itself; at the
\* end of the ring the cursor wraps by itself.
AfterSegment ==
  /\ pb.pc = "after"
  /\ LET follows == pb.stop = "JUMP" /\ cursor - 1 # 0
         goesOn  == pb.stop = "END" /\ ~ pb.frame IN
     /\ fault' = (pb.stop = "INVALID" \/ (pb.stop = "JUMP" /\ ~ follows))
     /\ cursor' = IF follows \/ (goesOn /\ cursor = RingSize /\ pb.now < cursor)
                    THEN 0 ELSE cursor
     /\ pb' = [pb EXCEPT !.pc = IF follows \/ goesOn THEN "segment" ELSE "done"]
  /\ UNCHANGED <<word, put, get, title, executed>>

PollReturn ==
  /\ pb.pc = "done"
  /\ get' = cursor
  /\ pb' = IdlePb
  /\ UNCHANGED <<word, put, title, cursor, executed, fault>>

PollStep == PollRing \/ Segment \/ Parse \/ PublishGet \/ AfterSegment \/ PollReturn
TitleStep == TitleHeader \/ TitleData \/ TitlePublish \/ TitleWrap
PbNext == TitleStep \/ PollStep

PbSpec == PbInit /\ [][PbNext]_pbVars

-----------------------------------------------------------------------------

\* Types of the ring, the registers and the two cursors.
PbTypeOK ==
  /\ word \in [Offsets -> WordRec]
  /\ put \in 0..RingSize /\ get \in 0..RingSize /\ cursor \in 0..RingSize
  /\ title \in [at : 0..RingSize - 1, id : 0..MaxPackets, left : 0..MaxPayload]
  /\ pb \in PbRec
  /\ executed \in Seq(1..MaxPackets)
  /\ fault \in BOOLEAN

\* The parse never loses sync: no published word is written over before it is
\* read ("it lapped this parser and overwrote commands mid-read -- measured as
\* exactly one bad header per run"), every packet is dispatched at most once
\* and in the order it was written, and no data word is read as a header.
InSync == ~ fault /\ \A i \in 1..Len(executed) : executed[i] = i

\* Every packet that the title completed is executed, whatever was published
\* in the middle of a packet, and the title gets the room it waits for.
AllExecuted == Len(executed) < title.id ~> Len(executed) = MaxPackets

=============================================================================
