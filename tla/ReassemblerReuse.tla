---------------------------- MODULE ReassemblerReuse ----------------------------
(***************************************************************************)
(* One FrameReassemblerV2 used for one frame after the other, the way its      *)
(* header says (startNewFrame "Call when frame_id changes"), beside a          *)
(* FrameReassembler that is given the same packets.  The manager makes a new    *)
(* object for each frame and never meets what a used one still holds: bytes,   *)
(* a size, an id.                                                           *)
(***************************************************************************)
EXTENDS FrameReassemblerV2

CONSTANTS
    NoFrameId, FrameTimeout,   \* of the FrameReassembler
    NoResult                   \* nothing was taken yet

ASSUME ReuseAssumption ==
    /\ NoFrameId \in Nat
    /\ FrameTimeout \in Nat
    /\ NoResult \notin FrameIds

VARIABLES
    fr,                \* the FrameReassemblerV2
    result,            \* what the caller last took from it
    finished,          \* the id of the frame taken, until another one starts
    current_frame_id, expected_packet_count, received_packet_count,
    packets, age, popped                           \* the FrameReassembler

v1Vars == <<current_frame_id, expected_packet_count, received_packet_count, packets,
            age, popped>>

vars == <<fr, result, finished, v1Vars>>

V1 == INSTANCE FrameReassembler

TypeOK ==
    /\ V1!TypeOK
    /\ fr \in Reassembler
    /\ result \in {NoResult} \cup [frame_id : FrameIds, data : Seq(Byte)]
    /\ finished \in {NoResult} \cup FrameIds

Init ==
    /\ V1!Init
    /\ fr = NewReassembler
    /\ result = NoResult
    /\ finished = NoResult

(* The caller starts a frame when the id changes.                             *)
FrameFor(pkt) ==
    IF pkt.frame_id # fr.current_frame_id
    THEN StartNewFrame(fr, pkt.frame_id, pkt.packet_count) ELSE fr

Push(pkt) ==
    /\ V1!PushPacket(pkt)
    /\ fr' = PushToFrame(FrameFor(pkt), pkt)
    /\ finished' = IF pkt.frame_id = finished THEN finished ELSE NoResult
    /\ UNCHANGED result

(* A complete result with packets is taken, and the frame is over.            *)
Take ==
    LET r == MakeResult(fr)
    IN  /\ r.complete
        /\ r.received_packets > 0
        /\ result' = [frame_id |-> r.frame_id, data |-> r.frame_data]
        /\ finished' = r.frame_id
        /\ fr' = ResetFrame(fr)
        /\ UNCHANGED v1Vars

(* The frame is given up.                                                   *)
Abandon ==
    /\ fr' = ResetFrame(fr)
    /\ UNCHANGED <<result, finished, v1Vars>>

V1Step ==
    /\ V1!PopFrame \/ V1!Reset \/ V1!Tick
    /\ UNCHANGED <<fr, result, finished>>

Next == (\E pkt \in RxPackets : Push(pkt)) \/ Take \/ Abandon \/ V1Step

Spec == Init /\ [][Next]_vars
-----------------------------------------------------------------------------
(* See FrameReassembler.                                                    *)
CompleteHasEveryPacket == V1!CompleteHasEveryPacket
PoppedIsSent == V1!PoppedIsSent

(* What is taken from a used object is a frame that was sent, although the      *)
(* buffer is never cleared and reset leaves the size of the frame before: no   *)
(* byte and no length of another frame gets into it.                         *)
TakenIsSent == result # NoResult => result \in SentFrames

(* Once a frame was taken, its late packets are not collected again: reset     *)
(* keeps the id, so that they neither start the frame nor fit into it.         *)
TakenOnlyOnce == finished # NoResult => ~HasAnyPacket(fr)

(* The two are interchangeable: whenever the first one has a frame complete,   *)
(* the second one has it complete too and with the same bytes, unless the      *)
(* caller is through with it or it outgrows the buffer.                       *)
BothSeeTheFrame ==
    (V1!FrameComplete /\ fr.expected_packet_count > 0 /\ Len(V1!Joined) <= MaxFrameSize) =>
        IsFrameComplete(fr) /\ FrameData(fr) = V1!Joined
=============================================================================
