-------------------------- MODULE FrameReassemblerV2 --------------------------
(***************************************************************************)
(* One FrameReassemblerV2 object (frame_reassembler_v2.hpp/.cpp) as a value, *)
(* and its methods as operators from a value to a value.  The object is      *)
(* owned by one thread, so a method is one step of whoever calls it.         *)
(*                                                                          *)
(* packet_received_ is the set of the indices whose bit is set; the vector's *)
(* length is always expected_packet_count_.                                 *)
(***************************************************************************)
EXTENDS UdpPacket

CONSTANTS
    MaxFrameSize,      \* max_frame_size_
    PayloadStride,     \* payload_stride_
    ZeroByte           \* what resize() fills the frame buffer with

ASSUME ReassemblerAssumption ==
    /\ MaxFrameSize \in Nat
    /\ PayloadStride \in Nat \ {0}
    /\ ZeroByte \in Byte

Offsets == 0 .. (MaxFrameSize - 1)

Reassembler ==
    [current_frame_id       : Nat,
     expected_packet_count  : U16,
     received_packets_count : U16,
     packet_received        : SUBSET U16,
     frame_buffer           : [Offsets -> Byte],
     frame_size             : 0 .. MaxFrameSize,
     corrupted_detected     : BOOLEAN]

NewReassembler ==
    [current_frame_id       |-> 0,
     expected_packet_count  |-> 0,
     received_packets_count |-> 0,
     packet_received        |-> {},
     frame_buffer           |-> [i \in Offsets |-> ZeroByte],
     frame_size             |-> 0,
     corrupted_detected     |-> FALSE]

(* Faulty: frame_size_ is not set back.                                      *)
StartKeepingSize(fr, frame_id, packet_count) ==
    [fr EXCEPT !.current_frame_id       = frame_id,
               !.expected_packet_count  = packet_count,
               !.received_packets_count = 0,
               !.packet_received        = {},
               !.corrupted_detected     = FALSE]

(* The buffer keeps the bytes it has.                                       *)
StartNewFrame(fr, frame_id, packet_count) ==
    [fr EXCEPT !.current_frame_id       = frame_id,
               !.expected_packet_count  = packet_count,
               !.received_packets_count = 0,
               !.packet_received        = {},
               !.frame_size             = 0,
               !.corrupted_detected     = FALSE]

(* Faulty: an offset from the packet's own size, wrong for a short last one.  *)
OffsetByPayload(pkt) == pkt.packet_id * Len(pkt.payload)

OffsetOf(pkt) == pkt.packet_id * PayloadStride
EndOf(pkt)    == OffsetOf(pkt) + Len(pkt.payload)

(* Faulty variants: without the duplicate test, without the size test.       *)
AcceptsDuplicates(fr, pkt) ==
    /\ pkt.packet_id < fr.expected_packet_count
    /\ EndOf(pkt) <= MaxFrameSize

AcceptsAnySize(fr, pkt) ==
    /\ pkt.packet_id < fr.expected_packet_count
    /\ pkt.packet_id \notin fr.packet_received

(* The three early returns: unknown index, duplicate, outside the buffer.    *)
Accepts(fr, pkt) ==
    /\ pkt.packet_id < fr.expected_packet_count
    /\ pkt.packet_id \notin fr.packet_received
    /\ EndOf(pkt) <= MaxFrameSize

(* The memcpy into frame_buffer_.                                           *)
Overwrite(buffer, pkt) ==
    [i \in Offsets |-> IF OffsetOf(pkt) <= i /\ i < EndOf(pkt)
                       THEN pkt.payload[i - OffsetOf(pkt) + 1]
                       ELSE buffer[i]]

(* Faulty: the frame ends where the last packet stored ends.                *)
StoredLastEnd(fr, pkt) ==
    [fr EXCEPT !.frame_buffer           = Overwrite(@, pkt),
               !.packet_received        = @ \cup {pkt.packet_id},
               !.received_packets_count = (@ + 1) % CountMod,
               !.frame_size             = EndOf(pkt)]

Stored(fr, pkt) ==
    [fr EXCEPT !.frame_buffer           = Overwrite(@, pkt),
               !.packet_received        = @ \cup {pkt.packet_id},
               !.received_packets_count = (@ + 1) % CountMod,
               !.frame_size             = IF @ < EndOf(pkt) THEN EndOf(pkt) ELSE @]

PushToFrame(fr, pkt) == IF Accepts(fr, pkt) THEN Stored(fr, pkt) ELSE fr

HasAnyPacket(fr) == fr.received_packets_count > 0

IsFrameComplete(fr) ==
    /\ fr.received_packets_count = fr.expected_packet_count
    /\ ~fr.corrupted_detected

HasGap(fr) == fr.received_packets_count < fr.expected_packet_count

HasCorruption(fr) == fr.corrupted_detected

(* Faulty: the id is set back too, and the next late packet starts it anew.    *)
ResetWithId(fr) ==
    [fr EXCEPT !.current_frame_id       = 0,
               !.expected_packet_count  = 0,
               !.received_packets_count = 0,
               !.packet_received        = {},
               !.corrupted_detected     = FALSE]

(* reset: the id, the size and the bytes stay.                               *)
ResetFrame(fr) ==
    [fr EXCEPT !.expected_packet_count  = 0,
               !.received_packets_count = 0,
               !.packet_received        = {},
               !.corrupted_detected     = FALSE]

(* getFrameData and getFrameSize: the first frame_size_ bytes of the buffer. *)
FrameData(fr) == [i \in 1 .. fr.frame_size |-> fr.frame_buffer[i - 1]]

(* makeResult: after a reset 0 = 0, and the result is complete.               *)
MakeResult(fr) ==
    [frame_id         |-> fr.current_frame_id,
     expected_packets |-> fr.expected_packet_count,
     received_packets |-> fr.received_packets_count,
     complete         |-> IsFrameComplete(fr),
     corrupted        |-> HasGap(fr) \/ HasCorruption(fr),
     frame_data       |-> FrameData(fr)]
=============================================================================
