------------------------------ MODULE UdpPacket ------------------------------
(***************************************************************************)
(* The packet on the wire (udp_packet.hpp) and how UdpSender::sendFrame      *)
(* cuts a frame into packets (udp_sender.cpp).  A frame is the sequence of   *)
(* its bytes; a byte is an opaque value.                                    *)
(***************************************************************************)
EXTENDS Naturals, Sequences, FiniteSets

CONSTANTS
    CountMod,          \* number of values of uint16_t: 2^16
    MaxUdpPayload,     \* protocol::MAX_UDP_PAYLOAD
    Byte,              \* the values of a byte
    SentFrames         \* the frames the senders send

ASSUME PacketAssumption ==
    /\ CountMod \in Nat \ {0}
    /\ MaxUdpPayload \in Nat \ {0}
    /\ Byte # {}
    /\ SentFrames \subseteq [frame_id : Nat, data : Seq(Byte)]
    /\ IsFiniteSet(SentFrames)

U16 == 0 .. (CountMod - 1)

(* UdpPacketHeader and the payload_size bytes that follow it.  gap_before is *)
(* left out: the RX thread always stores false and nobody reads it.         *)
RxPacket == [frame_id     : Nat,
             packet_id    : U16,
             packet_count : U16,
             payload      : Seq(Byte)]

(* Faulty: not rounded up.                                                   *)
PacketCountRoundedDown(frame) == (Len(frame) \div MaxUdpPayload) % CountMod

(* The packets needed, truncated to the uint16_t it is stored in.           *)
PacketCount(frame) ==
    ((Len(frame) + MaxUdpPayload - 1) \div MaxUdpPayload) % CountMod

PacketAt(id, frame, pid) ==
    LET offset == pid * MaxUdpPayload
        left   == Len(frame) - offset
        size   == IF left < MaxUdpPayload THEN left ELSE MaxUdpPayload
    IN  [frame_id     |-> id,
         packet_id    |-> pid,
         packet_count |-> PacketCount(frame),
         payload      |-> SubSeq(frame, offset + 1, offset + size)]

(* Where the packet pid of a frame ends in it.                               *)
EndIn(data, pid) ==
    IF pid * MaxUdpPayload + MaxUdpPayload <= Len(data)
    THEN pid * MaxUdpPayload + MaxUdpPayload ELSE Len(data)

FrameIds == {f.frame_id : f \in SentFrames}

(* What can arrive: the packets of the frames sent, in any order, any number *)
(* of times, or never.                                                      *)
RxPackets ==
    UNION {{PacketAt(f.frame_id, f.data, pid) :
                pid \in {n \in U16 : n < PacketCount(f.data)}} : f \in SentFrames}
=============================================================================
