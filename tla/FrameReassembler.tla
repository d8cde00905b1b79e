---------------------------- MODULE FrameReassembler ----------------------------
(***************************************************************************)
(* The first FrameReassembler (frame_reassembler.hpp/.cpp), which collects one *)
(* frame at a time: a packet of another frame starts that one, and what was    *)
(* collected is dropped.  There is no buffer: the payloads are kept apart and   *)
(* joined by popFrame.  The age of the frame is looked at only when a packet   *)
(* is pushed.                                                               *)
(***************************************************************************)
EXTENDS UdpPacket, SequencesExt

CONSTANTS
    NoFrameId,         \* the frame_id that stands for no frame: 0xFFFFFFFF
    FrameTimeout       \* FRAME_TIMEOUT_MS, in ticks

VARIABLES
    current_frame_id, expected_packet_count, received_packet_count,
    packets,           \* packets_, a function on the indices received
    age,               \* the time since frame_start_time_
    popped             \* what the last popFrame returned

vars == <<current_frame_id, expected_packet_count, received_packet_count, packets,
          age, popped>>

Long == FrameTimeout + 1       \* ages beyond the timeout are not told apart

TypeOK ==
    /\ current_frame_id \in Nat
    /\ expected_packet_count \in U16
    /\ received_packet_count \in U16
    /\ DOMAIN packets \subseteq U16
    /\ \A pid \in DOMAIN packets : packets[pid] \in Seq(Byte)
    /\ age \in 0 .. Long
    /\ popped \in Seq(Byte)

NoPackets == [pid \in {} |-> <<>>]

(* frame_start_time_ is the epoch of the clock until the first frame starts.   *)
Init ==
    /\ current_frame_id = NoFrameId
    /\ expected_packet_count = 0
    /\ received_packet_count = 0
    /\ packets = NoPackets
    /\ age = Long
    /\ popped = <<>>

(* The object is a frame with this id, count and packets.                     *)
Becomes(id, count, kept) ==
    /\ current_frame_id' = id
    /\ expected_packet_count' = count
    /\ received_packet_count' = Cardinality(DOMAIN kept) % CountMod
    /\ packets' = kept

Cleared == Becomes(NoFrameId, 0, NoPackets)

Reset == Cleared /\ UNCHANGED <<age, popped>>

Single(pkt) == [pid \in {pkt.packet_id} |-> pkt.payload]

(* Faulty: what was collected of the frame before is not dropped.             *)
StartOnTop(pkt) ==
    /\ pkt.frame_id # current_frame_id
    /\ Becomes(pkt.frame_id, pkt.packet_count, packets @@ Single(pkt))
    /\ age' = 0

(* pushPacket of another frame: startNewFrame, and its first packet.           *)
StartWith(pkt) ==
    /\ pkt.frame_id # current_frame_id
    /\ Becomes(pkt.frame_id, pkt.packet_count, Single(pkt))
    /\ age' = 0

Expired == age > FrameTimeout

(* ... of a frame that is too old: the packet goes with the frame.            *)
DropOld(pkt) ==
    /\ pkt.frame_id = current_frame_id
    /\ Expired
    /\ Cleared
    /\ UNCHANGED age

IgnoreDuplicate(pkt) ==
    /\ pkt.frame_id = current_frame_id
    /\ ~Expired
    /\ pkt.packet_id \in DOMAIN packets
    /\ UNCHANGED <<current_frame_id, expected_packet_count, received_packet_count,
                   packets, age>>

(* Faulty: a duplicate replaces the payload and is counted.                   *)
KeepAny(pkt) ==
    /\ pkt.frame_id = current_frame_id
    /\ ~Expired
    /\ packets' = [pid \in DOMAIN packets \cup {pkt.packet_id} |->
                      IF pid = pkt.packet_id THEN pkt.payload ELSE packets[pid]]
    /\ received_packet_count' = (received_packet_count + 1) % CountMod
    /\ UNCHANGED <<current_frame_id, expected_packet_count, age>>

(* ... and of a packet that is kept, whatever its index is.                   *)
Keep(pkt) ==
    /\ pkt.frame_id = current_frame_id
    /\ ~Expired
    /\ pkt.packet_id \notin DOMAIN packets
    /\ packets' = [pid \in DOMAIN packets \cup {pkt.packet_id} |->
                      IF pid = pkt.packet_id THEN pkt.payload ELSE packets[pid]]
    /\ received_packet_count' = (received_packet_count + 1) % CountMod
    /\ UNCHANGED <<current_frame_id, expected_packet_count, age>>

PushPacket(pkt) ==
    /\ StartWith(pkt) \/ DropOld(pkt) \/ IgnoreDuplicate(pkt) \/ Keep(pkt)
    /\ UNCHANGED popped

FrameComplete ==
    /\ expected_packet_count > 0
    /\ received_packet_count = expected_packet_count

Indices == 0 .. (expected_packet_count - 1)

(* The payloads in the order of their indices.                               *)
Joined == FlattenSeq([i \in 1 .. expected_packet_count |-> packets[i - 1]])

PopFrame ==
    \/ /\ ~FrameComplete
       /\ popped' = <<>>
       /\ UNCHANGED <<current_frame_id, expected_packet_count, received_packet_count,
                      packets, age>>
    \/ /\ FrameComplete
       /\ popped' = IF Indices \subseteq DOMAIN packets THEN Joined ELSE <<>>
       /\ Cleared
       /\ UNCHANGED age

Tick ==
    /\ age' = IF age < Long THEN age + 1 ELSE age
    /\ UNCHANGED <<current_frame_id, expected_packet_count, received_packet_count,
                   packets, popped>>

Next == (\E pkt \in RxPackets : PushPacket(pkt)) \/ PopFrame \/ Reset \/ Tick

Spec == Init /\ [][Next]_vars
-----------------------------------------------------------------------------
(* "In principle, you shouldn't be coming here." (frame_reassembler.cpp:78):    *)
(* a frame that counts as complete has every packet that popFrame looks for,   *)
(* although the count and the map are kept apart.                           *)
CompleteHasEveryPacket == FrameComplete => Indices \subseteq DOMAIN packets

(* What popFrame returns is a frame that was sent, byte for byte, although the *)
(* frames' packets come mixed, repeated and after a timeout.                 *)
PoppedIsSent == popped # <<>> => \E f \in SentFrames : f.data = popped
=============================================================================
