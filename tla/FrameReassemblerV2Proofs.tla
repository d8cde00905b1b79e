----------------------- MODULE FrameReassemblerV2Proofs -----------------------
(***************************************************************************)
(* Lemmas about the packets the sender cuts a frame into, and about the        *)
(* methods of FrameReassemblerV2, which takes them.                          *)
(***************************************************************************)
EXTENDS FrameReassemblerV2, Integers, SequenceTheorems, FiniteSetTheorems, TLAPS

LEMMA DivisionBounds ==
    ASSUME NEW a \in Nat, NEW m \in Nat \ {0}
    PROVE  /\ a \div m \in Nat
           /\ (a \div m) * m <= a
           /\ a < (a \div m) * m + m
OBVIOUS

LEMMA ModuloBounds ==
    ASSUME NEW a \in Nat, NEW m \in Nat \ {0}
    PROVE  a % m \in Nat /\ a % m < m /\ a % m <= a
OBVIOUS

LEMMA ProductMonotonic ==
    ASSUME NEW a \in Nat, NEW b \in Nat, NEW m \in Nat \ {0}, a < b
    PROVE  a * m \in Nat /\ b * m \in Nat /\ a * m + m <= b * m
OBVIOUS

(* The packets needed for a frame of a given length, before uint16_t.        *)
Needed(length) == (length + MaxUdpPayload - 1) \div MaxUdpPayload

(* No frame needs more packets than the header's field can count.             *)
CountsFit == \A f \in SentFrames : Needed(Len(f.data)) < CountMod

LEMMA CountBounds ==
    ASSUME NEW data \in Seq(Byte)
    PROVE  /\ Needed(Len(data)) \in Nat
           /\ PacketCount(data) \in U16
           /\ PacketCount(data) <= Needed(Len(data))
           /\ Needed(Len(data)) * MaxUdpPayload <= Len(data) + MaxUdpPayload - 1
           /\ Len(data) <= Needed(Len(data)) * MaxUdpPayload
<1>1. Len(data) \in Nat
    BY LenProperties
<1>2. Len(data) + MaxUdpPayload - 1 \in Nat
    BY <1>1, PacketAssumption
<1>3. /\ Needed(Len(data)) \in Nat
      /\ Needed(Len(data)) * MaxUdpPayload <= Len(data) + MaxUdpPayload - 1
      /\ Len(data) + MaxUdpPayload - 1
            < Needed(Len(data)) * MaxUdpPayload + MaxUdpPayload
    BY <1>2, DivisionBounds, PacketAssumption DEF Needed
<1>4. PacketCount(data) = Needed(Len(data)) % CountMod
    BY DEF PacketCount, Needed
<1>5. /\ PacketCount(data) \in Nat /\ PacketCount(data) < CountMod
      /\ PacketCount(data) <= Needed(Len(data))
    BY <1>3, <1>4, ModuloBounds, PacketAssumption
<1>6. PacketCount(data) \in U16
    BY <1>5, PacketAssumption DEF U16
<1>7. Needed(Len(data)) * MaxUdpPayload \in Nat
    BY <1>3, PacketAssumption
<1>8. Len(data) <= Needed(Len(data)) * MaxUdpPayload
    BY <1>1, <1>3, <1>7, PacketAssumption
<1> QED
    BY <1>3, <1>5, <1>6, <1>8

LEMMA SliceContents ==
    ASSUME NEW data \in Seq(Byte), NEW first \in Nat, NEW size \in Nat,
           first + size <= Len(data)
    PROVE  LET slice == SubSeq(data, first + 1, first + size)
           IN  /\ slice \in Seq(Byte)
               /\ Len(slice) = size
               /\ \A k \in 1 .. size : slice[k] = data[first + k]
<1>1. \A i \in (first + 1) .. (first + size) : data[i] \in Byte
    BY ElementOfSeq, LenProperties
<1>2. first + 1 \in Int /\ first + size \in Int
    OBVIOUS
<1>3. /\ SubSeq(data, first + 1, first + size) \in Seq(Byte)
      /\ Len(SubSeq(data, first + 1, first + size))
            = IF first + 1 <= first + size THEN first + size - (first + 1) + 1 ELSE 0
      /\ \A k \in 1 .. (first + size - (first + 1) + 1) :
            SubSeq(data, first + 1, first + size)[k] = data[first + 1 + k - 1]
    BY <1>1, <1>2, SubSeqProperties
<1>4. first + size - (first + 1) + 1 = size
    OBVIOUS
<1>5. \A k \in 1 .. size : first + 1 + k - 1 = first + k
    OBVIOUS
<1> QED
    BY <1>3, <1>4, <1>5

(* A packet the sender cuts starts inside its frame, and carries the bytes of  *)
(* the frame from there, as many as are left but no more than a payload.      *)
LEMMA PacketContents ==
    ASSUME NEW id \in Nat, NEW data \in Seq(Byte), NEW pid \in Nat,
           pid < PacketCount(data)
    PROVE  LET pkt == PacketAt(id, data, pid)
           IN  /\ pkt \in RxPacket
               /\ pid * MaxUdpPayload \in Nat
               /\ pid * MaxUdpPayload < Len(data)
               /\ pid * MaxUdpPayload + Len(pkt.payload) = EndIn(data, pid)
               /\ \A k \in 1 .. Len(pkt.payload) :
                     pkt.payload[k] = data[pid * MaxUdpPayload + k]
<1> DEFINE left == Len(data) - pid * MaxUdpPayload
           size == IF left < MaxUdpPayload THEN left ELSE MaxUdpPayload
           bytes == SubSeq(data, pid * MaxUdpPayload + 1, pid * MaxUdpPayload + size)
<1>1. Len(data) \in Nat
    BY LenProperties
<1>2. /\ pid < Needed(Len(data)) /\ Needed(Len(data)) \in Nat
      /\ PacketCount(data) \in U16 /\ pid \in U16
    BY CountBounds, PacketAssumption DEF U16
<1>3. /\ pid * MaxUdpPayload \in Nat
      /\ pid * MaxUdpPayload + MaxUdpPayload <= Needed(Len(data)) * MaxUdpPayload
    BY <1>2, ProductMonotonic, PacketAssumption
<1>4. pid * MaxUdpPayload < Len(data)
    <2>1. Needed(Len(data)) * MaxUdpPayload <= Len(data) + MaxUdpPayload - 1
        BY CountBounds
    <2>2. Needed(Len(data)) * MaxUdpPayload \in Nat
        BY <1>2, PacketAssumption
    <2> QED
        BY <1>1, <1>3, <2>1, <2>2, PacketAssumption
<1>5. /\ size \in Nat
      /\ pid * MaxUdpPayload + size <= Len(data)
      /\ pid * MaxUdpPayload + size = EndIn(data, pid)
    <2>1. \A first, length \in Nat : first < length =>
             LET n == IF length - first < MaxUdpPayload
                      THEN length - first ELSE MaxUdpPayload
             IN  /\ n \in Nat
                 /\ first + n <= length
                 /\ first + n = IF first + MaxUdpPayload <= length
                                THEN first + MaxUdpPayload ELSE length
        BY PacketAssumption
    <2> QED
        BY <1>1, <1>3, <1>4, <2>1, Zenon DEF EndIn
<1>6. PacketAt(id, data, pid) =
          [frame_id |-> id, packet_id |-> pid, packet_count |-> PacketCount(data),
           payload |-> bytes]
    BY DEF PacketAt
<1> HIDE DEF size
<1>7. /\ bytes \in Seq(Byte) /\ Len(bytes) = size
      /\ \A k \in 1 .. size : bytes[k] = data[pid * MaxUdpPayload + k]
    BY <1>3, <1>5, SliceContents
<1> HIDE DEF bytes
<1>8. PacketAt(id, data, pid) \in RxPacket
    BY <1>2, <1>6, <1>7 DEF RxPacket
<1>9. PacketAt(id, data, pid).payload = bytes
    BY <1>6
<1> QED
    BY <1>3, <1>4, <1>5, <1>7, <1>8, <1>9

(* Every packet that arrives was cut from a frame sent.                       *)
LEMMA PacketOrigin ==
    ASSUME NEW pkt \in RxPackets
    PROVE  \E f \in SentFrames, pid \in Nat :
              /\ pid < PacketCount(f.data)
              /\ pkt = PacketAt(f.frame_id, f.data, pid)
              /\ f.frame_id \in Nat /\ f.data \in Seq(Byte)
<1>1. PICK f \in SentFrames :
          pkt \in {PacketAt(f.frame_id, f.data, pid) :
                      pid \in {n \in U16 : n < PacketCount(f.data)}}
    BY DEF RxPackets
<1>2. f.frame_id \in Nat /\ f.data \in Seq(Byte)
    BY PacketAssumption
<1> QED
    BY <1>1, <1>2, PacketAssumption DEF U16

LEMMA PacketType ==
    ASSUME NEW pkt \in RxPackets
    PROVE  /\ pkt \in RxPacket
           /\ pkt.frame_id \in FrameIds
<1>1. PICK f \in SentFrames, pid \in Nat :
              /\ pid < PacketCount(f.data)
              /\ pkt = PacketAt(f.frame_id, f.data, pid)
              /\ f.frame_id \in Nat /\ f.data \in Seq(Byte)
    BY PacketOrigin
<1>2. pkt \in RxPacket
    BY <1>1, PacketContents
<1>3. pkt.frame_id = f.frame_id
    BY <1>1 DEF PacketAt
<1> QED
    BY <1>2, <1>3 DEF FrameIds

-----------------------------------------------------------------------------
(* The methods keep the object's type: in particular the frame never grows    *)
(* past the buffer.                                                         *)
LEMMA NewReassemblerType == NewReassembler \in Reassembler
BY PacketAssumption, ReassemblerAssumption DEF NewReassembler, Reassembler, U16

LEMMA StartNewFrameType ==
    ASSUME NEW fr \in Reassembler, NEW id \in Nat, NEW count \in U16
    PROVE  StartNewFrame(fr, id, count) \in Reassembler
<1>1. 0 \in U16 /\ 0 \in 0 .. MaxFrameSize
    BY PacketAssumption, ReassemblerAssumption DEF U16
<1> QED
    BY <1>1 DEF StartNewFrame, Reassembler

LEMMA OverwriteType ==
    ASSUME NEW buffer \in [Offsets -> Byte], NEW pkt \in RxPacket
    PROVE  Overwrite(buffer, pkt) \in [Offsets -> Byte]
<1>1. OffsetOf(pkt) \in Nat /\ Len(pkt.payload) \in Nat
    BY LenProperties, ReassemblerAssumption DEF OffsetOf, RxPacket, U16
<1>2. ASSUME NEW i \in Offsets, OffsetOf(pkt) <= i, i < EndOf(pkt)
      PROVE  pkt.payload[i - OffsetOf(pkt) + 1] \in Byte
    <2>1. i \in Nat
        BY ReassemblerAssumption DEF Offsets
    <2>2. i - OffsetOf(pkt) + 1 \in 1 .. Len(pkt.payload)
        BY <1>1, <1>2, <2>1 DEF EndOf
    <2>3. pkt.payload \in Seq(Byte)
        BY DEF RxPacket
    <2> QED
        BY <2>2, <2>3, ElementOfSeq
<1> QED
    BY <1>2 DEF Overwrite

LEMMA StoredType ==
    ASSUME NEW fr \in Reassembler, NEW pkt \in RxPacket, Accepts(fr, pkt)
    PROVE  Stored(fr, pkt) \in Reassembler
<1>1. /\ OffsetOf(pkt) \in Nat /\ Len(pkt.payload) \in Nat
      /\ EndOf(pkt) \in Nat /\ EndOf(pkt) <= MaxFrameSize
    BY LenProperties, ReassemblerAssumption DEF OffsetOf, EndOf, RxPacket, U16, Accepts
<1>2. Overwrite(fr.frame_buffer, pkt) \in [Offsets -> Byte]
    BY OverwriteType DEF Reassembler
<1>3. fr.packet_received \cup {pkt.packet_id} \in SUBSET U16
    BY DEF Reassembler, RxPacket
<1>4. (fr.received_packets_count + 1) % CountMod \in U16
    BY PacketAssumption, ModuloBounds DEF Reassembler, U16
<1>5. (IF fr.frame_size < EndOf(pkt) THEN EndOf(pkt) ELSE fr.frame_size)
          \in 0 .. MaxFrameSize
    BY <1>1 DEF Reassembler
<1> QED
    BY <1>2, <1>3, <1>4, <1>5 DEF Stored, Reassembler

LEMMA PushToFrameType ==
    ASSUME NEW fr \in Reassembler, NEW pkt \in RxPacket
    PROVE  PushToFrame(fr, pkt) \in Reassembler
BY StoredType DEF PushToFrame

LEMMA FrameDataType ==
    ASSUME NEW fr \in Reassembler
    PROVE  FrameData(fr) \in Seq(Byte) /\ Len(FrameData(fr)) = fr.frame_size
<1>1. fr.frame_size \in Nat /\ fr.frame_size <= MaxFrameSize
    BY ReassemblerAssumption DEF Reassembler
<1>2. \A i \in 1 .. fr.frame_size : i - 1 \in Offsets
    BY <1>1, ReassemblerAssumption DEF Offsets
<1>3. \A i \in 1 .. fr.frame_size : fr.frame_buffer[i - 1] \in Byte
    BY <1>2 DEF Reassembler
<1> QED
    BY <1>1, <1>3, IsASeq, LenProperties DEF FrameData

-----------------------------------------------------------------------------
(* The count of packets is the number of bits set, and never wraps round: a    *)
(* bit is set at most once, and there are fewer bits than uint16_t has values. *)
CountIsBits(fr) ==
    /\ fr.packet_received \subseteq 0 .. (fr.expected_packet_count - 1)
    /\ fr.received_packets_count = Cardinality(fr.packet_received)

LEMMA StartCountIsBits ==
    ASSUME NEW fr \in Reassembler, NEW id \in Nat, NEW count \in U16
    PROVE  CountIsBits(StartNewFrame(fr, id, count))
BY FS_EmptySet DEF StartNewFrame, CountIsBits, Reassembler

LEMMA BitsFinite ==
    ASSUME NEW fr \in Reassembler, CountIsBits(fr)
    PROVE  /\ IsFiniteSet(fr.packet_received)
           /\ fr.expected_packet_count \in Nat
           /\ fr.expected_packet_count < CountMod
           /\ IsFiniteSet(0 .. (fr.expected_packet_count - 1))
           /\ Cardinality(0 .. (fr.expected_packet_count - 1))
                  = fr.expected_packet_count
<1>1. fr.expected_packet_count \in Nat /\ fr.expected_packet_count < CountMod
    BY PacketAssumption DEF Reassembler, U16
<1>2. /\ IsFiniteSet(0 .. (fr.expected_packet_count - 1))
      /\ Cardinality(0 .. (fr.expected_packet_count - 1)) = fr.expected_packet_count
    <2> DEFINE n == fr.expected_packet_count - 1
    <2>1. n \in Int /\ n - 0 + 1 = fr.expected_packet_count
             /\ (0 > n => fr.expected_packet_count = 0)
        BY <1>1
    <2> HIDE DEF n
    <2>2. IsFiniteSet(0 .. n)
             /\ Cardinality(0 .. n) = IF 0 > n THEN 0 ELSE n - 0 + 1
        BY <2>1, FS_Interval
    <2>3. IsFiniteSet(0 .. n) /\ Cardinality(0 .. n) = fr.expected_packet_count
        BY <2>1, <2>2
    <2> QED
        BY <2>3 DEF n
<1> QED
    BY <1>1, <1>2, FS_Subset DEF CountIsBits

LEMMA PushCountIsBits ==
    ASSUME NEW fr \in Reassembler, NEW pkt \in RxPacket, CountIsBits(fr)
    PROVE  CountIsBits(PushToFrame(fr, pkt))
<1>1. CASE ~Accepts(fr, pkt)
    BY <1>1 DEF PushToFrame
<1>2. CASE Accepts(fr, pkt)
    <2> DEFINE bits == fr.packet_received \cup {pkt.packet_id}
    <2>1. /\ PushToFrame(fr, pkt).packet_received = bits
          /\ PushToFrame(fr, pkt).received_packets_count
                = (fr.received_packets_count + 1) % CountMod
          /\ PushToFrame(fr, pkt).expected_packet_count = fr.expected_packet_count
        BY <1>2 DEF PushToFrame, Stored, Reassembler
    <2>2. bits \subseteq 0 .. (fr.expected_packet_count - 1)
        BY <1>2, BitsFinite DEF Accepts, CountIsBits, RxPacket, U16
    <2>3. Cardinality(bits) = Cardinality(fr.packet_received) + 1
        BY <1>2, BitsFinite, FS_AddElement DEF Accepts
    <2>4. /\ Cardinality(bits) <= fr.expected_packet_count
          /\ Cardinality(bits) \in Nat
          /\ Cardinality(fr.packet_received) \in Nat
        <3>1. Cardinality(bits) <= Cardinality(0 .. (fr.expected_packet_count - 1))
            BY <2>2, BitsFinite, FS_Subset
        <3>2. IsFiniteSet(bits)
            BY <2>2, BitsFinite, FS_Subset
        <3> QED
            BY <3>1, <3>2, BitsFinite, FS_CardinalityType
    <2>5. (fr.received_packets_count + 1) % CountMod = Cardinality(bits)
        <3>1. fr.received_packets_count + 1 = Cardinality(bits)
            BY <2>3 DEF CountIsBits
        <3>2. Cardinality(bits) < CountMod
            BY <2>4, BitsFinite, PacketAssumption
        <3>3. \A n \in Nat : n < CountMod => n % CountMod = n
            BY PacketAssumption
        <3> QED
            BY <2>4, <3>1, <3>2, <3>3
    <2> QED
        BY <2>1, <2>2, <2>5 DEF CountIsBits
<1> QED
    BY <1>1, <1>2

(* A full count means that every bit is set.                                 *)
LEMMA FullCountMeansAllBits ==
    ASSUME NEW fr \in Reassembler, CountIsBits(fr),
           fr.received_packets_count = fr.expected_packet_count
    PROVE  fr.packet_received = 0 .. (fr.expected_packet_count - 1)
<1> DEFINE all == 0 .. (fr.expected_packet_count - 1)
<1>1. /\ fr.packet_received \subseteq all /\ IsFiniteSet(all)
      /\ Cardinality(fr.packet_received) = Cardinality(all)
    BY BitsFinite DEF CountIsBits
<1> QED
    BY <1>1, FS_Subset

-----------------------------------------------------------------------------
(* The frame ends where the last packet stored ends.                         *)
EndsWithLast(fr, f) ==
    \/ fr.packet_received = {} /\ fr.frame_size = 0
    \/ \E pid \in fr.packet_received : fr.frame_size = EndIn(f.data, pid)

(* What the object holds of the frame f: the bytes of the packets it stored, at *)
(* their place, and what was in the buffer before elsewhere; and it ends with  *)
(* the last of them.                                                        *)
Carries(fr, f, before) ==
    /\ fr.current_frame_id = f.frame_id
    /\ fr.expected_packet_count = PacketCount(f.data)
    /\ CountIsBits(fr)
    /\ \A i \in Offsets :
          fr.frame_buffer[i] =
              IF i < Len(f.data) /\ i \div MaxUdpPayload \in fr.packet_received
              THEN f.data[i + 1] ELSE before[i]
    /\ fr.frame_size <= Len(f.data)
    /\ \A pid \in fr.packet_received : EndIn(f.data, pid) <= fr.frame_size
    /\ EndsWithLast(fr, f)

(* An offset lies in the packet of its quotient, and in no other.             *)
LEMMA QuotientIsPacket ==
    ASSUME NEW i \in Nat, NEW pid \in Nat
    PROVE  i \div MaxUdpPayload = pid <=>
               pid * MaxUdpPayload <= i /\ i < pid * MaxUdpPayload + MaxUdpPayload
<1>1. \A m \in Nat \ {0} : pid * m <= i /\ i < pid * m + m => i \div m = pid
    OBVIOUS
<1> QED
    BY <1>1, DivisionBounds, PacketAssumption

LEMMA StartCarries ==
    ASSUME NEW fr \in Reassembler, NEW f \in SentFrames
    PROVE  Carries(StartNewFrame(fr, f.frame_id, PacketCount(f.data)), f,
                   fr.frame_buffer)
<1> DEFINE new == StartNewFrame(fr, f.frame_id, PacketCount(f.data))
<1>1. f.frame_id \in Nat /\ f.data \in Seq(Byte) /\ PacketCount(f.data) \in U16
    BY PacketAssumption, CountBounds
<1>2. CountIsBits(new)
    BY <1>1, StartCountIsBits
<1>3. /\ new.current_frame_id = f.frame_id
      /\ new.expected_packet_count = PacketCount(f.data)
      /\ new.packet_received = {}
      /\ new.frame_buffer = fr.frame_buffer
      /\ new.frame_size = 0
    BY DEF StartNewFrame, Reassembler
<1>4. Carries(new, f, fr.frame_buffer)
    <2> HIDE DEF new
    <2> QED
        BY <1>1, <1>2, <1>3, LenProperties DEF Carries, EndsWithLast
<1> QED
    BY <1>4

(* A new object's buffer is all zeros.                                       *)
Zeros == [i \in Offsets |-> ZeroByte]

LEMMA NewCarries ==
    ASSUME NEW f \in SentFrames
    PROVE  Carries(StartNewFrame(NewReassembler, f.frame_id, PacketCount(f.data)), f,
                   Zeros)
<1>1. NewReassembler.frame_buffer = Zeros
    BY DEF NewReassembler, Zeros
<1> QED
    BY <1>1, StartCarries, NewReassemblerType

LEMMA StoredCarries ==
    ASSUME PayloadStride = MaxUdpPayload,
           NEW fr \in Reassembler, NEW f \in SentFrames, NEW before,
           Carries(fr, f, before),
           NEW pid \in Nat, pid < PacketCount(f.data),
           NEW pkt, pkt = PacketAt(f.frame_id, f.data, pid), Accepts(fr, pkt)
    PROVE  Carries(Stored(fr, pkt), f, before)
<1> DEFINE bits == fr.packet_received \cup {pid}
           end  == EndIn(f.data, pid)
<1>1. f.frame_id \in Nat /\ f.data \in Seq(Byte) /\ Len(f.data) \in Nat
    BY PacketAssumption, LenProperties
<1>2. /\ pkt \in RxPacket /\ pkt.packet_id = pid
      /\ OffsetOf(pkt) = pid * MaxUdpPayload /\ OffsetOf(pkt) \in Nat
      /\ EndOf(pkt) = end
      /\ \A k \in 1 .. Len(pkt.payload) :
            pkt.payload[k] = f.data[OffsetOf(pkt) + k]
    <2>1. pkt.packet_id = pid
        BY DEF PacketAt
    <2> QED
        BY <1>1, <2>1, PacketContents DEF OffsetOf, EndOf
<1>3. /\ Len(pkt.payload) \in Nat /\ end = OffsetOf(pkt) + Len(pkt.payload)
      /\ end \in Nat /\ end <= Len(f.data)
    <2>1. Len(pkt.payload) \in Nat /\ end = OffsetOf(pkt) + Len(pkt.payload)
        BY <1>2, LenProperties DEF RxPacket, EndOf
    <2>2. \A n, m \in Nat : (IF n <= m THEN n ELSE m) <= m
        OBVIOUS
    <2>3. pid * MaxUdpPayload + MaxUdpPayload \in Nat
        BY <1>2, PacketAssumption
    <2>4. end <= Len(f.data)
        BY <1>1, <2>2, <2>3 DEF EndIn
    <2> QED
        BY <1>2, <2>1, <2>4
<1>4. \A i \in Nat : (OffsetOf(pkt) <= i /\ i < end)
                       <=> (i < Len(f.data) /\ i \div MaxUdpPayload = pid)
    <2>1. \A off, len, i \in Nat :
             (off <= i /\ i < (IF off + MaxUdpPayload <= len
                               THEN off + MaxUdpPayload ELSE len))
             <=> (i < len /\ off <= i /\ i < off + MaxUdpPayload)
        BY PacketAssumption
    <2>2. \A i \in Nat : (OffsetOf(pkt) <= i /\ i < end)
             <=> (i < Len(f.data) /\ OffsetOf(pkt) <= i
                    /\ i < OffsetOf(pkt) + MaxUdpPayload)
        BY <1>1, <1>2, <2>1, Zenon DEF EndIn
    <2> QED
        BY <1>2, <2>2, QuotientIsPacket
<1>5. /\ Stored(fr, pkt).current_frame_id = fr.current_frame_id
      /\ Stored(fr, pkt).expected_packet_count = fr.expected_packet_count
      /\ Stored(fr, pkt).packet_received = bits
      /\ Stored(fr, pkt).frame_buffer = Overwrite(fr.frame_buffer, pkt)
      /\ Stored(fr, pkt).frame_size = IF fr.frame_size < end THEN end ELSE fr.frame_size
    BY <1>2 DEF Stored, Reassembler
<1>6. CountIsBits(Stored(fr, pkt))
    BY <1>2, PushCountIsBits DEF PushToFrame, Carries
<1> HIDE DEF end
<1>7. ASSUME NEW i \in Offsets
      PROVE  Overwrite(fr.frame_buffer, pkt)[i] =
                 IF i < Len(f.data) /\ i \div MaxUdpPayload \in bits
                 THEN f.data[i + 1] ELSE before[i]
    <2>1. i \in Nat
        BY ReassemblerAssumption DEF Offsets
    <2>2. CASE OffsetOf(pkt) <= i /\ i < end
        <3>1. Overwrite(fr.frame_buffer, pkt)[i] = pkt.payload[i - OffsetOf(pkt) + 1]
            BY <1>2, <2>2 DEF Overwrite
        <3>2. /\ i - OffsetOf(pkt) + 1 \in 1 .. Len(pkt.payload)
              /\ OffsetOf(pkt) + (i - OffsetOf(pkt) + 1) = i + 1
            BY <1>2, <1>3, <2>1, <2>2
        <3>3. Overwrite(fr.frame_buffer, pkt)[i] = f.data[i + 1]
            BY <1>2, <3>1, <3>2
        <3> QED
            BY <1>4, <2>1, <2>2, <3>3
    <2>3. CASE ~(OffsetOf(pkt) <= i /\ i < end)
        <3>1. Overwrite(fr.frame_buffer, pkt)[i] = fr.frame_buffer[i]
            BY <1>2, <2>3 DEF Overwrite
        <3>2. ~(i < Len(f.data) /\ i \div MaxUdpPayload = pid)
            BY <1>4, <2>1, <2>3
        <3> QED
            BY <3>1, <3>2 DEF Carries
    <2> QED
        BY <2>2, <2>3
<1>8. /\ Stored(fr, pkt).frame_size \in Nat
      /\ fr.frame_size <= Stored(fr, pkt).frame_size
      /\ end <= Stored(fr, pkt).frame_size
      /\ Stored(fr, pkt).frame_size <= Len(f.data)
    BY <1>1, <1>3, <1>5, ReassemblerAssumption DEF Carries, Reassembler
<1>9. ASSUME NEW p \in bits
      PROVE  EndIn(f.data, p) <= Stored(fr, pkt).frame_size
    <2>1. CASE p = pid
        BY <1>8, <2>1 DEF end
    <2>2. CASE p \in fr.packet_received
        <3>1. p \in Nat /\ EndIn(f.data, p) <= fr.frame_size
            BY <2>2, PacketAssumption DEF Carries, Reassembler, U16
        <3>2. EndIn(f.data, p) \in Nat
            BY <1>1, <3>1, ProductMonotonic, PacketAssumption DEF EndIn
        <3>3. fr.frame_size \in Nat
            BY ReassemblerAssumption DEF Reassembler
        <3> QED
            BY <1>8, <3>1, <3>2, <3>3
    <2> QED
        BY <2>1, <2>2
<1>10. EndsWithLast(Stored(fr, pkt), f)
    <2>1. CASE fr.frame_size < end
        <3>1. pid \in bits /\ Stored(fr, pkt).frame_size = end
            BY <1>5, <2>1
        <3> QED
            BY <1>5, <3>1 DEF EndsWithLast, end
    <2>2. CASE ~(fr.frame_size < end)
        <3>1. Stored(fr, pkt).frame_size = fr.frame_size
            BY <1>5, <2>2
        <3>2. CASE \E p \in fr.packet_received : fr.frame_size = EndIn(f.data, p)
            BY <1>5, <3>1, <3>2 DEF EndsWithLast
        <3>3. CASE fr.packet_received = {} /\ fr.frame_size = 0
            <4>1. end = fr.frame_size
                BY <1>3, <2>2, <3>3
            <4> QED
                BY <1>5, <3>1, <4>1 DEF EndsWithLast, end
        <3> QED
            BY <3>2, <3>3 DEF Carries, EndsWithLast
    <2> QED
        BY <2>1, <2>2
<1> QED
    BY <1>5, <1>6, <1>7, <1>8, <1>9, <1>10 DEF Carries

(* A frame of which every packet was stored is the frame sent, if the count of *)
(* its packets fits into 16 bits.                                           *)
LEMMA FullFrameIsIntact ==
    ASSUME NEW fr \in Reassembler, NEW f \in SentFrames, NEW before,
           Carries(fr, f, before),
           Needed(Len(f.data)) < CountMod,
           fr.received_packets_count = fr.expected_packet_count
    PROVE  FrameData(fr) = f.data
<1> DEFINE n == Needed(Len(f.data))
<1>1. f.data \in Seq(Byte) /\ Len(f.data) \in Nat
    BY PacketAssumption, LenProperties
<1>2. /\ n \in Nat /\ Len(f.data) <= n * MaxUdpPayload
      /\ n * MaxUdpPayload <= Len(f.data) + MaxUdpPayload - 1
    BY <1>1, CountBounds
<1>3. fr.expected_packet_count = n
    <2>1. \A k \in Nat : k < CountMod => k % CountMod = k
        BY PacketAssumption
    <2> QED
        BY <1>2, <2>1 DEF Carries, PacketCount, Needed
<1>4. fr.packet_received = 0 .. (n - 1)
    BY <1>3, FullCountMeansAllBits DEF Carries
<1> HIDE DEF n
<1>5. ASSUME NEW i \in Nat, i < Len(f.data)
      PROVE  i \div MaxUdpPayload \in fr.packet_received
    <2>1. /\ i \div MaxUdpPayload \in Nat
          /\ (i \div MaxUdpPayload) * MaxUdpPayload <= i
        BY DivisionBounds, PacketAssumption
    <2>2. CASE n <= i \div MaxUdpPayload
        <3>1. \A a, b \in Nat : a <= b => a * MaxUdpPayload <= b * MaxUdpPayload
            BY PacketAssumption
        <3>2. n * MaxUdpPayload <= (i \div MaxUdpPayload) * MaxUdpPayload
            BY <1>2, <2>1, <2>2, <3>1
        <3>3. n * MaxUdpPayload \in Nat /\ (i \div MaxUdpPayload) * MaxUdpPayload \in Nat
            BY <1>2, <2>1, PacketAssumption
        <3> QED
            BY <1>1, <1>2, <1>5, <2>1, <3>2, <3>3
    <2> QED
        BY <1>2, <1>4, <2>1, <2>2
<1>6. fr.frame_size \in Nat /\ fr.frame_size <= MaxFrameSize
    BY ReassemblerAssumption DEF Reassembler
<1>7. fr.frame_size = Len(f.data)
    <2>1. fr.frame_size <= Len(f.data)
        BY DEF Carries
    <2>2. CASE Len(f.data) = 0
        BY <1>6, <2>1, <2>2
    <2>3. CASE Len(f.data) # 0
        <3>1. n # 0
            BY <1>1, <1>2, <2>3, PacketAssumption
        <3>2. n - 1 \in Nat /\ n - 1 \in fr.packet_received
            BY <1>2, <1>4, <3>1
        <3>3. (n - 1) * MaxUdpPayload + MaxUdpPayload = n * MaxUdpPayload
            BY <1>2, PacketAssumption
        <3>4. EndIn(f.data, n - 1) = Len(f.data)
            <4>1. \A a, b \in Nat : b <= a => (IF a <= b THEN a ELSE b) = b
                OBVIOUS
            <4>2. n * MaxUdpPayload \in Nat
                BY <1>2, PacketAssumption
            <4> QED
                BY <1>1, <1>2, <3>3, <4>1, <4>2 DEF EndIn
        <3>5. Len(f.data) <= fr.frame_size
            BY <3>2, <3>4 DEF Carries
        <3> QED
            BY <1>1, <1>6, <2>1, <3>5
    <2> QED
        BY <2>2, <2>3
<1>8. ASSUME NEW k \in 1 .. Len(f.data)
      PROVE  FrameData(fr)[k] = f.data[k]
    <2>1. k - 1 \in Nat /\ k - 1 < Len(f.data) /\ k - 1 \in Offsets /\ k - 1 + 1 = k
        BY <1>1, <1>6, <1>7, ReassemblerAssumption DEF Offsets
    <2>2. fr.frame_buffer[k - 1] = f.data[k]
        BY <1>5, <2>1 DEF Carries
    <2> QED
        BY <1>7, <2>2 DEF FrameData
<1>9. FrameData(fr) \in Seq(Byte) /\ Len(FrameData(fr)) = Len(f.data)
    BY <1>7, FrameDataType
<1> QED
    BY <1>1, <1>8, <1>9, SeqEqual
=============================================================================
