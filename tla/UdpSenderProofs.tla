--------------------------- MODULE UdpSenderProofs ---------------------------
(***************************************************************************)
(* Theorems about UdpSender, for any frames, any payload size and any width   *)
(* of the packet count.                                                     *)
(***************************************************************************)
EXTENDS UdpSender, SequenceTheorems, TLAPS

(* The lemmas about packets; the receiver's buffer plays no part in them.       *)
P == INSTANCE FrameReassemblerV2Proofs
    WITH MaxFrameSize <- 0, PayloadStride <- 1, ZeroByte <- CHOOSE b \in Byte : TRUE

(* The packets needed for a frame of a given length, before uint16_t.        *)
Needed(length) == (length + MaxUdpPayload - 1) \div MaxUdpPayload

(* No frame needs more packets than the header's field can count.             *)
CountsFit == \A f \in SentFrames : Needed(Len(f.data)) < CountMod

LEMMA Assumptions ==
    /\ CountMod \in Nat \ {0} /\ MaxUdpPayload \in Nat \ {0} /\ Byte # {}
    /\ SentFrames \subseteq [frame_id : Nat, data : Seq(Byte)]
    /\ P!IsFiniteSet(SentFrames)
    /\ 0 \in Nat /\ 1 \in Nat \ {0} /\ (CHOOSE b \in Byte : TRUE) \in Byte
BY PacketAssumption DEF P!IsFiniteSet, IsFiniteSet

LEMMA SamePackets ==
    /\ P!U16 = U16 /\ P!RxPacket = RxPacket
    /\ \A data : P!PacketCount(data) = PacketCount(data)
    /\ \A id, data, n : P!PacketAt(id, data, n) = PacketAt(id, data, n)
    /\ \A data, n : P!EndIn(data, n) = EndIn(data, n)
    /\ \A length : P!Needed(length) = Needed(length)
BY DEF P!U16, U16, P!RxPacket, RxPacket, P!PacketCount, PacketCount,
       P!PacketAt, PacketAt, P!EndIn, EndIn, P!Needed, Needed

LEMMA CountBounds ==
    ASSUME NEW data \in Seq(Byte)
    PROVE  /\ Needed(Len(data)) \in Nat
           /\ PacketCount(data) \in U16
           /\ Needed(Len(data)) * MaxUdpPayload <= Len(data) + MaxUdpPayload - 1
           /\ Len(data) <= Needed(Len(data)) * MaxUdpPayload
BY Assumptions, SamePackets, P!CountBounds

LEMMA PacketContents ==
    ASSUME NEW id \in Nat, NEW data \in Seq(Byte), NEW n \in Nat,
           n < PacketCount(data)
    PROVE  LET pkt == PacketAt(id, data, n)
           IN  /\ pkt \in RxPacket
               /\ n * MaxUdpPayload + Len(pkt.payload) = EndIn(data, n)
               /\ \A k \in 1 .. Len(pkt.payload) :
                     pkt.payload[k] = data[n * MaxUdpPayload + k]
<1>1. n < P!PacketCount(data)
    BY SamePackets
<1>2. /\ P!PacketAt(id, data, n) \in P!RxPacket
      /\ n * MaxUdpPayload + Len(P!PacketAt(id, data, n).payload) = P!EndIn(data, n)
      /\ \A k \in 1 .. Len(P!PacketAt(id, data, n).payload) :
            P!PacketAt(id, data, n).payload[k] = data[n * MaxUdpPayload + k]
    BY <1>1, Assumptions, P!PacketContents
<1> QED
    BY <1>2, SamePackets

LEMMA DivisionBounds ==
    ASSUME NEW a \in Nat, NEW m \in Nat \ {0}
    PROVE  /\ a \div m \in Nat
           /\ (a \div m) * m <= a
           /\ a < (a \div m) * m + m
OBVIOUS

LEMMA ProductMonotonic ==
    ASSUME NEW a \in Nat, NEW b \in Nat, NEW m \in Nat \ {0}, a < b
    PROVE  a * m \in Nat /\ b * m \in Nat /\ a * m + m <= b * m
OBVIOUS

(* Where sendFrame is in its loop: it works on packet pid only while there is *)
(* one, it comes to an end by itself only when there is none left, and the     *)
(* frame it works on is one of the frames sent.                              *)
LoopInv ==
    /\ at \in {"wait", "send"} => pid < PacketCount(frame)
    /\ (at = "idle" /\ ~failed) => pid = PacketCount(frame)
    /\ frame # <<>> => [frame_id |-> frame_id, data |-> frame] \in SentFrames

IInv == TypeOK /\ LoopInv /\ SentInOrder

LEMMA CountType ==
    ASSUME NEW data \in Seq(Byte)
    PROVE  PacketCount(data) \in Nat /\ PacketCount(data) < CountMod
BY CountBounds, PacketAssumption DEF U16

LEMMA EmptyFrame == PacketCount(<<>>) = 0
<1>1. MaxUdpPayload - 1 \in Nat /\ MaxUdpPayload - 1 < MaxUdpPayload
    BY PacketAssumption
<1>2. \A a, m \in Nat : a < m => a \div m = 0
    OBVIOUS
<1>3. (MaxUdpPayload - 1) \div MaxUdpPayload = 0
    BY <1>1, <1>2, PacketAssumption
<1>4. Len(<<>>) + MaxUdpPayload - 1 = MaxUdpPayload - 1
    BY PacketAssumption
<1>5. 0 % CountMod = 0
    BY PacketAssumption
<1> QED
    BY <1>3, <1>4, <1>5 DEF PacketCount

LEMMA InitIInv == Init => IInv
<1> SUFFICES ASSUME Init
             PROVE  IInv
    OBVIOUS
<1>1. pid = 0 /\ PacketCount(frame) = 0
    BY EmptyFrame DEF Init
<1>2. sent = <<>> /\ frame = <<>>
    BY DEF Init
<1>3. TypeOK
    <2>1. pid \in 0 .. PacketCount(frame)
        BY <1>1
    <2>2. frame \in Seq(Byte) /\ sent \in Seq(RxPacket)
        BY <1>2, EmptySeq
    <2> QED
        BY <2>1, <2>2 DEF Init, TypeOK
<1>4. LoopInv
    BY <1>1, <1>2 DEF Init, LoopInv
<1>5. SentInOrder
    BY <1>1, <1>2 DEF SentInOrder
<1> QED
    BY <1>3, <1>4, <1>5 DEF IInv

LEMMA SendFrameKeepsIInv ==
    ASSUME IInv, NEW f \in SentFrames, SendFrame(f)
    PROVE  IInv'
<1>1. f.data \in Seq(Byte) /\ f.frame_id \in Nat
    BY PacketAssumption
<1>2. 0 \in 0 .. PacketCount(f.data)
    BY <1>1, CountType
<1>3. TypeOK'
    BY <1>1, <1>2, EmptySeq DEF SendFrame, TypeOK
<1>4. LoopInv'
    <2>1. f = [frame_id |-> f.frame_id, data |-> f.data]
        BY PacketAssumption
    <2> QED
        BY <2>1 DEF SendFrame, LoopInv
<1>5. SentInOrder'
    BY DEF SendFrame, SentInOrder
<1> QED
    BY <1>3, <1>4, <1>5 DEF IInv

(* The step that matters: the packet goes out at the place of its number, and *)
(* pid does not wrap round.                                                  *)
LEMMA SendToKeepsIInv ==
    ASSUME IInv, SendTo
    PROVE  IInv'
<1> DEFINE pkt == PacketAt(frame_id, frame, pid)
<1>1. /\ pid \in Nat /\ pid < PacketCount(frame)
      /\ frame \in Seq(Byte) /\ frame_id \in Nat /\ sent \in Seq(RxPacket)
    BY DEF IInv, TypeOK, LoopInv, SendTo
<1>2. pkt \in RxPacket
    BY <1>1, PacketContents
<1>3. pid' = pid + 1
    <2>1. \A n \in Nat : n < CountMod => n % CountMod = n
        BY PacketAssumption
    <2>2. pid + 1 \in Nat /\ pid + 1 < CountMod
        BY <1>1, CountType, PacketAssumption
    <2> QED
        BY <2>1, <2>2 DEF SendTo
<1>4. sent' = Append(sent, pkt) /\ frame' = frame /\ frame_id' = frame_id
      /\ failed' = failed /\ at' = "loop"
    BY DEF SendTo
<1> HIDE DEF pkt
<1>5. sent' \in Seq(RxPacket)
    BY <1>1, <1>2, <1>4, AppendProperties
<1>6. TypeOK'
    <2>1. pid' \in 0 .. PacketCount(frame)
        BY <1>1, <1>3, CountType
    <2> QED
        BY <1>4, <1>5, <2>1 DEF IInv, TypeOK
<1>7. LoopInv'
    BY <1>4 DEF IInv, LoopInv
<1>8. SentInOrder'
    <2>1. sent = [i \in 1 .. pid |-> PacketAt(frame_id, frame, i - 1)]
        BY DEF IInv, SentInOrder
    <2>2. Len(sent) = pid
        BY <1>1, <2>1, LenProperties
    <2>3. /\ Len(sent') = pid + 1
          /\ \A i \in 1 .. pid : sent'[i] = sent[i]
          /\ sent'[pid + 1] = pkt
        BY <1>1, <1>2, <1>4, <2>2, AppendProperties
    <2>4. \A i \in 1 .. (pid + 1) : sent'[i] = PacketAt(frame_id, frame, i - 1)
        <3> TAKE i \in 1 .. (pid + 1)
        <3>1. CASE i \in 1 .. pid
            BY <2>1, <2>3, <3>1
        <3>2. CASE i = pid + 1
            <4>1. i - 1 = pid
                BY <1>1, <3>2
            <4> QED
                BY <2>3, <3>2, <4>1 DEF pkt
        <3> QED
            BY <1>1, <3>1, <3>2
    <2>5. sent' = [i \in 1 .. (pid + 1) |-> sent'[i]]
        BY <1>5, <2>3, LenProperties
    <2> QED
        BY <1>3, <1>4, <2>4, <2>5 DEF SentInOrder
<1> QED
    BY <1>6, <1>7, <1>8 DEF IInv

(* pid-- and pid++ come back to where they were, also through the wrap at 0.  *)
LEMMA RetryKeepsPid ==
    ASSUME IInv, Retry
    PROVE  pid' = pid
<1>1. pid \in Nat /\ pid < CountMod
    <2>1. pid \in 0 .. PacketCount(frame) /\ frame \in Seq(Byte)
        BY DEF IInv, TypeOK
    <2>2. PacketCount(frame) \in Nat /\ PacketCount(frame) < CountMod
        BY <2>1, CountType
    <2> QED
        BY <2>1, <2>2, PacketAssumption
<1>2. \A n \in Nat : n < CountMod => n % CountMod = n
    BY PacketAssumption
<1>3. CASE pid = 0
    <2>1. CountMod - 1 \in Nat /\ CountMod - 1 < CountMod
        BY PacketAssumption
    <2>2. (pid + CountMod - 1) % CountMod = CountMod - 1
        BY <1>2, <1>3, <2>1, PacketAssumption
    <2>3. (CountMod - 1 + 1) % CountMod = 0
        BY PacketAssumption
    <2> QED
        BY <1>3, <2>2, <2>3 DEF Retry
<1>4. CASE pid > 0
    <2>1. pid - 1 \in Nat /\ pid - 1 < CountMod
        BY <1>1, <1>4, PacketAssumption
    <2>2. \A n \in Nat : n < CountMod => (n + CountMod) % CountMod = n
        BY PacketAssumption
    <2>3. pid + CountMod - 1 = pid - 1 + CountMod
        BY <1>1, PacketAssumption
    <2>4. (pid + CountMod - 1) % CountMod = pid - 1
        BY <2>1, <2>2, <2>3
    <2>5. pid - 1 + 1 = pid
        BY <1>1
    <2> QED
        BY <1>1, <1>2, <2>4, <2>5 DEF Retry
<1> QED
    BY <1>1, <1>3, <1>4

LEMMA NextKeepsIInv == IInv /\ [Next]_vars => IInv'
<1> SUFFICES ASSUME IInv, [Next]_vars
             PROVE  IInv'
    OBVIOUS
<1>1. ASSUME NEW f \in SentFrames, SendFrame(f)
      PROVE  IInv'
    BY <1>1, SendFrameKeepsIInv
<1>2. CASE LoopTest
    <2>1. pid \in Nat /\ pid <= PacketCount(frame) /\ PacketCount(frame) \in Nat
        BY CountType DEF IInv, TypeOK
    <2> QED
        BY <1>2, <2>1 DEF LoopTest, IInv, TypeOK, LoopInv, SentInOrder
<1>3. CASE Writable
    BY <1>3 DEF Writable, IInv, TypeOK, LoopInv, SentInOrder
<1>4. CASE GiveUp
    BY <1>4 DEF GiveUp, IInv, TypeOK, LoopInv, SentInOrder
<1>5. CASE SendTo
    BY <1>5, SendToKeepsIInv
<1>6. CASE Retry
    BY <1>6, RetryKeepsPid DEF Retry, IInv, TypeOK, LoopInv, SentInOrder
<1>7. CASE UNCHANGED vars
    BY <1>7 DEF vars, IInv, TypeOK, LoopInv, SentInOrder
<1> QED
    BY <1>1, <1>2, <1>3, <1>4, <1>5, <1>6, <1>7 DEF Next

LEMMA Inductive == Spec => []IInv
BY InitIInv, NextKeepsIInv, PTL DEF Spec

-----------------------------------------------------------------------------
(* The loop variable stays within the packet count, and every packet sent is  *)
(* well formed.                                                             *)
THEOREM TypeCorrect == Spec => []TypeOK
<1>1. IInv => TypeOK
    BY DEF IInv
<1> QED
    BY <1>1, Inductive, PTL

(* Retries neither skip a packet nor send one twice.                         *)
THEOREM PacketsInOrder == Spec => []SentInOrder
<1>1. IInv => SentInOrder
    BY DEF IInv
<1> QED
    BY <1>1, Inductive, PTL

(* What goes out is what the receiver's modules take as their input.          *)
THEOREM OnlyRxPackets == Spec => []SendsOnlyRxPackets
<1>1. IInv => SendsOnlyRxPackets
    <2> SUFFICES ASSUME IInv, NEW i \in DOMAIN sent
                 PROVE  sent[i] \in RxPackets
        BY DEF SendsOnlyRxPackets, Range
    <2>1. /\ pid \in Nat /\ pid <= PacketCount(frame)
          /\ PacketCount(frame) \in Nat /\ PacketCount(frame) < CountMod
        BY CountType DEF IInv, TypeOK
    <2>2. i \in 1 .. pid /\ sent[i] = PacketAt(frame_id, frame, i - 1)
        BY DEF IInv, SentInOrder
    <2>3. i - 1 \in U16 /\ i - 1 < PacketCount(frame)
        BY <2>1, <2>2, PacketAssumption DEF U16
    <2> DEFINE f == [frame_id |-> frame_id, data |-> frame]
    <2>4. f \in SentFrames
        BY <2>1, <2>2, EmptyFrame DEF IInv, TypeOK, LoopInv
    <2>5. f.frame_id = frame_id /\ f.data = frame
        OBVIOUS
    <2> HIDE DEF f
    <2>6. sent[i] \in {PacketAt(f.frame_id, f.data, n) :
                          n \in {k \in U16 : k < PacketCount(f.data)}}
        BY <2>2, <2>3, <2>5
    <2> QED
        BY <2>4, <2>6 DEF RxPackets
<1> QED
    BY <1>1, Inductive, PTL

(* Every byte of a frame goes out, if the frame needs no more packets than a  *)
(* uint16_t can count (CountsFit).                                            *)
THEOREM NoByteLeftOut ==
    ASSUME CountsFit
    PROVE  Spec => []WholeFrameSent
<1>1. IInv => WholeFrameSent
    <2> SUFFICES ASSUME IInv, at = "idle", ~failed, NEW i \in DOMAIN frame
                 PROVE  \E k \in DOMAIN sent :
                            LET place == i - sent[k].packet_id * MaxUdpPayload
                            IN  /\ place \in DOMAIN sent[k].payload
                                /\ sent[k].payload[place] = frame[i]
        BY DEF WholeFrameSent
    <2>1. frame \in Seq(Byte) /\ frame_id \in Nat
        BY DEF IInv, TypeOK
    <2>2. i \in 1 .. Len(frame) /\ Len(frame) \in Nat
        BY <2>1, LenProperties
    <2>3. PacketCount(frame) = Needed(Len(frame)) /\ Needed(Len(frame)) \in Nat
        <3>1. [frame_id |-> frame_id, data |-> frame] \in SentFrames
            BY <2>2, LenProperties DEF IInv, LoopInv
        <3>2. Needed(Len(frame)) < CountMod
            BY <3>1 DEF CountsFit
        <3>3. \A n \in Nat : n < CountMod => n % CountMod = n
            BY PacketAssumption
        <3> QED
            BY <2>1, <3>2, <3>3, CountBounds DEF PacketCount, Needed
    <2> DEFINE p == (i - 1) \div MaxUdpPayload
               pkt == PacketAt(frame_id, frame, p)
    <2>4. /\ p \in Nat /\ p * MaxUdpPayload \in Nat
          /\ p * MaxUdpPayload < i /\ i <= p * MaxUdpPayload + MaxUdpPayload
        <3>1. i - 1 \in Nat
            BY <2>2
        <3>2. /\ p \in Nat /\ p * MaxUdpPayload <= i - 1
              /\ i - 1 < p * MaxUdpPayload + MaxUdpPayload
            BY <3>1, DivisionBounds, PacketAssumption
        <3> HIDE DEF p
        <3>3. p * MaxUdpPayload \in Nat
            BY <3>2, PacketAssumption
        <3> QED
            BY <2>2, <3>2, <3>3, PacketAssumption
    <2> HIDE DEF p
    <2>5. p < PacketCount(frame)
        <3>1. Len(frame) <= Needed(Len(frame)) * MaxUdpPayload
            BY <2>1, CountBounds
        <3>2. CASE Needed(Len(frame)) < p
            <4>1. /\ Needed(Len(frame)) * MaxUdpPayload \in Nat
                  /\ Needed(Len(frame)) * MaxUdpPayload + MaxUdpPayload <= p * MaxUdpPayload
                BY <2>3, <2>4, <3>2, ProductMonotonic, PacketAssumption
            <4> QED
                BY <2>2, <2>4, <3>1, <4>1, PacketAssumption
        <3>3. CASE Needed(Len(frame)) = p
            BY <2>2, <2>4, <3>1, <3>3
        <3> QED
            BY <2>3, <2>4, <3>2, <3>3
    <2>6. /\ p * MaxUdpPayload + Len(pkt.payload) = EndIn(frame, p)
          /\ \A k \in 1 .. Len(pkt.payload) : pkt.payload[k] = frame[p * MaxUdpPayload + k]
          /\ pkt.payload \in Seq(Byte)
        BY <2>1, <2>4, <2>5, PacketContents DEF RxPacket
    <2>7. pkt.packet_id = p
        BY DEF PacketAt
    <2> HIDE DEF pkt
    <2>8. /\ i - p * MaxUdpPayload \in 1 .. Len(pkt.payload)
          /\ p * MaxUdpPayload + (i - p * MaxUdpPayload) = i
        <3>1. \A first, length, n \in Nat :
                 /\ first < n /\ n <= first + MaxUdpPayload /\ n <= Len(frame)
                 /\ first + length = IF first + MaxUdpPayload <= Len(frame)
                                     THEN first + MaxUdpPayload ELSE Len(frame)
                 => n - first \in 1 .. length /\ first + (n - first) = n
            BY <2>2, PacketAssumption
        <3>2. Len(pkt.payload) \in Nat /\ i \in Nat /\ i <= Len(frame)
            BY <2>2, <2>6, LenProperties
        <3> QED
            BY <2>4, <2>6, <3>1, <3>2, Zenon DEF EndIn
    <2>9. p + 1 \in DOMAIN sent /\ sent[p + 1] = pkt
        <3>1. pid = PacketCount(frame)
            BY DEF IInv, LoopInv
        <3>2. p + 1 \in 1 .. pid /\ (p + 1) - 1 = p
            BY <2>3, <2>4, <2>5, <3>1
        <3>3. sent = [k \in 1 .. pid |-> PacketAt(frame_id, frame, k - 1)]
            BY DEF IInv, SentInOrder
        <3>4. DOMAIN sent = 1 .. pid
                 /\ \A k \in 1 .. pid : sent[k] = PacketAt(frame_id, frame, k - 1)
            BY <3>3
        <3>5. \A k \in 1 .. pid : k - 1 = p => sent[k] = PacketAt(frame_id, frame, p)
            BY <3>4, Zenon
        <3>6. sent[p + 1] = PacketAt(frame_id, frame, p)
            BY <3>2, <3>5, Zenon
        <3>7. pkt = PacketAt(frame_id, frame, p)
            BY DEF pkt
        <3> QED
            BY <3>2, <3>4, <3>6, <3>7, Zenon
    <2> QED
        <3>1. i - p * MaxUdpPayload \in DOMAIN pkt.payload
            BY <2>6, <2>8, LenProperties
        <3>2. pkt.payload[i - p * MaxUdpPayload] = frame[i]
            BY <2>6, <2>8
        <3> QED
            BY <2>7, <2>9, <3>1, <3>2
<1> QED
    BY <1>1, Inductive, PTL
=============================================================================
