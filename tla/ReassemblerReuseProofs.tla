------------------------ MODULE ReassemblerReuseProofs ------------------------
(***************************************************************************)
(* Theorems about ReassemblerReuse: what a reassembler that is used for one    *)
(* frame after the other keeps apart, for any frames, any payload size, any   *)
(* size of the buffer and any width of the packet count.                     *)
(***************************************************************************)
EXTENDS ReassemblerReuse, FrameReassemblerV2Proofs

WF == INSTANCE WellFoundedInduction

SameStride == PayloadStride = MaxUdpPayload

DistinctIds == \A f, g \in SentFrames : f.frame_id = g.frame_id => f = g

(* The packet count that a packet of f announces.                            *)
LEMMA OriginOfPacket ==
    ASSUME NEW pkt \in RxPackets
    PROVE  /\ pkt \in RxPacket
           /\ \E f \in SentFrames :
                 /\ f.frame_id = pkt.frame_id /\ f.frame_id \in Nat
                 /\ pkt.packet_count = PacketCount(f.data)
                 /\ pkt.packet_count \in U16
                 /\ pkt.packet_id \in Nat /\ pkt.packet_id < PacketCount(f.data)
                 /\ pkt = PacketAt(f.frame_id, f.data, pkt.packet_id)
<1>1. PICK f \in SentFrames, pid \in Nat :
          /\ pid < PacketCount(f.data)
          /\ pkt = PacketAt(f.frame_id, f.data, pid)
          /\ f.frame_id \in Nat /\ f.data \in Seq(Byte)
    BY PacketOrigin
<1>2. /\ pkt.frame_id = f.frame_id /\ pkt.packet_count = PacketCount(f.data)
      /\ pkt.packet_id = pid
    BY <1>1 DEF PacketAt
<1>3. PacketCount(f.data) \in U16
    BY <1>1, CountBounds
<1> QED
    BY <1>1, <1>2, <1>3, PacketType

-----------------------------------------------------------------------------
(* An object between two frames accepts nothing; in a frame, it carries one   *)
(* that was sent over whatever the buffer held when the frame began.          *)
ObjectInv ==
    /\ fr \in Reassembler
    /\ CountIsBits(fr)
    /\ fr.expected_packet_count # 0 =>
          \E f \in SentFrames : \E before : Carries(fr, f, before)

(* What the methods make of the object, frame or no frame.                    *)
LEMMA PushObject ==
    ASSUME NEW pkt \in RxPackets, fr \in Reassembler, CountIsBits(fr)
    PROVE  /\ FrameFor(pkt) \in Reassembler
           /\ CountIsBits(FrameFor(pkt))
           /\ PushToFrame(FrameFor(pkt), pkt) \in Reassembler
           /\ CountIsBits(PushToFrame(FrameFor(pkt), pkt))
<1>1. pkt \in RxPacket /\ pkt.frame_id \in Nat /\ pkt.packet_count \in U16
    BY OriginOfPacket
<1>2. FrameFor(pkt) \in Reassembler /\ CountIsBits(FrameFor(pkt))
    BY <1>1, StartNewFrameType, StartCountIsBits DEF FrameFor
<1> QED
    BY <1>1, <1>2, PushToFrameType, PushCountIsBits

LEMMA ResetObject ==
    ASSUME fr \in Reassembler
    PROVE  /\ ResetFrame(fr) \in Reassembler
           /\ CountIsBits(ResetFrame(fr))
           /\ ResetFrame(fr).expected_packet_count = 0
           /\ ResetFrame(fr).received_packets_count = 0
           /\ ResetFrame(fr).current_frame_id = fr.current_frame_id
<1>1. 0 \in U16
    BY PacketAssumption DEF U16
<1>2. ResetFrame(fr) \in Reassembler
    BY <1>1 DEF ResetFrame, Reassembler
<1>3. /\ ResetFrame(fr).packet_received = {}
      /\ ResetFrame(fr).expected_packet_count = 0
      /\ ResetFrame(fr).received_packets_count = 0
      /\ ResetFrame(fr).current_frame_id = fr.current_frame_id
    BY DEF ResetFrame, Reassembler
<1> QED
    BY <1>2, <1>3, FS_EmptySet DEF CountIsBits

(* A packet that is stored continues the frame that the object is in.         *)
LEMMA PushCarries ==
    ASSUME SameStride, DistinctIds, ObjectInv, NEW pkt \in RxPackets,
           PushToFrame(FrameFor(pkt), pkt).expected_packet_count # 0
    PROVE  \E f \in SentFrames : \E before :
              Carries(PushToFrame(FrameFor(pkt), pkt), f, before)
<1> DEFINE old == FrameFor(pkt)
<1>1. PICK f \in SentFrames :
          /\ f.frame_id = pkt.frame_id
          /\ pkt.packet_count = PacketCount(f.data)
          /\ pkt.packet_id \in Nat /\ pkt.packet_id < PacketCount(f.data)
          /\ pkt = PacketAt(f.frame_id, f.data, pkt.packet_id)
    BY OriginOfPacket
<1>2. old \in Reassembler
    BY PushObject DEF ObjectInv
<1>3. old.expected_packet_count # 0
    BY <1>2 DEF PushToFrame, Stored, Reassembler
<1>4. \E before : Carries(old, f, before)
    <2>1. CASE pkt.frame_id # fr.current_frame_id
        <3>1. old = StartNewFrame(fr, f.frame_id, PacketCount(f.data))
            BY <1>1, <2>1 DEF FrameFor
        <3>2. Carries(old, f, fr.frame_buffer)
            BY <3>1, StartCarries DEF ObjectInv
        <3> QED
            BY <3>2
    <2>2. CASE pkt.frame_id = fr.current_frame_id
        <3>1. old = fr
            BY <2>2 DEF FrameFor
        <3>2. PICK g \in SentFrames : \E before : Carries(old, g, before)
            BY <1>3, <3>1 DEF ObjectInv
        <3>3. g = f
            BY <1>1, <2>2, <3>1, <3>2 DEF Carries, DistinctIds
        <3> QED
            BY <3>2, <3>3
    <2> QED
        BY <2>1, <2>2
<1>5. PICK before : Carries(old, f, before)
    BY <1>4
<1> HIDE DEF old
<1>6. CASE Accepts(old, pkt)
    <2>1. Carries(Stored(old, pkt), f, before)
        BY <1>1, <1>2, <1>5, <1>6, StoredCarries DEF SameStride
    <2> QED
        BY <1>6, <2>1 DEF PushToFrame, old
<1>7. CASE ~Accepts(old, pkt)
    BY <1>5, <1>7 DEF PushToFrame, old
<1> QED
    BY <1>6, <1>7

LEMMA ObjectInvariant ==
    ASSUME SameStride, DistinctIds
    PROVE  Spec => []ObjectInv
<1>1. Init => ObjectInv
    <2> SUFFICES ASSUME Init
                 PROVE  ObjectInv
        OBVIOUS
    <2>1. fr = NewReassembler /\ fr \in Reassembler
        BY NewReassemblerType DEF Init
    <2>2. /\ fr.expected_packet_count = 0 /\ fr.received_packets_count = 0
          /\ fr.packet_received = {}
        BY <2>1 DEF NewReassembler
    <2> QED
        BY <2>1, <2>2, FS_EmptySet DEF ObjectInv, CountIsBits
<1>2. ObjectInv /\ [Next]_vars => ObjectInv'
    <2> SUFFICES ASSUME ObjectInv, [Next]_vars
                 PROVE  ObjectInv'
        OBVIOUS
    <2>1. ASSUME NEW pkt \in RxPackets, Push(pkt)
          PROVE  ObjectInv'
        <3>1. fr' = PushToFrame(FrameFor(pkt), pkt)
            BY <2>1 DEF Push
        <3>2. fr' \in Reassembler /\ CountIsBits(fr')
            BY <3>1, PushObject DEF ObjectInv
        <3>3. fr'.expected_packet_count # 0 =>
                  \E f \in SentFrames : \E before : Carries(fr', f, before)
            BY <3>1, PushCarries
        <3> QED
            BY <3>2, <3>3 DEF ObjectInv
    <2>2. ASSUME fr' = ResetFrame(fr)
          PROVE  ObjectInv'
        BY <2>2, ResetObject DEF ObjectInv
    <2>3. CASE fr' = fr
        BY <2>3 DEF ObjectInv
    <2> QED
        BY <2>1, <2>2, <2>3 DEF Next, Take, Abandon, V1Step, vars
<1> QED
    BY <1>1, <1>2, PTL DEF Spec

-----------------------------------------------------------------------------
(* What is taken from a used object is a frame that was sent, byte for byte:   *)
(* startNewFrame sets the size back, and a full count overwrites every byte   *)
(* below it, so that nothing of the frame before is left to be seen.          *)
THEOREM OnlySentIsTaken ==
    ASSUME SameStride, DistinctIds, CountsFit
    PROVE  Spec => []TakenIsSent
<1>1. Init => TakenIsSent
    BY DEF Init, TakenIsSent
<1>2. ObjectInv /\ TakenIsSent /\ [Next]_vars => TakenIsSent'
    <2> SUFFICES ASSUME ObjectInv, TakenIsSent, [Next]_vars
                 PROVE  TakenIsSent'
        OBVIOUS
    <2>1. CASE Take
        <3>1. /\ fr.received_packets_count = fr.expected_packet_count
              /\ fr.received_packets_count > 0
              /\ result' = [frame_id |-> fr.current_frame_id,
                            data |-> FrameData(fr)]
            BY <2>1 DEF Take, MakeResult, IsFrameComplete
        <3>2. PICK f \in SentFrames : \E before : Carries(fr, f, before)
            BY <3>1 DEF ObjectInv
        <3>3. FrameData(fr) = f.data
            BY <3>1, <3>2, FullFrameIsIntact DEF ObjectInv, CountsFit
        <3>4. fr.current_frame_id = f.frame_id
            BY <3>2 DEF Carries
        <3>5. f = [frame_id |-> f.frame_id, data |-> f.data]
            BY PacketAssumption
        <3> QED
            BY <3>1, <3>3, <3>4, <3>5 DEF TakenIsSent
    <2>2. CASE UNCHANGED result
        BY <2>2 DEF TakenIsSent
    <2> QED
        BY <2>1, <2>2 DEF Next, Push, Abandon, V1Step, vars
<1> QED
    BY <1>1, <1>2, ObjectInvariant, PTL DEF Spec

-----------------------------------------------------------------------------
(* After a frame was taken the object keeps its id and expects nothing, so     *)
(* that a late packet neither starts a frame nor is accepted.                 *)
Rests ==
    finished # NoResult =>
        /\ fr.current_frame_id = finished
        /\ fr.expected_packet_count = 0
        /\ fr.received_packets_count = 0

OverInv == fr \in Reassembler /\ CountIsBits(fr) /\ Rests

(* A frame that was taken is not collected a second time from its late packets,*)
(* whatever frames were sent, with whatever ids and sizes.                    *)
THEOREM NothingIsTakenTwice == Spec => []TakenOnlyOnce
<1>1. Init => OverInv
    <2> SUFFICES ASSUME Init
                 PROVE  OverInv
        OBVIOUS
    <2>1. fr = NewReassembler /\ fr \in Reassembler
        BY NewReassemblerType DEF Init
    <2>2. /\ fr.expected_packet_count = 0 /\ fr.received_packets_count = 0
          /\ fr.packet_received = {}
        BY <2>1 DEF NewReassembler
    <2> QED
        BY <2>1, <2>2, FS_EmptySet DEF Init, OverInv, CountIsBits, Rests
<1>2. OverInv /\ [Next]_vars => OverInv'
    <2> SUFFICES ASSUME OverInv, [Next]_vars
                 PROVE  OverInv'
        OBVIOUS
    <2>1. ASSUME NEW pkt \in RxPackets, Push(pkt)
          PROVE  OverInv'
        <3>1. /\ fr' = PushToFrame(FrameFor(pkt), pkt)
              /\ finished' = IF pkt.frame_id = finished THEN finished ELSE NoResult
            BY <2>1 DEF Push
        <3>2. fr' \in Reassembler /\ CountIsBits(fr')
            BY <3>1, PushObject DEF OverInv
        <3>3. CASE pkt.frame_id = finished /\ finished # NoResult
            <4>1. FrameFor(pkt) = fr
                BY <3>3 DEF FrameFor, OverInv, Rests
            <4>2. pkt.packet_id \in Nat
                BY OriginOfPacket
            <4>3. ~Accepts(fr, pkt)
                BY <3>3, <4>2 DEF Accepts, OverInv, Rests
            <4>4. fr' = fr /\ finished' = finished
                BY <3>1, <3>3, <4>1, <4>3 DEF PushToFrame
            <4> QED
                BY <4>4 DEF OverInv, CountIsBits, Rests
        <3>4. CASE ~(pkt.frame_id = finished /\ finished # NoResult)
            BY <3>1, <3>2, <3>4 DEF OverInv, Rests
        <3> QED
            BY <3>3, <3>4
    <2>2. CASE Take
        <3>1. fr' = ResetFrame(fr) /\ finished' = fr.current_frame_id
            BY <2>2 DEF Take, MakeResult
        <3> QED
            BY <3>1, ResetObject DEF OverInv, Rests
    <2>3. CASE Abandon
        <3>1. fr' = ResetFrame(fr) /\ finished' = finished
            BY <2>3 DEF Abandon
        <3> QED
            BY <3>1, ResetObject DEF OverInv, Rests
    <2>4. CASE UNCHANGED <<fr, finished>>
        BY <2>4 DEF OverInv, CountIsBits, Rests
    <2> QED
        BY <2>1, <2>2, <2>3, <2>4 DEF Next, V1Step, vars
<1>3. OverInv => TakenOnlyOnce
    BY DEF OverInv, Rests, TakenOnlyOnce, HasAnyPacket
<1> QED
    BY <1>1, <1>2, <1>3, PTL DEF Spec

-----------------------------------------------------------------------------
(* The FrameReassembler, while it is in a frame, keeps packets of that frame    *)
(* only, and counts each once.  Between frames (0 packets expected) it may      *)
(* keep anything: a frame whose id is NoFrameId gets there.                   *)
KeptOfFrame(id, count, received, kept) ==
    /\ count \in Nat /\ count < CountMod
    /\ count # 0 =>
          /\ \E f \in SentFrames : f.frame_id = id /\ PacketCount(f.data) = count
          /\ kept \subseteq 0 .. (count - 1)
          /\ received = Cardinality(kept)

V1Inv == KeptOfFrame(current_frame_id, expected_packet_count, received_packet_count,
                     DOMAIN packets)

LEMMA IndicesFinite ==
    ASSUME NEW n \in Nat
    PROVE  IsFiniteSet(0 .. (n - 1)) /\ Cardinality(0 .. (n - 1)) = n
<1> DEFINE m == n - 1
<1>1. m \in Int /\ m - 0 + 1 = n /\ (0 > m => n = 0)
    OBVIOUS
<1> HIDE DEF m
<1>2. IsFiniteSet(0 .. m) /\ Cardinality(0 .. m) = n
    BY <1>1, FS_Interval
<1> QED
    BY <1>2 DEF m

(* FrameReassembler has its own instance of Cardinality.                       *)
LEMMA SameCardinality == \A S : V1!Cardinality(S) = Cardinality(S)
BY DEF V1!Cardinality, Cardinality

LEMMA V1PushKeeps ==
    ASSUME DistinctIds, V1Inv, NEW pkt \in RxPackets, V1!PushPacket(pkt)
    PROVE  V1Inv'
<1>1. PICK f \in SentFrames :
          /\ f.frame_id = pkt.frame_id
          /\ pkt.packet_count = PacketCount(f.data)
          /\ pkt.packet_count \in U16
          /\ pkt.packet_id \in Nat /\ pkt.packet_id < PacketCount(f.data)
    BY OriginOfPacket
<1>2. \A n \in Nat : n < CountMod => n % CountMod = n
    BY PacketAssumption
<1>3. CASE V1!StartWith(pkt)
    <2>1. DOMAIN V1!Single(pkt) = {pkt.packet_id}
          /\ Cardinality(DOMAIN V1!Single(pkt)) = 1
        BY FS_Singleton DEF V1!Single
    <2>2. /\ packets' = V1!Single(pkt)
          /\ current_frame_id' = f.frame_id
          /\ expected_packet_count' = PacketCount(f.data)
          /\ received_packet_count' = Cardinality(DOMAIN V1!Single(pkt)) % CountMod
        BY <1>1, <1>3, SameCardinality DEF V1!StartWith, V1!Becomes
    <2>3. expected_packet_count' \in Nat /\ expected_packet_count' < CountMod
          /\ 1 < CountMod
        BY <1>1, <2>2, PacketAssumption DEF U16
    <2>4. received_packet_count' = Cardinality(DOMAIN packets')
        BY <1>2, <2>1, <2>2, <2>3
    <2>5. DOMAIN packets' \subseteq 0 .. (expected_packet_count' - 1)
        BY <1>1, <2>1, <2>2, <2>3
    <2> QED
        BY <2>2, <2>3, <2>4, <2>5 DEF V1Inv, KeptOfFrame
<1>4. CASE V1!DropOld(pkt)
    BY <1>4, PacketAssumption DEF V1!DropOld, V1!Cleared, V1!Becomes, V1Inv, KeptOfFrame
<1>5. CASE V1!IgnoreDuplicate(pkt)
    BY <1>5 DEF V1!IgnoreDuplicate, V1Inv, KeptOfFrame
<1>6. CASE V1!Keep(pkt)
    <2> DEFINE kept == DOMAIN packets \cup {pkt.packet_id}
    <2>1. /\ DOMAIN packets' = kept
          /\ pkt.packet_id \notin DOMAIN packets
          /\ received_packet_count' = (received_packet_count + 1) % CountMod
          /\ current_frame_id' = current_frame_id
          /\ current_frame_id = f.frame_id
          /\ expected_packet_count' = expected_packet_count
        BY <1>1, <1>6 DEF V1!Keep
    <2>2. ASSUME expected_packet_count # 0
          PROVE  /\ kept \subseteq 0 .. (expected_packet_count - 1)
                 /\ received_packet_count' = Cardinality(kept)
        <3>1. expected_packet_count \in Nat /\ expected_packet_count < CountMod
            BY DEF V1Inv, KeptOfFrame
        <3>2. PacketCount(f.data) = expected_packet_count
            BY <2>1, <2>2 DEF V1Inv, KeptOfFrame, DistinctIds
        <3>3. /\ DOMAIN packets \subseteq 0 .. (expected_packet_count - 1)
              /\ received_packet_count = Cardinality(DOMAIN packets)
            BY <2>2 DEF V1Inv, KeptOfFrame
        <3>4. kept \subseteq 0 .. (expected_packet_count - 1)
            BY <1>1, <3>1, <3>2, <3>3
        <3>5. /\ IsFiniteSet(DOMAIN packets) /\ IsFiniteSet(kept)
              /\ Cardinality(kept) <= expected_packet_count
            BY <3>1, <3>3, <3>4, IndicesFinite, FS_Subset
        <3>6. Cardinality(kept) = received_packet_count + 1
            BY <2>1, <3>3, <3>5, FS_AddElement
        <3>7. Cardinality(kept) \in Nat
            BY <3>5, FS_CardinalityType
        <3>8. Cardinality(kept) < CountMod
            BY <3>1, <3>5, <3>7, PacketAssumption
        <3> QED
            BY <1>2, <2>1, <3>4, <3>6, <3>7, <3>8
    <2> QED
        BY <2>1, <2>2 DEF V1Inv, KeptOfFrame
<1> QED
    BY <1>3, <1>4, <1>5, <1>6 DEF V1!PushPacket

LEMMA V1Invariant ==
    ASSUME DistinctIds
    PROVE  Spec => []V1Inv
<1>1. Init => V1Inv
    BY PacketAssumption DEF Init, V1!Init, V1Inv, KeptOfFrame
<1>2. V1Inv /\ [Next]_vars => V1Inv'
    <2> SUFFICES ASSUME V1Inv, [Next]_vars
                 PROVE  V1Inv'
        OBVIOUS
    <2>1. ASSUME NEW pkt \in RxPackets, Push(pkt)
          PROVE  V1Inv'
        BY <2>1, V1PushKeeps DEF Push
    <2>2. CASE V1!Cleared
        BY <2>2, PacketAssumption DEF V1!Cleared, V1!Becomes, V1Inv, KeptOfFrame
    <2>3. CASE UNCHANGED <<current_frame_id, expected_packet_count,
                           received_packet_count, packets>>
        BY <2>3 DEF V1Inv, KeptOfFrame
    <2> QED
        BY <2>1, <2>2, <2>3
        DEF Next, Take, Abandon, V1Step, V1!PopFrame, V1!Reset, V1!Tick, vars, v1Vars
<1> QED
    BY <1>1, <1>2, PTL DEF Spec

LEMMA CompleteIsAll ==
    ASSUME V1Inv, V1!FrameComplete
    PROVE  /\ expected_packet_count \in Nat \ {0}
           /\ DOMAIN packets = 0 .. (expected_packet_count - 1)
<1> DEFINE all == 0 .. (expected_packet_count - 1)
<1>1. /\ expected_packet_count \in Nat \ {0} /\ DOMAIN packets \subseteq all
      /\ Cardinality(DOMAIN packets) = expected_packet_count
    BY DEF V1Inv, KeptOfFrame, V1!FrameComplete
<1>2. IsFiniteSet(all) /\ Cardinality(all) = expected_packet_count
    BY <1>1, IndicesFinite
<1>3. DOMAIN packets = all
    BY <1>1, <1>2, FS_Subset
<1> QED
    BY <1>1, <1>3

(* A FrameReassembler that counts a frame complete has every packet popFrame   *)
(* looks for: the branch marked "you shouldn't be coming here" is not reached.  *)
THEOREM EveryPacketIsThere ==
    ASSUME DistinctIds
    PROVE  Spec => []CompleteHasEveryPacket
<1>1. V1Inv => CompleteHasEveryPacket
    BY CompleteIsAll DEF CompleteHasEveryPacket, V1!CompleteHasEveryPacket, V1!Indices
<1> QED
    BY <1>1, V1Invariant, PTL

-----------------------------------------------------------------------------
(* popFrame's loop joins the payloads one by one: what FlattenSeq makes of a    *)
(* sequence is the last of the sequences it joins on the way.  Induction over   *)
(* the numbers in a set, from the well-foundedness of the order:              *)
LEMMA InductionInASet ==
    ASSUME NEW S, 0 \in S, \A n \in Nat : n \in S => n + 1 \in S
    PROVE  Nat \subseteq S
<1> DEFINE T == Nat \ S
<1> SUFFICES ASSUME T # {}
             PROVE  FALSE
    OBVIOUS
<1>1. PICK least \in T : \A n \in T : ~(<<n, least>> \in WF!OpToRel(<, Nat))
    BY WF!NatLessThanWellFounded, WF!WFMin, Zenon
<1>2. least \in Nat /\ least # 0
    OBVIOUS
<1>3. least - 1 \in Nat /\ least - 1 < least /\ least - 1 + 1 = least
    BY <1>2
<1>4. <<least - 1, least>> \in WF!OpToRel(<, Nat)
    BY <1>2, <1>3, Zenon DEF WF!OpToRel
<1>5. least - 1 \in S
    BY <1>1, <1>3, <1>4, Zenon
<1> QED
    BY <1>1, <1>3, <1>5

JoinsUpTo(join, n, seqs) ==
    join = [i \in 1 .. n |-> IF i = 1 THEN seqs[i] ELSE join[i - 1] \o seqs[i]]

LEMMA JoinExists ==
    ASSUME NEW seqs, NEW n \in Nat
    PROVE  \E join : JoinsUpTo(join, n, seqs)
<1> DEFINE S == {k \in Nat : \E join : JoinsUpTo(join, k, seqs)}
<1>1. 0 \in S
    <2>1. JoinsUpTo([i \in 1 .. 0 |-> seqs[i]], 0, seqs)
        BY DEF JoinsUpTo
    <2> QED
        BY <2>1
<1>2. ASSUME NEW k \in Nat, k \in S
      PROVE  k + 1 \in S
    <2>1. PICK join : JoinsUpTo(join, k, seqs)
        BY <1>2
    <2> DEFINE next == IF k = 0 THEN seqs[1] ELSE join[k] \o seqs[k + 1]
               more == [i \in 1 .. (k + 1) |-> IF i <= k THEN join[i] ELSE next]
    <2>2. \A i \in 1 .. k : join[i] = IF i = 1 THEN seqs[i] ELSE join[i - 1] \o seqs[i]
        BY <2>1 DEF JoinsUpTo
    <2>3. ASSUME NEW i \in 1 .. (k + 1)
          PROVE  more[i] = IF i = 1 THEN seqs[i] ELSE more[i - 1] \o seqs[i]
        <3>1. CASE i <= k
            <4>1. i \in 1 .. k /\ more[i] = join[i]
                BY <1>2, <3>1
            <4>2. i # 1 => more[i - 1] = join[i - 1]
                BY <1>2, <3>1
            <4> QED
                BY <2>2, <4>1, <4>2
        <3>2. CASE ~(i <= k)
            <4>1. i = k + 1 /\ more[i] = next
                BY <1>2, <3>2
            <4>2. i # 1 => k # 0 /\ i - 1 = k /\ more[i - 1] = join[k]
                BY <1>2, <4>1
            <4> QED
                BY <1>2, <4>1, <4>2
        <3> QED
            BY <3>1, <3>2
    <2>4. more = [i \in 1 .. (k + 1) |-> more[i]]
        OBVIOUS
    <2> HIDE DEF more
    <2>5. JoinsUpTo(more, k + 1, seqs)
        BY <2>3, <2>4 DEF JoinsUpTo
    <2> QED
        BY <1>2, <2>5
<1> HIDE DEF S
<1>3. Nat \subseteq S
    BY <1>1, <1>2, InductionInASet
<1> QED
    BY <1>3 DEF S

LEMMA FlattenJoins ==
    ASSUME NEW seqs, Len(seqs) \in Nat \ {0}
    PROVE  \E join :
              /\ join[1] = seqs[1]
              /\ \A n \in Nat \ {0} :
                    n < Len(seqs) => join[n + 1] = join[n] \o seqs[n + 1]
              /\ V1!FlattenSeq(seqs) = join[Len(seqs)]
<1> DEFINE join == CHOOSE f : JoinsUpTo(f, Len(seqs), seqs)
<1>1. JoinsUpTo(join, Len(seqs), seqs)
    BY JoinExists
<1>2. V1!FlattenSeq(seqs) = join[Len(seqs)]
    BY DEF V1!FlattenSeq, JoinsUpTo
<1> HIDE DEF join
<1>3. \A i \in 1 .. Len(seqs) :
          join[i] = IF i = 1 THEN seqs[i] ELSE join[i - 1] \o seqs[i]
    BY <1>1 DEF JoinsUpTo
<1>4. ASSUME NEW n \in Nat \ {0}, n < Len(seqs)
      PROVE  join[n + 1] = join[n] \o seqs[n + 1]
    <2> DEFINE i == n + 1
    <2>1. i \in 1 .. Len(seqs) /\ i # 1 /\ i - 1 = n
        BY <1>4
    <2> HIDE DEF i
    <2>2. join[i] = join[i - 1] \o seqs[i]
        BY <1>3, <2>1
    <2>3. join[i] = join[n] \o seqs[i]
        BY <2>1, <2>2
    <2> QED
        BY <2>3 DEF i
<1>5. join[1] = seqs[1]
    BY <1>3
<1> QED
    BY <1>2, <1>4, <1>5

LEMMA FlattenType ==
    ASSUME NEW S, NEW seqs \in Seq(Seq(S))
    PROVE  V1!FlattenSeq(seqs) \in Seq(S)
<1>1. Len(seqs) \in Nat /\ \A i \in 1 .. Len(seqs) : seqs[i] \in Seq(S)
    BY LenProperties, ElementOfSeq
<1>2. CASE Len(seqs) = 0
    BY <1>2, EmptySeq DEF V1!FlattenSeq
<1>3. CASE Len(seqs) # 0
    <2>1. PICK join :
              /\ join[1] = seqs[1]
              /\ \A n \in Nat \ {0} :
                    n < Len(seqs) => join[n + 1] = join[n] \o seqs[n + 1]
              /\ V1!FlattenSeq(seqs) = join[Len(seqs)]
        BY <1>1, <1>3, FlattenJoins
    <2> DEFINE I == {n \in Nat : n \in 1 .. Len(seqs) => join[n] \in Seq(S)}
    <2>2. 0 \in I
        OBVIOUS
    <2>3. ASSUME NEW n \in Nat, n \in I
          PROVE  n + 1 \in I
        <3> SUFFICES ASSUME n + 1 \in 1 .. Len(seqs)
                     PROVE  join[n + 1] \in Seq(S)
            OBVIOUS
        <3>1. CASE n = 0
            <4>1. join[1] = seqs[1] /\ 1 \in 1 .. Len(seqs) /\ n + 1 = 1
                BY <1>1, <1>3, <2>1, <3>1
            <4> QED
                BY <1>1, <4>1
        <3>2. CASE n # 0
            <4>1. join[n] \in Seq(S) /\ seqs[n + 1] \in Seq(S)
                BY <1>1, <2>3, <3>2
            <4>2. n \in Nat \ {0} /\ n < Len(seqs)
                BY <1>1, <3>2
            <4>3. join[n + 1] = join[n] \o seqs[n + 1]
                BY <2>1, <4>2
            <4> QED
                BY <4>1, <4>3, ConcatProperties
        <3> QED
            BY <3>1, <3>2
    <2> HIDE DEF I
    <2>4. Len(seqs) \in I
        BY <1>1, <2>2, <2>3, InductionInASet
    <2> QED
        BY <1>1, <1>3, <2>1, <2>4 DEF I
<1> QED
    BY <1>2, <1>3

(* The payloads of a frame's packets, joined in their order, are the frame.     *)
Begins(part, data, length) ==
    /\ part \in Seq(Byte)
    /\ Len(part) = length
    /\ \A k \in 1 .. length : part[k] = data[k]

LEMMA FirstPayload ==
    ASSUME NEW id \in Nat, NEW data \in Seq(Byte), NEW pid \in Nat, pid = 0,
           pid < PacketCount(data)
    PROVE  Begins(PacketAt(id, data, pid).payload, data, EndIn(data, pid))
<1> DEFINE payload == PacketAt(id, data, pid).payload
           m       == pid * MaxUdpPayload
<1>1. /\ PacketAt(id, data, pid) \in RxPacket
      /\ m + Len(payload) = EndIn(data, pid)
      /\ \A k \in 1 .. Len(payload) : payload[k] = data[m + k]
    BY PacketContents
<1>2. payload \in Seq(Byte) /\ Len(payload) \in Nat
    BY <1>1, LenProperties DEF RxPacket
<1>3. m = 0
    BY PacketAssumption
<1> HIDE DEF payload, m
<1>4. Begins(payload, data, EndIn(data, pid))
    BY <1>1, <1>2, <1>3 DEF Begins
<1> QED
    BY <1>4 DEF payload

LEMMA JoinedPayload ==
    ASSUME NEW id \in Nat, NEW data \in Seq(Byte), NEW pid \in Nat,
           pid + 1 < PacketCount(data),
           NEW part, Begins(part, data, EndIn(data, pid))
    PROVE  Begins(part \o PacketAt(id, data, pid + 1).payload, data, EndIn(data, pid + 1))
<1> DEFINE m == (pid + 1) * MaxUdpPayload
           payload == PacketAt(id, data, pid + 1).payload
<1>1. /\ PacketAt(id, data, pid + 1) \in RxPacket
      /\ m \in Nat /\ m < Len(data)
      /\ m + Len(payload) = EndIn(data, pid + 1)
      /\ \A k \in 1 .. Len(payload) : payload[k] = data[m + k]
    BY PacketContents
<1>2. payload \in Seq(Byte) /\ Len(payload) \in Nat /\ Len(data) \in Nat
    BY <1>1, LenProperties DEF RxPacket
<1>3. pid * MaxUdpPayload + MaxUdpPayload = m
    BY PacketAssumption
<1> HIDE DEF m, payload
<1>4. EndIn(data, pid) = m
    BY <1>1, <1>2, <1>3 DEF EndIn
<1>5. part \in Seq(Byte) /\ Len(part) = m /\ \A k \in 1 .. m : part[k] = data[k]
    BY <1>4 DEF Begins
<1>6. /\ part \o payload \in Seq(Byte)
      /\ Len(part \o payload) = m + Len(payload)
      /\ \A k \in 1 .. m + Len(payload) :
            (part \o payload)[k] = IF k <= m THEN part[k] ELSE payload[k - m]
    BY <1>2, <1>5, ConcatProperties
<1>7. ASSUME NEW k \in 1 .. m + Len(payload)
      PROVE  (part \o payload)[k] = data[k]
    <2>1. CASE k <= m
        BY <1>1, <1>2, <1>5, <1>6, <2>1
    <2>2. CASE ~(k <= m)
        <3>1. k - m \in 1 .. Len(payload) /\ m + (k - m) = k
            BY <1>1, <1>2, <2>2
        <3> QED
            BY <1>1, <1>6, <2>2, <3>1
    <2> QED
        BY <2>1, <2>2
<1>8. Begins(part \o payload, data, EndIn(data, pid + 1))
    BY <1>1, <1>6, <1>7 DEF Begins
<1> QED
    BY <1>8 DEF payload

LEMMA JoinedPayloads ==
    ASSUME NEW id \in Nat, NEW data \in Seq(Byte), NEW seqs,
           Len(seqs) \in Nat \ {0}, Len(seqs) <= PacketCount(data),
           \A i \in 1 .. Len(seqs) : seqs[i] = PacketAt(id, data, i - 1).payload
    PROVE  Begins(V1!FlattenSeq(seqs), data, EndIn(data, Len(seqs) - 1))
<1>1. PICK join :
          /\ join[1] = seqs[1]
          /\ \A n \in Nat \ {0} :
                n < Len(seqs) => join[n + 1] = join[n] \o seqs[n + 1]
          /\ V1!FlattenSeq(seqs) = join[Len(seqs)]
    BY FlattenJoins
<1>2. PacketCount(data) \in Nat
    BY CountBounds, PacketAssumption DEF U16
<1> DEFINE I == {n \in Nat : n + 1 \in 1 .. Len(seqs) =>
                                 Begins(join[n + 1], data, EndIn(data, n))}
<1>3. 0 \in I
    <2>1. join[1] = PacketAt(id, data, 0).payload
        BY <1>1
    <2>2. Begins(PacketAt(id, data, 0).payload, data, EndIn(data, 0))
        BY <1>2, FirstPayload
    <2> QED
        BY <2>1, <2>2
<1>4. ASSUME NEW n \in Nat, n \in I
      PROVE  n + 1 \in I
    <2> SUFFICES ASSUME n + 2 \in 1 .. Len(seqs)
                 PROVE  Begins(join[n + 2], data, EndIn(data, n + 1))
        OBVIOUS
    <2>1. n + 1 \in 1 .. Len(seqs) /\ n + 1 < PacketCount(data)
        BY <1>2
    <2>2. Begins(join[n + 1], data, EndIn(data, n))
        BY <1>4, <2>1
    <2>3. join[n + 2] = join[n + 1] \o PacketAt(id, data, n + 1).payload
        <3>1. n + 1 \in Nat \ {0} /\ n + 1 < Len(seqs) /\ n + 1 + 1 = n + 2
              /\ n + 2 - 1 = n + 1
            OBVIOUS
        <3>2. join[n + 1 + 1] = join[n + 1] \o seqs[n + 1 + 1]
            BY <1>1, <3>1
        <3>3. seqs[n + 2] = PacketAt(id, data, n + 2 - 1).payload
            OBVIOUS
        <3> QED
            BY <3>1, <3>2, <3>3
    <2> QED
        BY <2>1, <2>2, <2>3, JoinedPayload
<1> HIDE DEF I
<1>5. Len(seqs) - 1 \in I
    BY <1>3, <1>4, InductionInASet
<1>6. Len(seqs) - 1 + 1 = Len(seqs)
    OBVIOUS
<1> QED
    BY <1>1, <1>5, <1>6 DEF I

LEMMA SmallModulo ==
    ASSUME NEW k \in Nat, NEW m \in Nat \ {0}, k < m
    PROVE  k % m = k
OBVIOUS

LEMMA JoinedIsTheFrame ==
    ASSUME NEW id \in Nat, NEW data \in Seq(Byte), NEW seqs,
           Len(seqs) \in Nat \ {0}, Len(seqs) = PacketCount(data),
           Needed(Len(data)) < CountMod,
           \A i \in 1 .. Len(seqs) : seqs[i] = PacketAt(id, data, i - 1).payload
    PROVE  V1!FlattenSeq(seqs) = data
<1> DEFINE n == Needed(Len(data))
<1>1. /\ n \in Nat /\ Len(data) \in Nat
      /\ Len(data) <= n * MaxUdpPayload
    BY CountBounds, LenProperties
<1>2. Len(seqs) = n
    <2>1. PacketCount(data) = n % CountMod
        BY DEF PacketCount, Needed
    <2>2. n % CountMod = n
        BY <1>1, SmallModulo, PacketAssumption
    <2> QED
        BY <2>1, <2>2
<1> HIDE DEF n
<1>3. n - 1 \in Nat /\ (n - 1) * MaxUdpPayload + MaxUdpPayload = n * MaxUdpPayload
    BY <1>1, <1>2, PacketAssumption
<1>4. EndIn(data, n - 1) = Len(data)
    <2>1. n * MaxUdpPayload \in Nat
        BY <1>1, PacketAssumption
    <2>2. \A a, b \in Nat : b <= a => (IF a <= b THEN a ELSE b) = b
        OBVIOUS
    <2>3. EndIn(data, n - 1)
              = IF n * MaxUdpPayload <= Len(data) THEN n * MaxUdpPayload ELSE Len(data)
        BY <1>3 DEF EndIn
    <2> QED
        BY <1>1, <2>1, <2>2, <2>3
<1>5. Len(seqs) <= PacketCount(data)
    OBVIOUS
<1>6. Begins(V1!FlattenSeq(seqs), data, Len(data))
    BY <1>2, <1>4, <1>5, JoinedPayloads
<1> QED
    BY <1>6, SeqEqual DEF Begins

-----------------------------------------------------------------------------
(* The FrameReassembler's steps keep its types.                                *)
LEMMA V1ClearedType ==
    ASSUME V1!TypeOK, V1!Cleared, age' = age, popped' \in Seq(Byte)
    PROVE  V1!TypeOK'
<1>1. /\ current_frame_id' = NoFrameId /\ expected_packet_count' = 0
      /\ received_packet_count' = V1!Cardinality(DOMAIN V1!NoPackets) % CountMod
      /\ packets' = V1!NoPackets /\ DOMAIN V1!NoPackets = {}
    BY DEF V1!Cleared, V1!Becomes, V1!NoPackets
<1>2. received_packet_count' \in U16 /\ 0 \in U16
    BY <1>1, SameCardinality, FS_EmptySet, ModuloBounds, PacketAssumption DEF U16
<1> QED
    BY <1>1, <1>2, ReuseAssumption DEF V1!TypeOK, V1!U16, U16, V1!Long

LEMMA V1PushType ==
    ASSUME V1!TypeOK, NEW pkt \in RxPackets, V1!PushPacket(pkt)
    PROVE  V1!TypeOK'
<1>1. /\ pkt.frame_id \in Nat /\ pkt.packet_count \in U16 /\ pkt.packet_id \in U16
      /\ pkt.payload \in Seq(Byte)
    BY OriginOfPacket DEF RxPacket
<1>2. popped' = popped /\ popped \in Seq(Byte) /\ V1!U16 = U16
    BY DEF V1!PushPacket, V1!TypeOK, V1!U16, U16
<1>3. CASE V1!StartWith(pkt)
    <2>1. /\ current_frame_id' = pkt.frame_id /\ expected_packet_count' = pkt.packet_count
          /\ packets' = V1!Single(pkt) /\ age' = 0
          /\ received_packet_count' = V1!Cardinality(DOMAIN V1!Single(pkt)) % CountMod
        BY <1>3 DEF V1!StartWith, V1!Becomes
    <2>2. DOMAIN V1!Single(pkt) = {pkt.packet_id}
          /\ \A pid \in DOMAIN V1!Single(pkt) : V1!Single(pkt)[pid] = pkt.payload
        BY DEF V1!Single
    <2>3. received_packet_count' \in U16
        <3>1. received_packet_count' = 1 % CountMod
            BY <2>1, <2>2, SameCardinality, FS_Singleton
        <3> QED
            BY <3>1, ModuloBounds, PacketAssumption DEF U16
    <2>4. age' \in 0 .. V1!Long
        BY <2>1, ReuseAssumption DEF V1!Long
    <2> QED
        BY <1>1, <1>2, <2>1, <2>2, <2>3, <2>4 DEF V1!TypeOK
<1>4. CASE V1!DropOld(pkt)
    BY <1>2, <1>4, V1ClearedType DEF V1!DropOld
<1>5. CASE V1!IgnoreDuplicate(pkt)
    BY <1>2, <1>5 DEF V1!IgnoreDuplicate, V1!TypeOK, V1!Long
<1>6. CASE V1!Keep(pkt)
    <2>1. (received_packet_count + 1) % CountMod \in U16
        BY ModuloBounds, PacketAssumption DEF V1!TypeOK, V1!U16, U16
    <2> QED
        BY <1>1, <1>2, <1>6, <2>1 DEF V1!Keep, V1!TypeOK, V1!Long
<1> QED
    BY <1>3, <1>4, <1>5, <1>6 DEF V1!PushPacket

LEMMA JoinedType ==
    ASSUME V1!TypeOK, V1!Indices \subseteq DOMAIN packets
    PROVE  V1!Joined \in Seq(Byte)
<1> DEFINE seqs == [i \in 1 .. expected_packet_count |-> packets[i - 1]]
<1>1. expected_packet_count \in Nat
    BY PacketAssumption DEF V1!TypeOK, V1!U16
<1>2. \A i \in 1 .. expected_packet_count : i - 1 \in 0 .. (expected_packet_count - 1)
    BY <1>1
<1>3. \A i \in 1 .. expected_packet_count : packets[i - 1] \in Seq(Byte)
    BY <1>2 DEF V1!TypeOK, V1!Indices
<1>4. seqs \in Seq(Seq(Byte))
    BY <1>1, <1>3, IsASeq
<1> HIDE DEF seqs
<1>5. V1!FlattenSeq(seqs) \in Seq(Byte)
    BY <1>4, FlattenType
<1> QED
    BY <1>5 DEF V1!Joined, seqs

LEMMA V1StepType ==
    ASSUME V1!TypeOK, V1!PopFrame \/ V1!Reset \/ V1!Tick
    PROVE  V1!TypeOK'
<1>1. CASE V1!PopFrame
    <2>1. <<>> \in Seq(Byte)
        BY EmptySeq
    <2>2. CASE V1!Cleared /\ age' = age
        <3>1. popped' \in Seq(Byte)
            BY <1>1, <2>1, JoinedType DEF V1!PopFrame
        <3> QED
            BY <2>2, <3>1, V1ClearedType
    <2>3. CASE popped' = <<>>
               /\ UNCHANGED <<current_frame_id, expected_packet_count,
                              received_packet_count, packets, age>>
        BY <2>1, <2>3 DEF V1!TypeOK, V1!Long
    <2> QED
        BY <1>1, <2>2, <2>3 DEF V1!PopFrame
<1>2. CASE V1!Reset
    BY <1>2, V1ClearedType DEF V1!Reset, V1!TypeOK
<1>3. CASE V1!Tick
    BY <1>3, ReuseAssumption DEF V1!Tick, V1!TypeOK, V1!Long
<1> QED
    BY <1>1, <1>2, <1>3

(* What TypeOK needs: an object that has packets has the id of a frame sent.     *)
IdIsSent == fr.received_packets_count # 0 => fr.current_frame_id \in FrameIds

TypeInv == TypeOK /\ CountIsBits(fr) /\ IdIsSent

LEMMA InitTypeInv == Init => TypeInv
<1> SUFFICES ASSUME Init
             PROVE  TypeInv
    OBVIOUS
<1>1. fr = NewReassembler /\ fr \in Reassembler
    BY NewReassemblerType DEF Init
<1>2. /\ fr.expected_packet_count = 0 /\ fr.received_packets_count = 0
      /\ fr.packet_received = {}
    BY <1>1 DEF NewReassembler
<1>3. V1!TypeOK
    <2>1. <<>> \in Seq(Byte) /\ DOMAIN V1!NoPackets = {} /\ 0 \in V1!U16
          /\ V1!Long \in 0 .. V1!Long
        BY EmptySeq, PacketAssumption, ReuseAssumption
        DEF V1!NoPackets, V1!U16, V1!Long
    <2> QED
        BY <2>1, ReuseAssumption DEF Init, V1!Init, V1!TypeOK
<1> QED
    BY <1>1, <1>2, <1>3, FS_EmptySet DEF Init, TypeInv, TypeOK, CountIsBits, IdIsSent

LEMMA PushTypeInv ==
    ASSUME TypeInv, NEW pkt \in RxPackets, Push(pkt)
    PROVE  TypeInv'
<1>1. pkt.frame_id \in FrameIds
    BY PacketType
<1>2. V1!TypeOK'
    BY V1PushType DEF TypeInv, TypeOK, Push
<1>3. fr' = PushToFrame(FrameFor(pkt), pkt) /\ fr' \in Reassembler /\ CountIsBits(fr')
    BY PushObject DEF TypeInv, TypeOK, Push
<1>4. fr'.current_frame_id = pkt.frame_id
    BY <1>3, PushObject
    DEF TypeInv, TypeOK, FrameFor, StartNewFrame, PushToFrame, Stored, Reassembler
<1> QED
    BY <1>1, <1>2, <1>3, <1>4 DEF TypeInv, TypeOK, CountIsBits, IdIsSent, Push

(* The two reassemblers, what is taken of the second and what the first one      *)
(* returns keep their types: in particular no frame is taken that has no id.     *)
THEOREM TypeCorrect == Spec => []TypeOK
<1>1. TypeInv /\ [Next]_vars => TypeInv'
    <2> SUFFICES ASSUME TypeInv, [Next]_vars
                 PROVE  TypeInv'
        OBVIOUS
    <2>1. ASSUME NEW pkt \in RxPackets, Push(pkt)
          PROVE  TypeInv'
        BY <2>1, PushTypeInv
    <2>2. ASSUME fr' = ResetFrame(fr)
          PROVE  fr' \in Reassembler /\ CountIsBits(fr)' /\ IdIsSent'
        BY <2>2, ResetObject DEF TypeInv, TypeOK, CountIsBits, IdIsSent
    <2>3. CASE Take
        <3>1. /\ result' = [frame_id |-> fr.current_frame_id, data |-> FrameData(fr)]
              /\ finished' = fr.current_frame_id
              /\ fr.received_packets_count > 0
              /\ fr' = ResetFrame(fr) /\ UNCHANGED v1Vars
            BY <2>3 DEF Take, MakeResult
        <3>2. fr.current_frame_id \in FrameIds /\ FrameData(fr) \in Seq(Byte)
            BY <3>1, FrameDataType DEF TypeInv, TypeOK, IdIsSent
        <3>3. V1!TypeOK'
            BY <3>1 DEF TypeInv, TypeOK, V1!TypeOK, v1Vars, V1!Long
        <3> QED
            BY <2>2, <3>1, <3>2, <3>3 DEF TypeInv, TypeOK
    <2>4. CASE Abandon
        <3>1. V1!TypeOK'
            BY <2>4 DEF Abandon, TypeInv, TypeOK, V1!TypeOK, v1Vars, V1!Long
        <3> QED
            BY <2>2, <2>4, <3>1 DEF Abandon, TypeInv, TypeOK
    <2>5. CASE V1Step
        <3>1. V1!TypeOK'
            BY <2>5, V1StepType DEF V1Step, TypeInv, TypeOK
        <3> QED
            BY <2>5, <3>1 DEF V1Step, TypeInv, TypeOK, CountIsBits, IdIsSent
    <2>6. CASE UNCHANGED vars
        BY <2>6 DEF vars, v1Vars, TypeInv, TypeOK, V1!TypeOK, CountIsBits, IdIsSent, V1!Long
    <2> QED
        BY <2>1, <2>3, <2>4, <2>5, <2>6 DEF Next
<1>2. TypeInv => TypeOK
    BY DEF TypeInv
<1> QED
    BY <1>1, <1>2, InitTypeInv, PTL DEF Spec

-----------------------------------------------------------------------------
(* What the FrameReassembler keeps of a frame are the payloads of its packets.  *)
KeepsPayloads(f) ==
    /\ f.frame_id = current_frame_id
    /\ PacketCount(f.data) = expected_packet_count
    /\ \A pid \in DOMAIN packets :
          packets[pid] = PacketAt(f.frame_id, f.data, pid).payload

PayloadInv == expected_packet_count # 0 => \E f \in SentFrames : KeepsPayloads(f)

LEMMA PushKeepsPayloads ==
    ASSUME DistinctIds, PayloadInv, NEW pkt \in RxPackets, V1!PushPacket(pkt)
    PROVE  PayloadInv'
<1>1. PICK f \in SentFrames :
          /\ f.frame_id = pkt.frame_id
          /\ pkt.packet_count = PacketCount(f.data)
          /\ pkt = PacketAt(f.frame_id, f.data, pkt.packet_id)
    BY OriginOfPacket
<1>2. pkt.payload = PacketAt(f.frame_id, f.data, pkt.packet_id).payload
    BY <1>1
<1>3. CASE V1!StartWith(pkt)
    <2>1. /\ current_frame_id' = f.frame_id
          /\ expected_packet_count' = PacketCount(f.data)
          /\ packets' = V1!Single(pkt)
        BY <1>1, <1>3 DEF V1!StartWith, V1!Becomes
    <2>2. \A pid \in DOMAIN V1!Single(pkt) :
              pid = pkt.packet_id /\ V1!Single(pkt)[pid] = pkt.payload
        BY DEF V1!Single
    <2>3. KeepsPayloads(f)'
        BY <1>2, <2>1, <2>2 DEF KeepsPayloads, PacketCount, PacketAt
    <2> QED
        BY <2>3 DEF PayloadInv
<1>4. CASE V1!DropOld(pkt)
    BY <1>4 DEF V1!DropOld, V1!Cleared, V1!Becomes, PayloadInv
<1>5. CASE V1!IgnoreDuplicate(pkt)
    BY <1>5 DEF V1!IgnoreDuplicate, PayloadInv, KeepsPayloads
<1>6. CASE V1!Keep(pkt) /\ expected_packet_count # 0
    <2>1. PICK g \in SentFrames : KeepsPayloads(g)
        BY <1>6 DEF PayloadInv
    <2>2. /\ current_frame_id = pkt.frame_id
          /\ packets' = [pid \in DOMAIN packets \cup {pkt.packet_id} |->
                           IF pid = pkt.packet_id THEN pkt.payload ELSE packets[pid]]
          /\ UNCHANGED <<current_frame_id, expected_packet_count>>
        BY <1>6 DEF V1!Keep
    <2>3. g = f
        BY <1>1, <2>1, <2>2 DEF KeepsPayloads, DistinctIds
    <2>4. \A pid \in DOMAIN packets' :
              packets'[pid] = PacketAt(f.frame_id, f.data, pid).payload
        BY <1>2, <2>1, <2>2, <2>3 DEF KeepsPayloads
    <2>5. KeepsPayloads(f)'
        BY <2>1, <2>2, <2>3, <2>4 DEF KeepsPayloads
    <2> QED
        BY <2>5 DEF PayloadInv
<1>7. CASE V1!Keep(pkt) /\ expected_packet_count = 0
    BY <1>7 DEF V1!Keep, PayloadInv
<1> QED
    BY <1>3, <1>4, <1>5, <1>6, <1>7 DEF V1!PushPacket

LEMMA PayloadInvariant ==
    ASSUME DistinctIds
    PROVE  Spec => []PayloadInv
<1>1. Init => PayloadInv
    BY DEF Init, V1!Init, PayloadInv
<1>2. PayloadInv /\ [Next]_vars => PayloadInv'
    <2> SUFFICES ASSUME PayloadInv, [Next]_vars
                 PROVE  PayloadInv'
        OBVIOUS
    <2>1. ASSUME NEW pkt \in RxPackets, Push(pkt)
          PROVE  PayloadInv'
        BY <2>1, PushKeepsPayloads DEF Push
    <2>2. CASE V1!Cleared
        BY <2>2 DEF V1!Cleared, V1!Becomes, PayloadInv
    <2>3. CASE UNCHANGED <<current_frame_id, expected_packet_count, packets>>
        BY <2>3 DEF PayloadInv, KeepsPayloads
    <2> QED
        BY <2>1, <2>2, <2>3
        DEF Next, Take, Abandon, V1Step, V1!PopFrame, V1!Reset, V1!Tick, vars, v1Vars
<1> QED
    BY <1>1, <1>2, PTL DEF Spec

LEMMA JoinedIsSent ==
    ASSUME CountsFit, V1Inv, V1!FrameComplete, NEW f \in SentFrames, KeepsPayloads(f)
    PROVE  V1!Joined = f.data
<1> DEFINE n    == expected_packet_count
           seqs == [i \in 1 .. n |-> packets[i - 1]]
<1>1. n \in Nat \ {0} /\ DOMAIN packets = 0 .. (n - 1)
    BY CompleteIsAll
<1>2. f.frame_id \in Nat /\ f.data \in Seq(Byte) /\ Needed(Len(f.data)) < CountMod
    BY PacketAssumption DEF CountsFit
<1>3. n = PacketCount(f.data)
    BY DEF KeepsPayloads
<1>4. \A i \in 1 .. n : i - 1 \in DOMAIN packets
    BY <1>1
<1>5. \A i \in 1 .. n : seqs[i] = PacketAt(f.frame_id, f.data, i - 1).payload
    BY <1>4 DEF KeepsPayloads
<1>6. Len(seqs) = n
    BY <1>1
<1> HIDE DEF n, seqs
<1>7. V1!FlattenSeq(seqs) = f.data
    BY <1>1, <1>2, <1>3, <1>5, <1>6, JoinedIsTheFrame
<1> QED
    BY <1>7 DEF V1!Joined, seqs, n

(* What popFrame returns is a frame that was sent, byte for byte, although the   *)
(* packets of the frames come mixed, repeated and after a timeout, if no frame   *)
(* needs more packets than are counted and the ids are distinct.               *)
THEOREM OnlySentIsPopped ==
    ASSUME DistinctIds, CountsFit
    PROVE  Spec => []PoppedIsSent
<1>1. Init => PoppedIsSent
    BY DEF Init, V1!Init, PoppedIsSent, V1!PoppedIsSent
<1>2. V1Inv /\ PayloadInv /\ PoppedIsSent /\ [Next]_vars => PoppedIsSent'
    <2> SUFFICES ASSUME V1Inv, PayloadInv, PoppedIsSent, [Next]_vars
                 PROVE  PoppedIsSent'
        OBVIOUS
    <2>1. CASE V1!PopFrame
        <3>1. CASE popped' = <<>>
            BY <3>1 DEF PoppedIsSent, V1!PoppedIsSent
        <3>2. CASE V1!FrameComplete /\ popped' = V1!Joined
            <4>1. expected_packet_count # 0
                BY <3>2, CompleteIsAll
            <4>2. PICK f \in SentFrames : KeepsPayloads(f)
                BY <4>1 DEF PayloadInv
            <4>3. popped' = f.data
                BY <3>2, <4>2, JoinedIsSent
            <4> QED
                BY <4>3 DEF PoppedIsSent, V1!PoppedIsSent
        <3> QED
            BY <2>1, <3>1, <3>2 DEF V1!PopFrame
    <2>2. CASE UNCHANGED popped
        BY <2>2 DEF PoppedIsSent, V1!PoppedIsSent
    <2> QED
        BY <2>1, <2>2
        DEF Next, Push, V1!PushPacket, Take, Abandon, V1Step, V1!Reset, V1!Tick, vars,
            v1Vars
<1> QED
    BY <1>1, <1>2, V1Invariant, PayloadInvariant, PTL DEF Spec

-----------------------------------------------------------------------------
(* The two beside each other: while both are in a frame it is the same one, and  *)
(* what the first keeps the second has stored, unless it ends outside the buffer. *)
SameFrame == expected_packet_count # 0 => current_frame_id = fr.current_frame_id

StoredToo ==
    expected_packet_count # 0 /\ fr.expected_packet_count # 0 =>
        \A pid \in DOMAIN packets :
            \/ pid \in fr.packet_received
            \/ pid * PayloadStride + Len(packets[pid]) > MaxFrameSize

BesideInv == SameFrame /\ StoredToo /\ fr.corrupted_detected = FALSE

(* A packet is in the object after it was pushed, unless it does not fit there.  *)
LEMMA PushedIsStored ==
    ASSUME DistinctIds, ObjectInv, ObjectInv', NEW pkt \in RxPackets,
           fr' = PushToFrame(FrameFor(pkt), pkt), fr'.expected_packet_count # 0
    PROVE  \/ pkt.packet_id \in fr'.packet_received
           \/ pkt.packet_id * PayloadStride + Len(pkt.payload) > MaxFrameSize
<1> DEFINE old == FrameFor(pkt)
<1>1. PICK f \in SentFrames :
          /\ pkt \in RxPacket
          /\ f.frame_id = pkt.frame_id
          /\ pkt.packet_id \in Nat /\ pkt.packet_id < PacketCount(f.data)
    BY OriginOfPacket
<1>2. old \in Reassembler /\ old.current_frame_id = pkt.frame_id
    BY PushObject DEF ObjectInv, FrameFor, StartNewFrame, Reassembler
<1>3. /\ fr'.expected_packet_count = old.expected_packet_count
      /\ fr'.current_frame_id = pkt.frame_id
      /\ old.packet_received \subseteq fr'.packet_received
      /\ Accepts(old, pkt) => pkt.packet_id \in fr'.packet_received
    BY <1>2 DEF PushToFrame, Stored, Reassembler
<1>4. PICK g \in SentFrames : \E before : Carries(fr', g, before)
    BY DEF ObjectInv
<1>5. g = f /\ fr'.expected_packet_count = PacketCount(f.data)
    BY <1>1, <1>3, <1>4 DEF Carries, DistinctIds
<1>6. EndOf(pkt) = pkt.packet_id * PayloadStride + Len(pkt.payload) /\ EndOf(pkt) \in Nat
    BY <1>1, LenProperties, ReassemblerAssumption DEF EndOf, OffsetOf, RxPacket
<1>7. CASE Accepts(old, pkt)
    BY <1>3, <1>7
<1>8. CASE ~Accepts(old, pkt)
    <2>1. pkt.packet_id \in old.packet_received \/ ~(EndOf(pkt) <= MaxFrameSize)
        BY <1>1, <1>3, <1>5, <1>8 DEF Accepts
    <2> QED
        BY <1>3, <1>6, <2>1, ReassemblerAssumption
<1> QED
    BY <1>7, <1>8

LEMMA PushKeepsBeside ==
    ASSUME DistinctIds, ObjectInv, ObjectInv', BesideInv, NEW pkt \in RxPackets, Push(pkt)
    PROVE  BesideInv'
<1>1. V1!PushPacket(pkt) /\ fr' = PushToFrame(FrameFor(pkt), pkt)
    BY DEF Push
<1>2. /\ fr'.current_frame_id = pkt.frame_id
      /\ fr'.corrupted_detected = FALSE
      /\ fr'.expected_packet_count = FrameFor(pkt).expected_packet_count
      /\ FrameFor(pkt).packet_received \subseteq fr'.packet_received
    BY <1>1 DEF ObjectInv, BesideInv, FrameFor, StartNewFrame, PushToFrame, Stored,
                Reassembler
<1>3. fr'.expected_packet_count # 0 =>
          \/ pkt.packet_id \in fr'.packet_received
          \/ pkt.packet_id * PayloadStride + Len(pkt.payload) > MaxFrameSize
    BY <1>1, PushedIsStored
<1>4. CASE V1!StartWith(pkt)
    <2>1. current_frame_id' = pkt.frame_id /\ packets' = V1!Single(pkt)
        BY <1>4 DEF V1!StartWith, V1!Becomes
    <2>2. \A pid \in DOMAIN V1!Single(pkt) :
              pid = pkt.packet_id /\ V1!Single(pkt)[pid] = pkt.payload
        BY DEF V1!Single
    <2> QED
        BY <1>2, <1>3, <2>1, <2>2 DEF BesideInv, SameFrame, StoredToo
<1>5. CASE V1!DropOld(pkt)
    BY <1>2, <1>5 DEF V1!DropOld, V1!Cleared, V1!Becomes, BesideInv, SameFrame, StoredToo
<1>6. CASE V1!IgnoreDuplicate(pkt) \/ V1!Keep(pkt)
    <2>1. /\ current_frame_id = pkt.frame_id
          /\ UNCHANGED <<current_frame_id, expected_packet_count>>
          /\ \A pid \in DOMAIN packets' :
                \/ pid \in DOMAIN packets /\ packets'[pid] = packets[pid]
                \/ pid = pkt.packet_id /\ packets'[pid] = pkt.payload
        BY <1>6 DEF V1!IgnoreDuplicate, V1!Keep
    <2>2. expected_packet_count # 0 => FrameFor(pkt) = fr
        BY <2>1 DEF BesideInv, SameFrame, FrameFor
    <2>3. SameFrame'
        BY <1>2, <2>1 DEF SameFrame
    <2>4. ASSUME expected_packet_count' # 0, fr'.expected_packet_count # 0,
                 NEW pid \in DOMAIN packets'
          PROVE  \/ pid \in fr'.packet_received
                 \/ pid * PayloadStride + Len(packets'[pid]) > MaxFrameSize
        <3>1. /\ fr.expected_packet_count # 0 /\ expected_packet_count # 0
              /\ fr.packet_received \subseteq fr'.packet_received
            BY <1>2, <2>1, <2>2, <2>4
        <3>2. CASE pid \in DOMAIN packets /\ packets'[pid] = packets[pid]
            BY <3>1, <3>2 DEF BesideInv, StoredToo
        <3>3. CASE pid = pkt.packet_id /\ packets'[pid] = pkt.payload
            BY <1>3, <2>4, <3>3
        <3> QED
            BY <2>1, <3>2, <3>3
    <2>5. StoredToo'
        BY <2>4 DEF StoredToo
    <2> QED
        BY <1>2, <2>3, <2>5 DEF BesideInv
<1> QED
    BY <1>1, <1>4, <1>5, <1>6 DEF V1!PushPacket

LEMMA BesideInvariant ==
    ASSUME SameStride, DistinctIds
    PROVE  Spec => []BesideInv
<1>1. Init => BesideInv
    BY DEF Init, V1!Init, NewReassembler, BesideInv, SameFrame, StoredToo
<1>2. ObjectInv /\ ObjectInv' /\ BesideInv /\ [Next]_vars => BesideInv'
    <2> SUFFICES ASSUME ObjectInv, ObjectInv', BesideInv, [Next]_vars
                 PROVE  BesideInv'
        OBVIOUS
    <2>1. ASSUME NEW pkt \in RxPackets, Push(pkt)
          PROVE  BesideInv'
        BY <2>1, PushKeepsBeside
    <2>2. CASE fr' = ResetFrame(fr) /\ UNCHANGED v1Vars
        <3>1. /\ fr'.expected_packet_count = 0
              /\ fr'.current_frame_id = fr.current_frame_id
              /\ fr'.corrupted_detected = FALSE
            BY <2>2 DEF ObjectInv, ResetFrame, Reassembler
        <3> QED
            BY <2>2, <3>1 DEF v1Vars, BesideInv, SameFrame, StoredToo
    <2>3. CASE V1!Cleared /\ UNCHANGED fr
        BY <2>3 DEF V1!Cleared, V1!Becomes, BesideInv, SameFrame, StoredToo
    <2>4. CASE UNCHANGED <<current_frame_id, expected_packet_count, packets, fr>>
        BY <2>4 DEF BesideInv, SameFrame, StoredToo
    <2> QED
        BY <2>1, <2>2, <2>3, <2>4
        DEF Next, Take, Abandon, V1Step, V1!PopFrame, V1!Reset, V1!Tick, vars, v1Vars
<1> QED
    BY <1>1, <1>2, ObjectInvariant, PTL DEF Spec

(* Where the first has a frame complete that fits into the buffer, the second   *)
(* has every packet of it.                                                   *)
LEMMA BothHaveAll ==
    ASSUME ObjectInv, V1Inv, BesideInv, DistinctIds, SameStride, CountsFit,
           V1!FrameComplete, fr.expected_packet_count # 0,
           NEW f \in SentFrames, KeepsPayloads(f), Len(f.data) <= MaxFrameSize
    PROVE  /\ fr.received_packets_count = fr.expected_packet_count
           /\ FrameData(fr) = f.data
<1> DEFINE n == expected_packet_count
<1>1. n \in Nat \ {0} /\ DOMAIN packets = 0 .. (n - 1)
    BY CompleteIsAll
<1>2. PICK g \in SentFrames : \E before : Carries(fr, g, before)
    BY DEF ObjectInv
<1>3. PICK before : Carries(fr, g, before)
    BY <1>2
<1>4. g = f
    BY <1>1, <1>2, <1>3 DEF Carries, KeepsPayloads, BesideInv, SameFrame, DistinctIds
<1>5. fr.expected_packet_count = n /\ n = PacketCount(f.data)
    BY <1>3, <1>4 DEF Carries, KeepsPayloads
<1>6. ASSUME NEW pid \in 0 .. (n - 1)
      PROVE  pid \in fr.packet_received
    <2>1. /\ f.frame_id \in Nat /\ f.data \in Seq(Byte) /\ Len(f.data) \in Nat
          /\ pid \in Nat /\ pid < PacketCount(f.data)
        BY <1>1, <1>5, PacketAssumption, LenProperties
    <2>2. packets[pid] = PacketAt(f.frame_id, f.data, pid).payload
        BY <1>1 DEF KeepsPayloads
    <2>3. pid * MaxUdpPayload \in Nat
          /\ pid * MaxUdpPayload + Len(packets[pid]) = EndIn(f.data, pid)
        BY <2>1, <2>2, PacketContents
    <2>4. EndIn(f.data, pid) <= Len(f.data) /\ EndIn(f.data, pid) \in Nat
        BY <2>1, <2>3, PacketAssumption DEF EndIn
    <2>5. pid * PayloadStride + Len(packets[pid]) = EndIn(f.data, pid)
        BY <2>3 DEF SameStride
    <2>6. Len(f.data) <= MaxFrameSize /\ MaxFrameSize \in Nat
        BY ReassemblerAssumption
    <2>7. EndIn(f.data, pid) <= MaxFrameSize
        <3> HIDE DEF EndIn
        <3> QED
            BY <2>1, <2>4, <2>6
    <2>8. ~(pid * PayloadStride + Len(packets[pid]) > MaxFrameSize)
        BY <2>4, <2>5, <2>6, <2>7
    <2> QED
        BY <1>1, <2>8 DEF BesideInv, StoredToo
<1>7. fr.packet_received = 0 .. (n - 1)
    BY <1>5, <1>6 DEF ObjectInv, CountIsBits
<1>8. fr.received_packets_count = n
    BY <1>1, <1>7, IndicesFinite DEF ObjectInv, CountIsBits
<1>9. FrameData(fr) = f.data
    BY <1>3, <1>4, <1>5, <1>8, FullFrameIsIntact DEF ObjectInv, CountsFit
<1> QED
    BY <1>5, <1>8, <1>9

(* The two reassemblers are interchangeable: a frame the first has complete the  *)
(* second has complete too, with the same bytes, unless the caller is through    *)
(* with it or it outgrows the buffer.                                         *)
THEOREM BothAgree ==
    ASSUME SameStride, DistinctIds, CountsFit
    PROVE  Spec => []BothSeeTheFrame
<1>1. ObjectInv /\ V1Inv /\ PayloadInv /\ BesideInv => BothSeeTheFrame
    <2> SUFFICES ASSUME ObjectInv, V1Inv, PayloadInv, BesideInv,
                        V1!FrameComplete, fr.expected_packet_count > 0,
                        Len(V1!Joined) <= MaxFrameSize
                 PROVE  IsFrameComplete(fr) /\ FrameData(fr) = V1!Joined
        BY DEF BothSeeTheFrame
    <2>1. expected_packet_count # 0
        BY CompleteIsAll
    <2>2. PICK f \in SentFrames : KeepsPayloads(f)
        BY <2>1 DEF PayloadInv
    <2>3. V1!Joined = f.data
        BY <2>2, JoinedIsSent
    <2>4. fr.expected_packet_count # 0
        OBVIOUS
    <2>5. /\ fr.received_packets_count = fr.expected_packet_count
          /\ FrameData(fr) = f.data
        BY <2>2, <2>3, <2>4, BothHaveAll
    <2> QED
        BY <2>3, <2>5 DEF IsFrameComplete, BesideInv
<1> QED
    BY <1>1, ObjectInvariant, V1Invariant, PayloadInvariant, BesideInvariant, PTL
=============================================================================
