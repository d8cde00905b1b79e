-------------------- MODULE FrameReassemblerManagerProofs --------------------
(***************************************************************************)
(* Theorems about FrameReassemblerManager, for any frames sent, any payload   *)
(* size, any size of the frame buffer, any width of the packet count and any  *)
(* timeouts.                                                                *)
(***************************************************************************)
EXTENDS FrameReassemblerManager, FrameReassemblerV2Proofs

(* The ids in use are finitely many, and so is every set of live frames.       *)
LEMMA FrameIdsFinite == IsFiniteSet(FrameIds)
<1> DEFINE IdOf == [f \in SentFrames |-> f.frame_id]
<1>1. FrameIds = {IdOf[f] : f \in SentFrames}
    BY DEF FrameIds
<1>2. IdOf \in [SentFrames -> FrameIds]
    BY DEF FrameIds
<1>3. \A id \in FrameIds : \E f \in SentFrames : IdOf[f] = id
    BY DEF FrameIds
<1> HIDE DEF IdOf
<1>4. IdOf \in Surjection(SentFrames, FrameIds)
    BY <1>2, <1>3 DEF Surjection
<1> QED
    BY <1>4, FS_Surjection, PacketAssumption

LEMMA LiveFinite ==
    ASSUME TypeOK, NEW S \in SUBSET Live
    PROVE  IsFiniteSet(S) /\ Cardinality(S) \in Nat
<1>1. S \in SUBSET FrameIds
    BY DEF TypeOK
<1> QED
    BY <1>1, FrameIdsFinite, FS_Subset, FS_CardinalityType

LEMMA RestrictFrames ==
    ASSUME TypeOK, NEW S, frames' = Without(S)
    PROVE  /\ Live' = Live \ S
           /\ frames' \in [Live' -> Entry]
           /\ \A id \in Live' : frames'[id] = frames[id]
<1>1. frames' = [id \in Live \ S |-> frames[id]]
    BY DEF Without, Restrict
<1>2. Live' = Live \ S
    BY <1>1 DEF Live
<1> QED
    BY <1>1, <1>2 DEF TypeOK

LEMMA ResultType ==
    ASSUME NEW entry \in Entry, NEW state \in {"COMPLETE", "PARTIAL"}
    PROVE  ResultOf(entry, state) \in FrameResult
<1> DEFINE fr == entry.reassembler
<1>1. fr \in Reassembler
    BY DEF Entry
<1>2. FrameData(fr) \in Seq(Byte)
    BY <1>1, FrameDataType
<1>3. /\ AllReceived(entry) \in BOOLEAN
      /\ (HasGap(fr) \/ HasCorruption(fr)) \in BOOLEAN
      /\ (drops > entry.queue_drop_at_start) \in BOOLEAN
    BY <1>1 DEF AllReceived, HasGap, HasCorruption, Reassembler
<1>4. /\ fr.current_frame_id \in Nat
      /\ fr.expected_packet_count \in U16 /\ fr.received_packets_count \in U16
    BY <1>1 DEF Reassembler
<1> HIDE DEF fr
<1> QED
    BY <1>2, <1>3, <1>4 DEF ResultOf, FrameResult, fr

-----------------------------------------------------------------------------
(* What each kind of step does to the types.                                  *)
LEMMA StartedEntryType ==
    ASSUME TypeOK, NEW pkt \in RxPackets
    PROVE  StartedEntry(pkt) \in Entry
<1>1. /\ pkt.frame_id \in Nat /\ pkt.packet_count \in U16
    BY PacketType DEF RxPacket
<1>2. StartNewFrame(NewReassembler, pkt.frame_id, pkt.packet_count) \in Reassembler
    BY <1>1, NewReassemblerType, StartNewFrameType
<1>3. /\ 0 \in 0 .. (MaxLifetime + 1) /\ 0 \in 0 .. (IdleTimeout + 1)
    BY ManagerAssumption
<1> QED
    BY <1>2, <1>3 DEF StartedEntry, Entry, TypeOK

LEMMA PushPacketFrames ==
    ASSUME TypeOK, NEW pkt \in RxPackets, PushPacket(pkt)
    PROVE  /\ Live' = Live \cup {pkt.frame_id}
           /\ EntryFor(pkt) \in Entry
           /\ Touched(EntryFor(pkt), pkt) \in Entry
           /\ frames'[pkt.frame_id] = Touched(EntryFor(pkt), pkt)
           /\ \A id \in Live : id # pkt.frame_id => frames'[id] = frames[id]
           /\ frames' \in [Live' -> Entry]
<1>1. EntryFor(pkt) \in Entry
    BY StartedEntryType DEF EntryFor, TypeOK
<1>2. PushToFrame(EntryFor(pkt).reassembler, pkt) \in Reassembler
    BY <1>1, PacketType, PushToFrameType DEF Entry
<1>3. 0 \in 0 .. (IdleTimeout + 1)
    BY ManagerAssumption
<1>4. Touched(EntryFor(pkt), pkt) \in Entry
    BY <1>1, <1>2, <1>3 DEF Touched, Entry
<1>5. frames' = [id \in Live \cup {pkt.frame_id} |->
                    IF id = pkt.frame_id THEN Touched(EntryFor(pkt), pkt)
                                         ELSE frames[id]]
    BY DEF PushPacket
<1>6. Live' = Live \cup {pkt.frame_id}
    BY <1>5 DEF Live
<1> QED
    BY <1>1, <1>4, <1>5, <1>6 DEF TypeOK

LEMMA PushPacketType ==
    ASSUME TypeOK, NEW pkt \in RxPackets, PushPacket(pkt)
    PROVE  TypeOK'
<1>1. Live' \subseteq FrameIds /\ frames' \in [Live' -> Entry]
    BY PushPacketFrames, PacketType DEF TypeOK
<1>2. done' = <<>> /\ written' = <<>> /\ stats' = stats /\ drops' = drops
    BY DEF PushPacket
<1> QED
    BY <1>1, <1>2 DEF TypeOK

LEMMA EmitFramesType ==
    ASSUME TypeOK, NEW S \in SUBSET Live, NEW partials, EmitFrames(S, partials)
    PROVE  TypeOK'
<1>1. Live' \subseteq FrameIds /\ frames' \in [Live' -> Entry]
    BY RestrictFrames DEF EmitFrames, TypeOK
<1>2. PICK ids \in [1 .. Cardinality(S) -> S] :
          done' = [i \in DOMAIN ids |->
                     ResultOf(frames[ids[i]],
                              IF ids[i] \in partials THEN "PARTIAL" ELSE "COMPLETE")]
    BY DEF EmitFrames
<1>3. \A i \in 1 .. Cardinality(S) :
          ResultOf(frames[ids[i]], IF ids[i] \in partials THEN "PARTIAL" ELSE "COMPLETE")
              \in FrameResult
    BY <1>2, ResultType DEF TypeOK
<1>4. done' \in Seq(FrameResult)
    BY <1>2, <1>3, LiveFinite
<1>5. stats' \in [total : Nat, complete : Nat, partial : Nat]
    <2>1. /\ Cardinality(S) \in Nat
          /\ Cardinality(S \ partials) \in Nat
          /\ Cardinality(S \cap partials) \in Nat
        BY LiveFinite
    <2> QED
        BY <2>1 DEF EmitFrames, TypeOK
<1>6. written' = <<>> /\ drops' = drops
    BY DEF EmitFrames
<1> QED
    BY <1>1, <1>4, <1>5, <1>6 DEF TypeOK

LEMMA WriteFramesType ==
    ASSUME TypeOK, NEW S \in SUBSET Live, NEW partials, NEW removed,
           WriteFrames(S, partials, removed)
    PROVE  TypeOK'
<1>1. Live' \subseteq FrameIds /\ frames' \in [Live' -> Entry]
    BY RestrictFrames DEF WriteFrames, TypeOK
<1>2. PICK ids \in [1 .. Cardinality(S) -> S] :
          written' = [i \in DOMAIN ids |->
                        [frame_id   |-> ids[i],
                         data       |-> FrameData(frames[ids[i]].reassembler),
                         is_partial |-> ids[i] \in partials]]
    BY DEF WriteFrames
<1>3. \A i \in 1 .. Cardinality(S) :
          [frame_id   |-> ids[i],
           data       |-> FrameData(frames[ids[i]].reassembler),
           is_partial |-> ids[i] \in partials] \in Write
    <2> TAKE i \in 1 .. Cardinality(S)
    <2>1. ids[i] \in Live /\ ids[i] \in Nat
        <3>1. ids[i] \in S
            BY <1>2
        <3>2. FrameIds \subseteq Nat
            BY PacketAssumption DEF FrameIds
        <3> QED
            BY <3>1, <3>2 DEF TypeOK
    <2>2. FrameData(frames[ids[i]].reassembler) \in Seq(Byte)
        BY <2>1, FrameDataType DEF TypeOK, Entry
    <2>3. (ids[i] \in partials) \in BOOLEAN
        OBVIOUS
    <2> QED
        BY <2>1, <2>2, <2>3 DEF Write
<1>4. written' \in Seq(Write)
    BY <1>2, <1>3, LiveFinite
<1>5. done' = <<>> /\ stats' = stats /\ drops' = drops
    BY DEF WriteFrames
<1> QED
    BY <1>1, <1>4, <1>5 DEF TypeOK

LEMMA TickFrames ==
    ASSUME TypeOK, Tick
    PROVE  /\ Live' = Live
           /\ frames' \in [Live' -> Entry]
           /\ \A id \in Live : frames'[id].reassembler = frames[id].reassembler
<1>1. \A entry \in Entry : Older(entry) \in Entry
                           /\ Older(entry).reassembler = entry.reassembler
    <2> TAKE entry \in Entry
    <2>1. /\ (IF entry.age > MaxLifetime THEN entry.age ELSE entry.age + 1)
                \in 0 .. (MaxLifetime + 1)
          /\ (IF entry.idle > IdleTimeout THEN entry.idle ELSE entry.idle + 1)
                \in 0 .. (IdleTimeout + 1)
        BY ManagerAssumption DEF Entry
    <2> QED
        BY <2>1 DEF Older, Entry
<1>2. frames' = [id \in Live |-> Older(frames[id])]
    BY DEF Tick
<1>3. Live' = Live
    BY <1>2 DEF Live
<1> QED
    BY <1>1, <1>2, <1>3 DEF TypeOK

-----------------------------------------------------------------------------
(* Every live frame, every FrameResult and every write keeps its type whatever *)
(* is called when; in particular no frame outgrows its buffer.               *)
THEOREM TypeCorrect == Spec => []TypeOK
<1>1. Init => TypeOK
    <2> SUFFICES ASSUME Init
                 PROVE  TypeOK
        OBVIOUS
    <2>1. Live = {} /\ frames \in [Live -> Entry]
        BY DEF Init, NoFrames, Live
    <2>2. done \in Seq(FrameResult) /\ written \in Seq(Write)
        BY EmptySeq DEF Init
    <2>3. stats \in [total : Nat, complete : Nat, partial : Nat] /\ drops \in Nat
        BY DEF Init
    <2> QED
        BY <2>1, <2>2, <2>3 DEF TypeOK
<1>2. TypeOK /\ [Next]_vars => TypeOK'
    <2> SUFFICES ASSUME TypeOK, [Next]_vars
                 PROVE  TypeOK'
        OBVIOUS
    <2>1. ASSUME NEW pkt \in RxPackets, PushPacket(pkt)
          PROVE  TypeOK'
        BY <2>1, PushPacketType
    <2>2. CASE PollTimers
        <3>1. Due \in SUBSET Live
            BY DEF Due
        <3> QED
            BY <2>2, <3>1, EmitFramesType DEF PollTimers
    <2>3. CASE ForceEmitAll
        BY <2>3, EmitFramesType DEF ForceEmitAll
    <2>4. CASE FlushAll
        <3>1. Nonempty \in SUBSET Live
            BY DEF Nonempty
        <3> QED
            BY <2>4, <3>1, WriteFramesType DEF FlushAll
    <2>5. CASE PollFlush
        BY <2>5, WriteFramesType DEF PollFlush
    <2>6. CASE Tick
        BY <2>6, TickFrames DEF Tick, TypeOK
    <2>7. CASE QueueDrops
        BY <2>7 DEF QueueDrops, TypeOK, Live
    <2>8. CASE UNCHANGED vars
        BY <2>8 DEF vars, TypeOK, Live
    <2> QED
        BY <2>1, <2>2, <2>3, <2>4, <2>5, <2>6, <2>7, <2>8 DEF Next
<1> QED
    BY <1>1, <1>2, PTL DEF Spec

-----------------------------------------------------------------------------
(* A step either leaves the reassembler of a frame that stays as it was, or is *)
(* a pushPacket.                                                            *)
LEMMA OnlyPushChangesReassemblers ==
    ASSUME TypeOK, [Next]_vars, \A pkt \in RxPackets : ~PushPacket(pkt)
    PROVE  /\ Live' \subseteq Live
           /\ \A id \in Live' : frames'[id].reassembler = frames[id].reassembler
<1>1. ASSUME NEW S, NEW partials, EmitFrames(S, partials)
      PROVE  Live' \subseteq Live /\ \A id \in Live' : frames'[id] = frames[id]
    <2>1. frames' = Without(S)
        BY <1>1 DEF EmitFrames
    <2> QED
        BY <2>1, RestrictFrames
<1>2. ASSUME NEW S, NEW partials, NEW removed, WriteFrames(S, partials, removed)
      PROVE  Live' \subseteq Live /\ \A id \in Live' : frames'[id] = frames[id]
    <2>1. frames' = Without(removed)
        BY <1>2 DEF WriteFrames
    <2> QED
        BY <2>1, RestrictFrames
<1>3. CASE PollTimers \/ ForceEmitAll
    BY <1>1, <1>3 DEF PollTimers, ForceEmitAll
<1>4. CASE FlushAll \/ PollFlush
    BY <1>2, <1>4 DEF FlushAll, PollFlush
<1>5. CASE Tick
    BY <1>5, TickFrames
<1>6. CASE QueueDrops \/ UNCHANGED vars
    BY <1>6 DEF QueueDrops, vars, Live
<1> QED
    BY <1>3, <1>4, <1>5, <1>6 DEF Next

(* pushPacket works on the frame's own reassembler, or on a new one.           *)
LEMMA PushedReassembler ==
    ASSUME TypeOK, NEW pkt \in RxPackets, PushPacket(pkt)
    PROVE  LET old == IF pkt.frame_id \in Live THEN frames[pkt.frame_id].reassembler
                      ELSE StartNewFrame(NewReassembler, pkt.frame_id, pkt.packet_count)
           IN  /\ old \in Reassembler
               /\ frames'[pkt.frame_id].reassembler = PushToFrame(old, pkt)
<1>1. EntryFor(pkt) \in Entry /\ frames'[pkt.frame_id] = Touched(EntryFor(pkt), pkt)
    BY PushPacketFrames
<1>2. Touched(EntryFor(pkt), pkt).reassembler = PushToFrame(EntryFor(pkt).reassembler, pkt)
    BY <1>1 DEF Touched, Entry
<1> QED
    BY <1>1, <1>2 DEF EntryFor, StartedEntry, Entry

-----------------------------------------------------------------------------
(* The counter on which every verdict rests is the number of bits of the       *)
(* bitmap, whatever duplicates arrive, for any width of the counter: it never  *)
(* wraps round.  The invariant is inductive by itself, given the types.      *)
THEOREM CounterIsBitmap == Spec => []CountMatchesBitmap
<1>1. CountMatchesBitmap <=> \A id \in Live : CountIsBits(frames[id].reassembler)
    BY DEF CountMatchesBitmap, CountIsBits
<1>2. Init => CountMatchesBitmap
    BY DEF Init, NoFrames, Live, CountMatchesBitmap
<1>3. CountMatchesBitmap /\ TypeOK /\ [Next]_vars => CountMatchesBitmap'
    <2> SUFFICES ASSUME CountMatchesBitmap, TypeOK, [Next]_vars, NEW id \in Live'
                 PROVE  CountIsBits(frames'[id].reassembler)
        BY DEF CountMatchesBitmap, CountIsBits
    <2>1. ASSUME NEW pkt \in RxPackets, PushPacket(pkt)
          PROVE  CountIsBits(frames'[id].reassembler)
        <3>1. pkt \in RxPacket /\ pkt.frame_id \in Nat /\ pkt.packet_count \in U16
            BY PacketType DEF RxPacket
        <3>2. CASE id # pkt.frame_id
            BY <1>1, <2>1, <3>2, PushPacketFrames
        <3>3. CASE id = pkt.frame_id /\ id \in Live
            BY <1>1, <2>1, <3>1, <3>3, PushedReassembler, PushCountIsBits
        <3>4. CASE id = pkt.frame_id /\ id \notin Live
            <4> DEFINE new == StartNewFrame(NewReassembler, id, pkt.packet_count)
            <4>1. new \in Reassembler /\ CountIsBits(new)
                BY <3>1, <3>4, NewReassemblerType, StartNewFrameType, StartCountIsBits
            <4>2. frames'[id].reassembler = PushToFrame(new, pkt)
                BY <2>1, <3>4, PushedReassembler
            <4> QED
                BY <3>1, <4>1, <4>2, PushCountIsBits
        <3> QED
            BY <3>2, <3>3, <3>4
    <2>2. CASE \A pkt \in RxPackets : ~PushPacket(pkt)
        BY <1>1, <2>2, OnlyPushChangesReassemblers
    <2> QED
        BY <2>1, <2>2
<1> QED
    BY <1>2, <1>3, TypeCorrect, PTL DEF Spec

-----------------------------------------------------------------------------
(* What the deployment must provide for a complete frame to be the frame sent, *)
(* besides CountsFit: one payload size on both sides, and distinct frame ids.  *)
SameStride == PayloadStride = MaxUdpPayload

DistinctIds == \A f, g \in SentFrames : f.frame_id = g.frame_id => f = g

FramesCarry ==
    \A id \in Live : \E f \in SentFrames :
        f.frame_id = id /\ Carries(frames[id].reassembler, f, Zeros)

LEMMA PushKeepsCarry ==
    ASSUME SameStride, DistinctIds, TypeOK, FramesCarry,
           NEW pkt \in RxPackets, PushPacket(pkt)
    PROVE  FramesCarry'
<1> SUFFICES ASSUME NEW id \in Live'
             PROVE  \E f \in SentFrames :
                        f.frame_id = id /\ Carries(frames'[id].reassembler, f, Zeros)
    BY DEF FramesCarry
<1>1. CASE id # pkt.frame_id
    <2>1. id \in Live /\ frames'[id] = frames[id]
        BY <1>1, PushPacketFrames
    <2> QED
        BY <2>1 DEF FramesCarry
<1>2. CASE id = pkt.frame_id
    <2> DEFINE old == IF id \in Live THEN frames[id].reassembler
                      ELSE StartNewFrame(NewReassembler, id, pkt.packet_count)
    <2>1. PICK f \in SentFrames, pid \in Nat :
              /\ pid < PacketCount(f.data)
              /\ pkt = PacketAt(f.frame_id, f.data, pid)
              /\ f.frame_id \in Nat /\ f.data \in Seq(Byte)
        BY PacketOrigin
    <2>2. pkt.frame_id = f.frame_id /\ pkt.packet_count = PacketCount(f.data)
        BY <2>1 DEF PacketAt
    <2>3. old \in Reassembler /\ frames'[id].reassembler = PushToFrame(old, pkt)
        BY <1>2, PushedReassembler
    <2>4. Carries(old, f, Zeros)
        <3>1. CASE id \in Live
            BY <1>2, <2>2, <3>1 DEF FramesCarry, DistinctIds
        <3>2. CASE id \notin Live
            BY <1>2, <2>2, <3>2, NewCarries
        <3> QED
            BY <3>1, <3>2
    <2> HIDE DEF old
    <2>5. Carries(PushToFrame(old, pkt), f, Zeros)
        BY <2>1, <2>3, <2>4, StoredCarries DEF PushToFrame, SameStride
    <2> QED
        BY <1>2, <2>2, <2>3, <2>5
<1> QED
    BY <1>1, <1>2

LEMMA OthersKeepCarry ==
    ASSUME FramesCarry, Live' \subseteq Live,
           \A id \in Live' : frames'[id].reassembler = frames[id].reassembler
    PROVE  FramesCarry'
BY DEF FramesCarry

LEMMA FramesCarryInvariant ==
    ASSUME SameStride, DistinctIds
    PROVE  Spec => []FramesCarry
<1>1. Init => FramesCarry
    BY DEF Init, NoFrames, Live, FramesCarry
<1>2. FramesCarry /\ TypeOK /\ [Next]_vars => FramesCarry'
    <2> SUFFICES ASSUME FramesCarry, TypeOK, [Next]_vars
                 PROVE  FramesCarry'
        OBVIOUS
    <2>1. CASE \E pkt \in RxPackets : PushPacket(pkt)
        BY <2>1, PushKeepsCarry
    <2>2. CASE \A pkt \in RxPackets : ~PushPacket(pkt)
        BY <2>2, OnlyPushChangesReassemblers, OthersKeepCarry
    <2> QED
        BY <2>1, <2>2
<1> QED
    BY <1>1, <1>2, TypeCorrect, PTL DEF Spec

(* A frame with holes holds at each offset the byte that was sent there, or    *)
(* zero, and never a byte of another frame.                                 *)
THEOREM HolesAreZero ==
    ASSUME SameStride, DistinctIds
    PROVE  Spec => []BytesInPlace
<1>1. FramesCarry => BytesInPlace
    BY DEF FramesCarry, BytesInPlace, Carries, Zeros
<1> QED
    BY <1>1, FramesCarryInvariant, PTL

(* What is handed over as complete is what its reassembler carried.           *)
LEMMA EmittedIsIntact ==
    ASSUME CountsFit, TypeOK, FramesCarry,
           NEW S \in SUBSET Live, NEW partials, EmitFrames(S, partials)
    PROVE  CompleteFramesIntact'
<1>1. PICK ids \in [1 .. Cardinality(S) -> S] :
          done' = [i \in DOMAIN ids |->
                     ResultOf(frames[ids[i]],
                              IF ids[i] \in partials THEN "PARTIAL" ELSE "COMPLETE")]
    BY DEF EmitFrames
<1> SUFFICES ASSUME NEW i \in DOMAIN done', done'[i].complete
             PROVE  [frame_id |-> done'[i].frame_id, data |-> done'[i].frame_data]
                        \in SentFrames
    BY DEF CompleteFramesIntact
<1> DEFINE entry == frames[ids[i]]
           fr    == entry.reassembler
<1>2. ids[i] \in Live
    BY <1>1
<1>3. PICK f \in SentFrames : f.frame_id = ids[i] /\ Carries(fr, f, Zeros)
    BY <1>2 DEF FramesCarry
<1>4. /\ done'[i].complete = AllReceived(entry)
      /\ done'[i].frame_id = fr.current_frame_id
      /\ done'[i].frame_data = FrameData(fr)
    BY <1>1 DEF ResultOf
<1>5. FrameData(fr) = f.data
    <2>1. fr \in Reassembler
        BY <1>2 DEF TypeOK, Entry
    <2>2. fr.received_packets_count = fr.expected_packet_count
        BY <1>4 DEF AllReceived
    <2> QED
        BY <1>3, <2>1, <2>2, FullFrameIsIntact DEF CountsFit
<1>6. f = [frame_id |-> f.frame_id, data |-> f.data]
    BY PacketAssumption
<1> QED
    BY <1>3, <1>4, <1>5, <1>6 DEF Carries

(* A frame handed over as complete is the frame sent, byte for byte, whatever   *)
(* the order, the duplicates and the losses of the packets and whenever the   *)
(* timers fire.                                                             *)
THEOREM CompleteIsIntact ==
    ASSUME SameStride, DistinctIds, CountsFit
    PROVE  Spec => []CompleteFramesIntact
<1>1. Init => CompleteFramesIntact
    BY DEF Init, CompleteFramesIntact
<1>2. CompleteFramesIntact /\ FramesCarry /\ TypeOK /\ [Next]_vars
          => CompleteFramesIntact'
    <2> SUFFICES ASSUME CompleteFramesIntact, FramesCarry, TypeOK, [Next]_vars
                 PROVE  CompleteFramesIntact'
        OBVIOUS
    <2>1. ASSUME NEW S \in SUBSET Live, NEW partials, EmitFrames(S, partials)
          PROVE  CompleteFramesIntact'
        BY <2>1, EmittedIsIntact
    <2>2. CASE PollTimers
        <3>1. Due \in SUBSET Live
            BY DEF Due
        <3> QED
            BY <2>1, <2>2, <3>1 DEF PollTimers
    <2>3. CASE ForceEmitAll
        BY <2>1, <2>3 DEF ForceEmitAll
    <2>4. CASE done' = <<>>
        BY <2>4 DEF CompleteFramesIntact
    <2>5. CASE UNCHANGED vars
        BY <2>5 DEF vars, CompleteFramesIntact
    <2> QED
        BY <2>2, <2>3, <2>4, <2>5
        DEF Next, PushPacket, FlushAll, PollFlush, WriteFrames, Tick, QueueDrops
<1> QED
    BY <1>1, <1>2, TypeCorrect, FramesCarryInvariant, PTL DEF Spec

-----------------------------------------------------------------------------
(* A frame's reassembler has the id under which the map keeps it.              *)
KeyIsFrameId == \A id \in Live : frames[id].reassembler.current_frame_id = id

LEMMA PushKeepsFrameId ==
    ASSUME NEW fr \in Reassembler, NEW pkt \in RxPacket
    PROVE  PushToFrame(fr, pkt).current_frame_id = fr.current_frame_id
BY DEF PushToFrame, Stored, Reassembler

LEMMA PushKeepsKeys ==
    ASSUME KeyIsFrameId, TypeOK, NEW pkt \in RxPackets, PushPacket(pkt)
    PROVE  KeyIsFrameId'
<1> SUFFICES ASSUME NEW id \in Live'
             PROVE  frames'[id].reassembler.current_frame_id = id
    BY DEF KeyIsFrameId
<1>1. CASE id # pkt.frame_id
    BY <1>1, PushPacketFrames DEF KeyIsFrameId
<1>2. CASE id = pkt.frame_id
    <2> DEFINE old == IF id \in Live THEN frames[id].reassembler
                      ELSE StartNewFrame(NewReassembler, id, pkt.packet_count)
    <2>1. old \in Reassembler /\ frames'[id].reassembler = PushToFrame(old, pkt)
        BY <1>2, PushedReassembler
    <2>2. old.current_frame_id = id
        BY DEF KeyIsFrameId, StartNewFrame, NewReassembler
    <2> HIDE DEF old
    <2> QED
        BY <2>1, <2>2, PushKeepsFrameId, PacketType
<1> QED
    BY <1>1, <1>2

LEMMA KeyIsFrameIdInvariant == Spec => []KeyIsFrameId
<1>1. Init => KeyIsFrameId
    BY DEF Init, NoFrames, Live, KeyIsFrameId
<1>2. KeyIsFrameId /\ TypeOK /\ [Next]_vars => KeyIsFrameId'
    <2> SUFFICES ASSUME KeyIsFrameId, TypeOK, [Next]_vars
                 PROVE  KeyIsFrameId'
        OBVIOUS
    <2>1. ASSUME NEW pkt \in RxPackets, PushPacket(pkt)
          PROVE  KeyIsFrameId'
        BY <2>1, PushKeepsKeys
    <2>2. CASE \A pkt \in RxPackets : ~PushPacket(pkt)
        BY <2>2, OnlyPushChangesReassemblers DEF KeyIsFrameId
    <2> QED
        BY <2>1, <2>2
<1> QED
    BY <1>1, <1>2, TypeCorrect, PTL DEF Spec

(* A walk over S in map order visits each id of S exactly once.                *)
LEMMA MapOrderVisitsEach ==
    ASSUME TypeOK, NEW S \in SUBSET Live, NEW ids, InMapOrder(ids, S)
    PROVE  IsInjective(ids) /\ Range(ids) = S /\ DOMAIN ids = 1 .. Cardinality(S)
<1>1. /\ ids \in [1 .. Cardinality(S) -> S]
      /\ \A i, j \in DOMAIN ids : i < j => ids[i] < ids[j]
    BY DEF InMapOrder
<1>2. IsFiniteSet(S) /\ Cardinality(S) \in Nat
    BY LiveFinite
<1>3. S \subseteq Nat
    <2>1. FrameIds \subseteq Nat
        BY PacketAssumption DEF FrameIds
    <2> QED
        BY <2>1 DEF TypeOK
<1>4. IsInjective(ids)
    <2> SUFFICES ASSUME NEW i \in DOMAIN ids, NEW j \in DOMAIN ids, ids[i] = ids[j]
                 PROVE  i = j
        BY DEF IsInjective
    <2>1. i \in 1 .. Cardinality(S) /\ j \in 1 .. Cardinality(S)
        BY <1>1
    <2>2. ids[i] \in S /\ ids[j] \in S
        BY <1>1, <2>1
    <2>3. ids[i] \in Nat /\ ids[j] \in Nat /\ i \in Nat /\ j \in Nat
        <3>1. \A n \in Nat : 1 .. n \subseteq Nat
            OBVIOUS
        <3>2. i \in Nat /\ j \in Nat
            BY <1>2, <2>1, <3>1, Zenon
        <3> QED
            BY <1>3, <2>2, <3>2, Zenon
    <2> QED
        BY <1>1, <2>3
<1>5. ids \in Injection(1 .. Cardinality(S), S)
    BY <1>1, <1>4 DEF Injection
<1>6. Cardinality(1 .. Cardinality(S)) = Cardinality(S)
    <2>1. \A n \in Nat : n - 1 + 1 = n /\ (1 > n => n = 0) /\ n \in Int
        OBVIOUS
    <2>2. Cardinality(1 .. Cardinality(S))
              = IF 1 > Cardinality(S) THEN 0 ELSE Cardinality(S) - 1 + 1
        BY <1>2, FS_Interval
    <2> QED
        BY <1>2, <2>1, <2>2
<1>7. ids \in Surjection(1 .. Cardinality(S), S)
    BY <1>2, <1>5, <1>6, FS_Injection
<1>8. Range(ids) = S
    BY <1>1, <1>7 DEF Range, Surjection
<1> QED
    BY <1>1, <1>4, <1>8

(* Erasing and handing over go together: every call that erases a frame hands  *)
(* it over exactly once, unless it never had a packet, and no frame handed    *)
(* over stays.                                                              *)
THEOREM ErasedIsHandedOver == Spec => ErasedMeansHandedOver
<1>1. TypeOK /\ KeyIsFrameId /\ [Next]_vars => [HandsOverWhatItErases]_vars
    <2> SUFFICES ASSUME TypeOK, KeyIsFrameId, Next
                 PROVE  HandsOverWhatItErases
        OBVIOUS
    <2>1. ASSUME done' = <<>>, written' = <<>>, Live \subseteq Live'
          PROVE  HandsOverWhatItErases
        <3>1. Reported' = <<>>
            BY <2>1 DEF Reported
        <3> QED
            BY <2>1, <3>1 DEF HandsOverWhatItErases, IsInjective, Range
    <2>2. ASSUME NEW S \in SUBSET Live, NEW removed \in SUBSET Live, S \subseteq removed,
                 \A id \in removed : HasAnyPacket(frames[id].reassembler) => id \in S,
                 frames' = Without(removed),
                 NEW ids, InMapOrder(ids, S), Reported' = ids
          PROVE  HandsOverWhatItErases
        <3>1. Live \ Live' = removed
            BY <2>2, RestrictFrames
        <3>2. IsInjective(ids) /\ Range(ids) = S
            BY <2>2, MapOrderVisitsEach
        <3> QED
            BY <2>2, <3>1, <3>2 DEF HandsOverWhatItErases
    <2>3. ASSUME NEW S \in SUBSET Live, NEW partials, EmitFrames(S, partials)
          PROVE  HandsOverWhatItErases
        <3>1. PICK ids \in [1 .. Cardinality(S) -> S] :
                  /\ InMapOrder(ids, S)
                  /\ done' = [i \in DOMAIN ids |->
                                ResultOf(frames[ids[i]],
                                   IF ids[i] \in partials THEN "PARTIAL" ELSE "COMPLETE")]
            BY <2>3 DEF EmitFrames
        <3>2. \A i \in DOMAIN ids : done'[i].frame_id = ids[i]
            BY <3>1 DEF ResultOf, KeyIsFrameId
        <3>3. ids \in Seq(S)
            BY <3>1, LiveFinite
        <3>4. [i \in DOMAIN done' |-> done'[i].frame_id] = ids
            BY <3>1, <3>2
        <3>5. [i \in DOMAIN written' |-> written'[i].frame_id] = <<>>
            BY <2>3 DEF EmitFrames
        <3>6. Reported' = ids
            BY <3>3, <3>4, <3>5, ConcatEmptySeq DEF Reported
        <3> QED
            BY <2>2, <2>3, <3>1, <3>6 DEF EmitFrames
    <2>4. ASSUME NEW S \in SUBSET Live, NEW partials, NEW removed \in SUBSET Live,
                 S \subseteq removed,
                 \A id \in removed : HasAnyPacket(frames[id].reassembler) => id \in S,
                 WriteFrames(S, partials, removed)
          PROVE  HandsOverWhatItErases
        <3>1. PICK ids \in [1 .. Cardinality(S) -> S] :
                  /\ InMapOrder(ids, S)
                  /\ written' = [i \in DOMAIN ids |->
                        [frame_id   |-> ids[i],
                         data       |-> FrameData(frames[ids[i]].reassembler),
                         is_partial |-> ids[i] \in partials]]
            BY <2>4 DEF WriteFrames
        <3>2. ids \in Seq(S)
            BY <3>1, LiveFinite
        <3>3. [i \in DOMAIN written' |-> written'[i].frame_id] = ids
            BY <3>1
        <3>4. [i \in DOMAIN done' |-> done'[i].frame_id] = <<>>
            BY <2>4 DEF WriteFrames
        <3>5. Reported' = ids
            BY <3>2, <3>3, <3>4, ConcatEmptySeq DEF Reported
        <3> QED
            BY <2>2, <2>4, <3>1, <3>5 DEF WriteFrames
    <2>5. ASSUME NEW pkt \in RxPackets, PushPacket(pkt)
          PROVE  HandsOverWhatItErases
        BY <2>1, <2>5, PushPacketFrames DEF PushPacket
    <2>6. CASE PollTimers
        <3>1. Due \in SUBSET Live
            BY DEF Due
        <3> QED
            BY <2>3, <2>6, <3>1 DEF PollTimers
    <2>7. CASE ForceEmitAll
        BY <2>3, <2>7 DEF ForceEmitAll
    <2>8. CASE FlushAll
        BY <2>4, <2>8 DEF FlushAll, Nonempty
    <2>9. CASE PollFlush
        BY <2>4, <2>9 DEF PollFlush
    <2>10. CASE Tick
        BY <2>1, <2>10, TickFrames DEF Tick
    <2>11. CASE QueueDrops
        BY <2>1, <2>11 DEF QueueDrops, Live
    <2> QED
        BY <2>5, <2>6, <2>7, <2>8, <2>9, <2>10, <2>11 DEF Next
<1> QED
    BY <1>1, TypeCorrect, KeyIsFrameIdInvariant, PTL DEF Spec, ErasedMeansHandedOver
-----------------------------------------------------------------------------
(* FrameReassemblerManager implements FrameAssembly.                           *)

(* The specification and the manager speak of the same packets.              *)
LEMMA SamePackets ==
    /\ Assembly!U16 = U16
    /\ \A data : Assembly!PacketCount(data) = PacketCount(data)
    /\ \A data, pid : Assembly!EndIn(data, pid) = EndIn(data, pid)
BY DEF Assembly!U16, U16, Assembly!PacketCount, PacketCount, Assembly!EndIn, EndIn

LEMMA ChosenById ==
    ASSUME DistinctIds, NEW f \in SentFrames
    PROVE  Assembly!FrameWithId(f.frame_id) = f
BY DEF Assembly!FrameWithId, DistinctIds

LEMMA PartsAreBits ==
    ASSUME NEW f \in SentFrames
    PROVE  Assembly!Parts(f) = 0 .. (PacketCount(f.data) - 1)
<1>1. PacketCount(f.data) \in U16
    BY PacketAssumption, CountBounds
<1> QED
    BY <1>1, PacketAssumption, SamePackets DEF Assembly!Parts, U16

(* Every part of the frame is held exactly when the counts are equal.         *)
LEMMA AllPartsMeansFullCount ==
    ASSUME NEW fr \in Reassembler, NEW f \in SentFrames, Carries(fr, f, Zeros)
    PROVE  fr.received_packets_count = fr.expected_packet_count
               <=> fr.packet_received = Assembly!Parts(f)
<1>1. CountIsBits(fr) /\ fr.expected_packet_count = PacketCount(f.data)
    BY DEF Carries
<1>2. Assembly!Parts(f) = 0 .. (fr.expected_packet_count - 1)
    BY <1>1, PartsAreBits
<1>3. ASSUME fr.packet_received = 0 .. (fr.expected_packet_count - 1)
      PROVE  fr.received_packets_count = fr.expected_packet_count
    BY <1>1, <1>3, BitsFinite DEF CountIsBits
<1> QED
    BY <1>1, <1>2, <1>3, FullCountMeansAllBits

(* What the object returns is the frame put together from the parts held.      *)
LEMMA SizeIsFrameSize ==
    ASSUME NEW fr \in Reassembler, NEW f \in SentFrames, Carries(fr, f, Zeros)
    PROVE  Assembly!SizeOf(f, fr.packet_received) = fr.frame_size
<1> DEFINE ends == {EndIn(f.data, pid) : pid \in fr.packet_received}
           IsSize(n) == \A pid \in fr.packet_received : EndIn(f.data, pid) <= n
<1>1. fr.frame_size \in Nat
    BY ReassemblerAssumption DEF Reassembler
<1>2. IsSize(fr.frame_size)
    BY DEF Carries
<1>3. fr.frame_size \in {0} \cup ends
    BY DEF Carries, EndsWithLast
<1>4. \A pid \in fr.packet_received : EndIn(f.data, pid) \in Nat
    <2> TAKE pid \in fr.packet_received
    <2>1. f.data \in Seq(Byte) /\ Len(f.data) \in Nat /\ pid \in Nat
        BY PacketAssumption, LenProperties DEF Reassembler, U16
    <2>2. pid * MaxUdpPayload + MaxUdpPayload \in Nat
        BY <2>1, PacketAssumption
    <2> QED
        BY <2>1, <2>2 DEF EndIn
<1>5. ASSUME NEW n \in {0} \cup ends, IsSize(n)
      PROVE  n = fr.frame_size
    <2>1. n \in Nat
        BY <1>4
    <2>2. n <= fr.frame_size
        BY <1>1, <1>2, <2>1
    <2>3. fr.frame_size <= n
        BY <1>1, <1>3, <1>5, <2>1
    <2> QED
        BY <1>1, <2>1, <2>2, <2>3
<1>6. Assembly!SizeOf(f, fr.packet_received) = CHOOSE n \in {0} \cup ends : IsSize(n)
    BY SamePackets DEF Assembly!SizeOf
<1> HIDE DEF ends, IsSize
<1> QED
    BY <1>2, <1>3, <1>5, <1>6

LEMMA AssembledIsFrameData ==
    ASSUME NEW fr \in Reassembler, NEW f \in SentFrames, Carries(fr, f, Zeros)
    PROVE  Assembly!Assembled(f, fr.packet_received) = FrameData(fr)
<1>1. fr.frame_size \in Nat /\ fr.frame_size <= MaxFrameSize
      /\ fr.frame_size <= Len(f.data) /\ Len(f.data) \in Nat
    BY PacketAssumption, LenProperties, ReassemblerAssumption DEF Reassembler, Carries
<1>2. ASSUME NEW i \in 1 .. fr.frame_size
      PROVE  fr.frame_buffer[i - 1] = IF (i - 1) \div MaxUdpPayload \in fr.packet_received
                                      THEN f.data[i] ELSE ZeroByte
    <2>1. i - 1 \in Offsets /\ i - 1 < Len(f.data) /\ i - 1 + 1 = i
        BY <1>1, ReassemblerAssumption DEF Offsets
    <2> QED
        BY <2>1 DEF Carries, Zeros
<1> QED
    BY <1>2, SizeIsFrameSize DEF Assembly!Assembled, FrameData

-----------------------------------------------------------------------------
(* The parts held, as the manager holds them.                                *)
Bits == [id \in Live |-> frames[id].reassembler.packet_received]

LEMMA EmptySequenceRange == Range(<<>>) = {}
BY DEF Range

LEMMA PushIsReceive ==
    ASSUME SameStride, DistinctIds, TypeOK, FramesCarry,
           NEW pkt \in RxPackets, PushPacket(pkt)
    PROVE  \E f \in SentFrames : \E pid \in Assembly!Parts(f) : Assembly!Receive(f, pid)
<1> DEFINE id  == pkt.frame_id
           old == IF id \in Live THEN frames[id].reassembler
                  ELSE StartNewFrame(NewReassembler, id, pkt.packet_count)
<1>1. PICK f \in SentFrames, pid \in Nat :
          /\ pid < PacketCount(f.data)
          /\ pkt = PacketAt(f.frame_id, f.data, pid)
          /\ f.frame_id \in Nat /\ f.data \in Seq(Byte)
    BY PacketOrigin
<1>2. /\ id = f.frame_id /\ pkt.packet_count = PacketCount(f.data)
      /\ pkt.packet_id = pid
    BY <1>1 DEF PacketAt
<1>3. pid \in Assembly!Parts(f)
    BY <1>1, PacketAssumption, CountBounds, SamePackets DEF Assembly!Parts, U16
<1>4. old \in Reassembler /\ frames'[id].reassembler = PushToFrame(old, pkt)
    BY PushedReassembler
<1>5. Carries(old, f, Zeros)
    <2>1. CASE id \in Live
        BY <1>2, <2>1 DEF FramesCarry, DistinctIds
    <2>2. CASE id \notin Live
        BY <1>2, <2>2, NewCarries
    <2> QED
        BY <2>1, <2>2
<1>6. old.packet_received = IF id \in Live THEN Bits[id] ELSE {}
    BY DEF Bits, StartNewFrame, NewReassembler
<1> HIDE DEF old
<1>7. EndOf(pkt) = EndIn(f.data, pid)
    BY <1>1, <1>2, PacketContents DEF EndOf, OffsetOf, SameStride
<1>8. PushToFrame(old, pkt).packet_received
          = old.packet_received \cup {n \in {pid} : EndIn(f.data, n) <= MaxFrameSize}
    <2>1. CASE Accepts(old, pkt)
        <3>1. PushToFrame(old, pkt).packet_received = old.packet_received \cup {pid}
            BY <1>2, <1>4, <2>1 DEF PushToFrame, Stored, Reassembler
        <3>2. EndIn(f.data, pid) <= MaxFrameSize
            BY <1>7, <2>1 DEF Accepts
        <3> QED
            BY <3>1, <3>2
    <2>2. CASE ~Accepts(old, pkt)
        <3>1. PushToFrame(old, pkt).packet_received = old.packet_received
            BY <2>2 DEF PushToFrame
        <3>2. pid \in old.packet_received \/ ~(EndIn(f.data, pid) <= MaxFrameSize)
            BY <1>1, <1>2, <1>5, <1>7, <2>2 DEF Accepts, Carries
        <3> QED
            BY <3>1, <3>2
    <2> QED
        BY <2>1, <2>2
<1>9. /\ Live' = Live \cup {id}
      /\ \A j \in Live : j # id => frames'[j] = frames[j]
    BY PushPacketFrames
<1>10. Bits' = [j \in Live \cup {id} |->
                  IF j # id THEN Bits[j]
                  ELSE (IF id \in Live THEN Bits[id] ELSE {})
                       \cup {n \in {pid} : EndIn(f.data, n) <= MaxFrameSize}]
    BY <1>4, <1>6, <1>8, <1>9 DEF Bits
<1>11. done' = <<>> /\ written' = <<>>
    BY DEF PushPacket
<1>12. Assembly!Receive(f, pid)
    <2>1. DOMAIN Bits = Live
        BY DEF Bits
    <2>2. /\ {[frame_id |-> r.frame_id, data |-> r.frame_data] : r \in Range(done')}
                \cup {[frame_id |-> w.frame_id, data |-> w.data] : w \in Range(written')}
             = {}
          /\ {r.frame_id : r \in {r \in Range(done') : r.complete}} = {}
        BY <1>11, EmptySequenceRange
    <2>3. Bits' = [j \in DOMAIN Bits \cup {f.frame_id} |->
                     IF j # f.frame_id THEN Bits[j]
                     ELSE (IF j \in DOMAIN Bits THEN Bits[j] ELSE {})
                          \cup {n \in {pid} : Assembly!EndIn(f.data, n) <= MaxFrameSize}]
        BY <1>2, <1>10, <2>1, SamePackets
    <2> QED
        BY <2>2, <2>3 DEF Assembly!Receive, Assembly!HeldOf, Bits
<1> QED
    BY <1>3, <1>12

(* What the manager has of a live frame, in the words of FrameAssembly.         *)
LEMMA WhatIsHeld ==
    ASSUME DistinctIds, TypeOK, FramesCarry, NEW id \in Live
    PROVE  /\ Assembly!HandedOver(id)
                  = [frame_id |-> id, data |-> FrameData(frames[id].reassembler)]
           /\ AllReceived(frames[id])
                  <=> Bits[id] = Assembly!Parts(Assembly!FrameWithId(id))
           /\ Bits[id] # {} => HasAnyPacket(frames[id].reassembler)
<1> DEFINE fr == frames[id].reassembler
<1>1. fr \in Reassembler /\ Bits[id] = fr.packet_received
    BY DEF TypeOK, Entry, Bits
<1>2. PICK f \in SentFrames : f.frame_id = id /\ Carries(fr, f, Zeros)
    BY DEF FramesCarry
<1>3. Assembly!FrameWithId(id) = f
    BY <1>2, ChosenById
<1>4. Assembly!HandedOver(id) = [frame_id |-> id, data |-> FrameData(fr)]
    <2>1. Assembly!HandedOver(id)
              = [frame_id |-> id,
                 data |-> Assembly!Assembled(Assembly!FrameWithId(id), Bits[id])]
        BY DEF Assembly!HandedOver, Bits
    <2> QED
        BY <1>1, <1>2, <1>3, <2>1, AssembledIsFrameData
<1>5. AllReceived(frames[id]) <=> Bits[id] = Assembly!Parts(f)
    BY <1>1, <1>2, AllPartsMeansFullCount DEF AllReceived
<1>6. Bits[id] # {} => HasAnyPacket(fr)
    <2> SUFFICES ASSUME Bits[id] # {}
                 PROVE  fr.received_packets_count > 0
        BY DEF HasAnyPacket
    <2>1. IsFiniteSet(fr.packet_received) /\ fr.packet_received # {}
        BY <1>1, <1>2, BitsFinite DEF Carries
    <2>2. Cardinality(fr.packet_received) # 0 /\ Cardinality(fr.packet_received) \in Nat
        BY <2>1, FS_EmptySet, FS_CardinalityType
    <2> QED
        BY <1>2, <2>2 DEF Carries, CountIsBits
<1> QED
    BY <1>3, <1>4, <1>5, <1>6

(* Frames that leave the map are not held any more.                          *)
LEMMA RemovedAreNotHeld ==
    ASSUME TypeOK, NEW S \in SUBSET Live, frames' = Without(S)
    PROVE  Bits' = [id \in DOMAIN Bits \ S |-> Bits[id]]
<1>1. DOMAIN Bits = Live
    BY DEF Bits
<1> QED
    BY <1>1, RestrictFrames DEF Bits

LEMMA EmitIsGiveUp ==
    ASSUME DistinctIds, TypeOK, KeyIsFrameId, FramesCarry,
           NEW S \in SUBSET Live, NEW partials, EmitFrames(S, partials)
    PROVE  Assembly!GiveUp(S, S)
<1>1. PICK ids \in [1 .. Cardinality(S) -> S] :
          /\ InMapOrder(ids, S)
          /\ done' = [i \in DOMAIN ids |->
                        ResultOf(frames[ids[i]],
                                 IF ids[i] \in partials THEN "PARTIAL" ELSE "COMPLETE")]
    BY DEF EmitFrames
<1>2. Range(ids) = S
    BY <1>1, MapOrderVisitsEach
<1>3. ASSUME NEW i \in DOMAIN ids
      PROVE  /\ ids[i] \in S
             /\ done'[i].frame_id = ids[i]
             /\ done'[i].complete = AllReceived(frames[ids[i]])
             /\ done'[i].frame_data = FrameData(frames[ids[i]].reassembler)
    BY <1>1 DEF ResultOf, KeyIsFrameId
<1>4. DOMAIN done' = DOMAIN ids /\ written' = <<>>
    BY <1>1 DEF EmitFrames
<1>5. {[frame_id |-> r.frame_id, data |-> r.frame_data] : r \in Range(done')}
            \cup {[frame_id |-> w.frame_id, data |-> w.data] : w \in Range(written')}
          = {Assembly!HandedOver(id) : id \in S}
    <2>1. \A id \in S : Assembly!HandedOver(id)
                  = [frame_id |-> id, data |-> FrameData(frames[id].reassembler)]
        BY WhatIsHeld
    <2> QED
        BY <1>2, <1>3, <1>4, <2>1, EmptySequenceRange DEF Range
<1>6. {r.frame_id : r \in {r \in Range(done') : r.complete}}
          = {id \in S : Bits[id] = Assembly!Parts(Assembly!FrameWithId(id))}
    <2>1. \A id \in S : AllReceived(frames[id])
                          <=> Bits[id] = Assembly!Parts(Assembly!FrameWithId(id))
        BY WhatIsHeld
    <2> QED
        BY <1>2, <1>3, <1>4, <2>1 DEF Range
<1>7. Bits' = [id \in DOMAIN Bits \ S |-> Bits[id]]
    BY RemovedAreNotHeld DEF EmitFrames
<1> QED
    BY <1>5, <1>6, <1>7 DEF Assembly!GiveUp, Bits

LEMMA WriteIsGiveUp ==
    ASSUME DistinctIds, TypeOK, FramesCarry,
           NEW removed \in SUBSET Live, NEW S \in SUBSET removed, NEW partials,
           \A id \in removed : HasAnyPacket(frames[id].reassembler) => id \in S,
           WriteFrames(S, partials, removed)
    PROVE  Assembly!GiveUp(removed, S)
<1>1. PICK ids \in [1 .. Cardinality(S) -> S] :
          /\ InMapOrder(ids, S)
          /\ written' = [i \in DOMAIN ids |->
                           [frame_id   |-> ids[i],
                            data       |-> FrameData(frames[ids[i]].reassembler),
                            is_partial |-> ids[i] \in partials]]
    BY DEF WriteFrames
<1>2. Range(ids) = S
    BY <1>1, MapOrderVisitsEach
<1>3. DOMAIN written' = DOMAIN ids /\ done' = <<>>
    BY <1>1 DEF WriteFrames
<1>4. {[frame_id |-> r.frame_id, data |-> r.frame_data] : r \in Range(done')}
            \cup {[frame_id |-> w.frame_id, data |-> w.data] : w \in Range(written')}
          = {Assembly!HandedOver(id) : id \in S}
    <2>1. \A id \in S : Assembly!HandedOver(id)
                  = [frame_id |-> id, data |-> FrameData(frames[id].reassembler)]
        BY WhatIsHeld
    <2> QED
        BY <1>1, <1>2, <1>3, <2>1, EmptySequenceRange DEF Range
<1>5. {r.frame_id : r \in {r \in Range(done') : r.complete}} = {}
    BY <1>3, EmptySequenceRange
<1>6. \A id \in removed : Bits[id] # {} => id \in S
    BY WhatIsHeld
<1>7. Bits' = [id \in DOMAIN Bits \ removed |-> Bits[id]]
    BY RemovedAreNotHeld DEF WriteFrames
<1> QED
    BY <1>4, <1>5, <1>6, <1>7 DEF Assembly!GiveUp, Bits

-----------------------------------------------------------------------------
(* The simulation, step by step.                                             *)
LEMMA NothingHeldAtFirst == Init => Assembly!Init
<1> SUFFICES ASSUME Init
             PROVE  Assembly!Init
    OBVIOUS
<1>1. Live = {} /\ done = <<>> /\ written = <<>>
    BY DEF Init, NoFrames, Live
<1>2. {[frame_id |-> r.frame_id, data |-> r.frame_data] : r \in Range(done)}
            \cup {[frame_id |-> w.frame_id, data |-> w.data] : w \in Range(written)}
          = {}
    BY <1>1, EmptySequenceRange
<1>3. {r.frame_id : r \in {r \in Range(done) : r.complete}} = {}
    BY <1>1, EmptySequenceRange
<1> QED
    BY <1>1, <1>2, <1>3 DEF Assembly!Init

LEMMA GiveUpIsNext ==
    ASSUME NEW gone \in SUBSET Live, NEW shown \in SUBSET gone,
           Assembly!GiveUp(gone, shown)
    PROVE  Assembly!Next
<1>1. DOMAIN Bits = Live
    BY DEF Bits
<1> QED
    BY <1>1 DEF Assembly!Next, Bits

LEMMA TimersAreNext ==
    ASSUME DistinctIds, TypeOK, KeyIsFrameId, FramesCarry, PollTimers
    PROVE  Assembly!Next
<1>1. Due \in SUBSET Live
    BY DEF Due
<1> QED
    BY <1>1, EmitIsGiveUp, GiveUpIsNext DEF PollTimers

LEMMA FlushIsNext ==
    ASSUME DistinctIds, TypeOK, FramesCarry, FlushAll
    PROVE  Assembly!Next
BY WriteIsGiveUp, GiveUpIsNext DEF FlushAll, Nonempty

LEMMA NothingIsQuiet ==
    ASSUME Bits' = Bits, done' = <<>>, written' = <<>>
    PROVE  Assembly!Next
<1>1. {[frame_id |-> r.frame_id, data |-> r.frame_data] : r \in Range(done')}
          \cup {[frame_id |-> w.frame_id, data |-> w.data] : w \in Range(written')}
        = {}
    BY EmptySequenceRange
<1>2. {r.frame_id : r \in {r \in Range(done') : r.complete}} = {}
    BY EmptySequenceRange
<1>3. Assembly!Quiet
    BY <1>1, <1>2 DEF Assembly!Quiet, Bits
<1> QED
    BY <1>3 DEF Assembly!Next

(* The manager, its bitmaps, buffers, counters and timers included, hands over  *)
(* what FrameAssembly says and nothing else: the parts that came, each at its  *)
(* place, zeros between them, up to the last of them; and it announces a frame *)
(* as complete exactly when all of its parts came.                           *)
THEOREM ManagerImplementsAssembly ==
    ASSUME SameStride, DistinctIds
    PROVE  Spec => ImplementsAssembly
<1>1. TypeOK /\ KeyIsFrameId /\ FramesCarry /\ [Next]_vars
          => [Assembly!Next]_(Assembly!vars)
    <2> SUFFICES ASSUME TypeOK, KeyIsFrameId, FramesCarry, [Next]_vars
                 PROVE  [Assembly!Next]_(Assembly!vars)
        OBVIOUS
    <2>1. ASSUME NEW pkt \in RxPackets, PushPacket(pkt)
          PROVE  Assembly!Next
        BY <2>1, PushIsReceive DEF Assembly!Next
    <2>2. CASE PollTimers
        BY <2>2, TimersAreNext
    <2>3. CASE ForceEmitAll
        BY <2>3, EmitIsGiveUp, GiveUpIsNext DEF ForceEmitAll
    <2>4. CASE FlushAll
        BY <2>4, FlushIsNext
    <2>5. CASE PollFlush
        BY <2>5, WriteIsGiveUp, GiveUpIsNext DEF PollFlush
    <2>6. CASE Tick
        <3>1. Bits' = Bits
            BY <2>6, TickFrames DEF Bits
        <3> QED
            BY <2>6, <3>1, NothingIsQuiet DEF Tick
    <2>7. CASE QueueDrops
        <3>1. Bits' = Bits
            BY <2>7 DEF QueueDrops, Bits, Live
        <3> QED
            BY <2>7, <3>1, NothingIsQuiet DEF QueueDrops
    <2>8. CASE UNCHANGED vars
        BY <2>8 DEF vars, Assembly!vars, Live
    <2> QED
        BY <2>1, <2>2, <2>3, <2>4, <2>5, <2>6, <2>7, <2>8 DEF Next
<1> QED
    BY <1>1, NothingHeldAtFirst, TypeCorrect, KeyIsFrameIdInvariant, FramesCarryInvariant, PTL
    DEF Spec, ImplementsAssembly, Assembly!Spec
=============================================================================
