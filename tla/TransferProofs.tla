---------------------------- MODULE TransferProofs ----------------------------
(***************************************************************************)
(* Theorems about Transfer, for any file and any header, any payload size, any *)
(* size of the receiver's buffer and any timeouts, and for any number of runs, *)
(* frames, crashes and failing files.                                        *)
(*                                                                          *)
(* What the steps of the sender and of the manager preserve is proved in       *)
(* UdpSenderProofs and FrameReassemblerManagerProofs and instantiated here.    *)
(***************************************************************************)
EXTENDS Transfer, FiniteSetTheorems, SequenceTheorems, TLAPS

SP == INSTANCE UdpSenderProofs WITH SentFrames <- Frames

MP == INSTANCE FrameReassemblerManagerProofs
    WITH SentFrames <- Frames, MaxEntries <- MaxFrames, MaxDrops <- 0

(* The call of write_frame_to_file that is being made.                         *)
Current == Head(calls)

InProgress == opened \/ kind # 1

(* What TypeOK needs to be inductive: the sender is in the middle of a frame   *)
(* sent (SP!IInv), and a file is open only while there is a call for it, of a   *)
(* frame that is longer than its header.                                     *)
WritesACall == InProgress => ~Writer!Idle /\ Writer!Accepted(Current)

TypeInv == TypeOK /\ SP!IInv /\ WritesACall

(* What FilesAgree needs: a base is being written only by the current call,    *)
(* what became of the files of that base is not known before its end, and if   *)
(* none failed the files already closed are those of the current frame.        *)
OneIsWriting ==
    \A base \in Writer!Bases :
        verdict[base] = "writing" => InProgress /\ base = Current.base

NotKnownYet == InProgress => verdict[Current.base] \in {"writing", "torn"}

ClosedAreWritten ==
    InProgress /\ verdict[Current.base] = "writing" =>
        \A k \in Writer!Kinds :
            k < kind => files[Current.base][k] = Writer!Content(Current.data)[k]

WriterInv == OneIsWriting /\ NotKnownYet /\ ClosedAreWritten /\ FilesAgree

(* What CompleteMeansAllSent needs: a packet whose bit is set was put out.      *)
KeptWasSent ==
    \A id \in Manager!Live :
        LET fr == frames[id].reassembler
        IN  /\ MP!CountIsBits(fr)
            /\ fr.expected_packet_count = Manager!PacketCount(Encode(Raw))
            /\ \A n \in fr.packet_received :
                  Manager!PacketAt(1, Encode(Raw), n) \in net

SentInv == KeptWasSent /\ CompleteMeansAllSent

(* What FileComesThrough needs: every frame the receiver holds is a part of the *)
(* one sent, what it writes as whole is all of it, and the header file of the   *)
(* sender is there before the first packet is.                               *)
HeaderComesFirst ==
    (tm = "sending" \/ net # {} \/ Manager!Live # {}) => senderHeader = Header

WholeIsTheFrame ==
    \A i \in DOMAIN calls :
        calls[i].whole => calls[i].data = Encode(Raw) /\ senderHeader = Header

WrittenIsTheFile ==
    \A base \in Writer!Bases :
        verdict[base] = "whole" =>
            senderHeader = Header /\ files[base][2] = Header /\ files[base][3] = Raw

FileInv ==
    MP!FramesCarry /\ HeaderComesFirst /\ WholeIsTheFrame /\ WrittenIsTheFile

-----------------------------------------------------------------------------
(* The assumptions of the modules instantiated, as they are stated there.      *)
LEMMA FramesType ==
    /\ Frames \subseteq [frame_id : Nat, data : Seq(Byte)]
    /\ IsFiniteSet(Frames)
    /\ \A f \in Frames : f.frame_id = 1 /\ f.data = Encode(Raw)
    /\ Encode(Raw) \in Seq(Byte)
<1>1. Encode(Raw) \in Seq(Byte)
    BY TransferAssumption, ConcatProperties DEF Encode
<1> DEFINE f == [frame_id |-> 1, data |-> Encode(Raw)]
<1>2. f \in [frame_id : Nat, data : Seq(Byte)] /\ f.frame_id = 1 /\ f.data = Encode(Raw)
    BY <1>1
<1>3. Frames = {} \/ Frames = {f}
    BY DEF Frames
<1> HIDE DEF f
<1>4. IsFiniteSet(Frames)
    BY <1>3, FS_EmptySet, FS_Singleton
<1> QED
    BY <1>1, <1>2, <1>3, <1>4

LEMMA Assumptions ==
    /\ CountMod \in Nat \ {0} /\ MaxUdpPayload \in Nat \ {0} /\ Byte # {}
    /\ Frames \subseteq [frame_id : Nat, data : Seq(Byte)]
    /\ SP!IsFiniteSet(Frames) /\ MP!IsFiniteSet(Frames)
    /\ MaxFrameSize \in Nat /\ PayloadStride \in Nat \ {0} /\ ZeroByte \in Byte
    /\ IdleTimeout \in Nat /\ MaxLifetime \in Nat /\ MaxFrames \in Nat /\ 0 \in Nat
BY FramesType, TransferAssumption DEF SP!IsFiniteSet, MP!IsFiniteSet, IsFiniteSet

(* The two instances of the sender, and those of the manager, are one.          *)
LEMMA SameWire ==
    /\ Manager!RxPackets = MP!RxPackets /\ Manager!RxPackets = SP!RxPackets
    /\ Manager!RxPacket = MP!RxPacket
    /\ Manager!FrameIds = MP!FrameIds
    /\ \A data : Manager!PacketCount(data) = MP!PacketCount(data)
    /\ \A data : Manager!PacketCount(data) = SP!PacketCount(data)
    /\ \A id, data, n : Manager!PacketAt(id, data, n) = MP!PacketAt(id, data, n)
    /\ \A id, data, n : Manager!PacketAt(id, data, n) = SP!PacketAt(id, data, n)
BY DEF Manager!RxPackets, MP!RxPackets, SP!RxPackets, Manager!U16, MP!U16, SP!U16,
       Manager!RxPacket, MP!RxPacket, Manager!PacketCount, MP!PacketCount,
       SP!PacketCount, Manager!PacketAt, MP!PacketAt, SP!PacketAt,
       Manager!FrameIds, MP!FrameIds

LEMMA SameSenderType == Sender!TypeOK <=> SP!TypeOK
BY DEF Sender!TypeOK, SP!TypeOK, Sender!PacketCount, SP!PacketCount,
       Sender!RxPacket, SP!RxPacket, Sender!U16, SP!U16

LEMMA SameInit == Sender!Init <=> SP!Init
BY DEF Sender!Init, SP!Init

LEMMA SameSenderSteps ==
    /\ \A f : Sender!SendFrame(f) <=> SP!SendFrame(f)
    /\ Sender!LoopTest <=> SP!LoopTest
    /\ Sender!Writable <=> SP!Writable
    /\ Sender!Retry <=> SP!Retry
    /\ Sender!GiveUp <=> SP!GiveUp
    /\ Sender!SendTo <=> SP!SendTo
BY DEF Sender!SendFrame, SP!SendFrame, Sender!LoopTest, SP!LoopTest,
       Sender!Writable, SP!Writable, Sender!Retry, SP!Retry, Sender!GiveUp, SP!GiveUp,
       Sender!SendTo, SP!SendTo, Sender!PacketCount, SP!PacketCount,
       Sender!PacketAt, SP!PacketAt

LEMMA SameType == (Manager!TypeOK <=> MP!TypeOK) /\ (Manager!TypeOK' <=> MP!TypeOK')
BY DEF Manager!TypeOK, MP!TypeOK, Manager!Live, MP!Live, Manager!Entry, MP!Entry,
       Manager!Reassembler, MP!Reassembler, Manager!FrameIds, MP!FrameIds,
       Manager!U16, MP!U16, Manager!Offsets, MP!Offsets,
       Manager!FrameResult, MP!FrameResult, Manager!Write, MP!Write

LEMMA SamePush ==
    ASSUME NEW pkt
    PROVE  Manager!PushPacket(pkt) <=> MP!PushPacket(pkt)
BY DEF Manager!PushPacket, MP!PushPacket, Manager!Live, MP!Live,
       Manager!Touched, MP!Touched, Manager!EntryFor, MP!EntryFor,
       Manager!StartedEntry, MP!StartedEntry, Manager!PushToFrame, MP!PushToFrame,
       Manager!Accepts, MP!Accepts, Manager!Stored, MP!Stored,
       Manager!EndOf, MP!EndOf, Manager!OffsetOf, MP!OffsetOf,
       Manager!Overwrite, MP!Overwrite, Manager!Offsets, MP!Offsets,
       Manager!StartNewFrame, MP!StartNewFrame, Manager!NewReassembler, MP!NewReassembler

LEMMA SameTimers == Manager!PollTimers <=> MP!PollTimers
BY DEF Manager!PollTimers, MP!PollTimers, Manager!EmitFrames, MP!EmitFrames,
       Manager!Due, MP!Due, Manager!Live, MP!Live, Manager!AllReceived, MP!AllReceived,
       Manager!IsIdle, MP!IsIdle, Manager!IsStale, MP!IsStale,
       Manager!InMapOrder, MP!InMapOrder, Manager!ResultOf, MP!ResultOf,
       Manager!HasGap, MP!HasGap, Manager!HasCorruption, MP!HasCorruption,
       Manager!FrameData, MP!FrameData, Manager!Without, MP!Without,
       Manager!Restrict, MP!Restrict, Manager!Cardinality, MP!Cardinality

LEMMA SameFlush == Manager!FlushAll <=> MP!FlushAll
BY DEF Manager!FlushAll, MP!FlushAll, Manager!WriteFrames, MP!WriteFrames,
       Manager!Nonempty, MP!Nonempty, Manager!HasAnyPacket, MP!HasAnyPacket,
       Manager!Live, MP!Live, Manager!InMapOrder, MP!InMapOrder,
       Manager!FrameData, MP!FrameData, Manager!Without, MP!Without,
       Manager!Restrict, MP!Restrict, Manager!Cardinality, MP!Cardinality

LEMMA SameTick == Manager!Tick <=> MP!Tick
BY DEF Manager!Tick, MP!Tick, Manager!Live, MP!Live, Manager!Older, MP!Older

-----------------------------------------------------------------------------
(* Next takes one of these steps on the sender's side or the receiver's.        *)
LEMMA SenderStarts ==
    ASSUME StartSender
    PROVE  SP!IInv'
<1>1. SP!PacketCount(<<>>) = 0
    BY Assumptions, SP!EmptyFrame
<1>2. /\ frame_id' = 0 /\ frame' = <<>> /\ pid' = 0
      /\ at' = "idle" /\ failed' = FALSE /\ sent' = <<>>
    BY DEF StartSender
<1>3. SP!TypeOK'
    <2>1. <<>> \in Seq(Byte) /\ <<>> \in Seq(SP!RxPacket) /\ 0 \in 0 .. 0
        BY EmptySeq
    <2> QED
        BY <1>1, <1>2, <2>1 DEF SP!TypeOK
<1>4. SP!LoopInv' /\ SP!SentInOrder'
    BY <1>1, <1>2 DEF SP!LoopInv, SP!SentInOrder
<1> QED
    BY <1>3, <1>4 DEF SP!IInv

LEMMA SenderUnchanged ==
    ASSUME SP!IInv, UNCHANGED senderVars
    PROVE  SP!IInv'
BY DEF senderVars, SP!IInv, SP!TypeOK, SP!LoopInv, SP!SentInOrder

LEMMA SenderNext ==
    ASSUME SP!IInv, SP!Next
    PROVE  SP!IInv'
BY Assumptions, SP!NextKeepsIInv

LEMMA SenderTakes ==
    ASSUME SP!IInv, SendTheFrame \/ SenderStep
    PROVE  SP!IInv'
<1>1. CASE SendTheFrame
    BY <1>1, SenderNext, SameSenderSteps DEF SendTheFrame, SP!Next
<1>2. CASE SenderStep
    BY <1>2, SenderNext, SameSenderSteps DEF SenderStep, SP!Next
<1> QED
    BY <1>1, <1>2

(* The packets that exist are those of the one frame sent.                     *)
LEMMA PacketsOfTheFrame ==
    /\ \A pkt \in Manager!RxPackets :
          \E n \in Nat : /\ n < Manager!PacketCount(Encode(Raw))
                         /\ pkt = Manager!PacketAt(1, Encode(Raw), n)
    /\ Raw # <<>> =>
          \A n \in Nat : n < Manager!PacketCount(Encode(Raw)) =>
              Manager!PacketAt(1, Encode(Raw), n) \in Manager!RxPackets
<1>1. ASSUME NEW pkt \in Manager!RxPackets
      PROVE  \E n \in Nat : /\ n < Manager!PacketCount(Encode(Raw))
                            /\ pkt = Manager!PacketAt(1, Encode(Raw), n)
    <2>1. PICK f \in Frames :
              pkt \in {Manager!PacketAt(f.frame_id, f.data, n) :
                          n \in {k \in Manager!U16 : k < Manager!PacketCount(f.data)}}
        BY <1>1 DEF Manager!RxPackets
    <2> QED
        BY <2>1, FramesType, Assumptions DEF Manager!U16
<1>2. ASSUME Raw # <<>>, NEW n \in Nat, n < Manager!PacketCount(Encode(Raw))
      PROVE  Manager!PacketAt(1, Encode(Raw), n) \in Manager!RxPackets
    <2>1. Frames = {[frame_id |-> 1, data |-> Encode(Raw)]}
        BY <1>2 DEF Frames
    <2>2. Manager!PacketCount(Encode(Raw)) < CountMod
        BY FramesType, Assumptions, SameWire, SP!CountType
    <2>3. n \in Manager!U16
        BY <1>2, <2>2, FramesType, Assumptions, SameWire, SP!CountType DEF Manager!U16
    <2> QED
        BY <1>2, <2>1, <2>3 DEF Manager!RxPackets
<1> QED
    BY <1>1, <1>2

LEMMA PacketPutOut ==
    ASSUME SP!IInv, SP!SendTo
    PROVE  /\ Len(sent') \in Nat \ {0}
           /\ sent'[Len(sent')] = Manager!PacketAt(frame_id, frame, pid)
           /\ sent'[Len(sent')] \in Manager!RxPackets
<1>1. /\ pid \in Nat /\ pid < SP!PacketCount(frame) /\ sent \in Seq(SP!RxPacket)
      /\ frame \in Seq(Byte) /\ frame_id \in Nat
    BY DEF SP!SendTo, SP!IInv, SP!LoopInv, SP!TypeOK
<1>2. frame # <<>>
    BY <1>1, Assumptions, SP!EmptyFrame
<1>3. [frame_id |-> frame_id, data |-> frame] \in Frames
    BY <1>2 DEF SP!IInv, SP!LoopInv
<1>4. frame_id = 1 /\ frame = Encode(Raw) /\ Raw # <<>>
    BY <1>3, FramesType DEF Frames
<1>5. SP!PacketAt(frame_id, frame, pid) \in SP!RxPacket
    BY <1>1, Assumptions, SP!PacketContents
<1>6. Len(sent') \in Nat \ {0} /\ sent'[Len(sent')] = SP!PacketAt(frame_id, frame, pid)
    <2>1. sent' = Append(sent, SP!PacketAt(frame_id, frame, pid))
        BY DEF SP!SendTo
    <2>2. Len(sent) \in Nat
        BY <1>1, LenProperties
    <2> QED
        BY <1>1, <1>5, <2>1, <2>2, AppendProperties
<1> QED
    BY <1>1, <1>4, <1>6, SameWire, PacketsOfTheFrame

-----------------------------------------------------------------------------
(* The manager's steps keep its type, and its new process has it.              *)
LEMMA PushType ==
    ASSUME Manager!TypeOK, NEW pkt \in Manager!RxPackets, Manager!PushPacket(pkt)
    PROVE  Manager!TypeOK'
BY SameType, SamePush, SameWire, Assumptions, MP!PushPacketType

LEMMA TimersType ==
    ASSUME Manager!TypeOK, Manager!PollTimers
    PROVE  Manager!TypeOK'
<1>1. MP!TypeOK /\ MP!PollTimers
    BY SameType, SameTimers
<1>2. MP!Due \in SUBSET MP!Live
    BY DEF MP!Due
<1>3. MP!TypeOK'
    BY <1>1, <1>2, Assumptions, MP!EmitFramesType DEF MP!PollTimers
<1> QED
    BY <1>3, SameType

LEMMA FlushType ==
    ASSUME Manager!TypeOK, Manager!FlushAll
    PROVE  Manager!TypeOK'
<1>1. MP!TypeOK /\ MP!FlushAll
    BY SameType, SameFlush
<1>2. MP!Nonempty \in SUBSET MP!Live
    BY DEF MP!Nonempty
<1>3. MP!TypeOK'
    BY <1>1, <1>2, Assumptions, MP!WriteFramesType DEF MP!FlushAll
<1> QED
    BY <1>3, SameType

LEMMA TickType ==
    ASSUME Manager!TypeOK, Manager!Tick
    PROVE  Manager!TypeOK'
<1>1. MP!TypeOK /\ MP!Tick
    BY SameType, SameTick
<1>2. MP!TypeOK'
    BY <1>1, Assumptions, MP!TickFrames DEF MP!Tick, MP!TypeOK
<1> QED
    BY <1>2, SameType

LEMMA ForgottenType ==
    ASSUME Manager!TypeOK, done' = <<>>, written' = <<>>, UNCHANGED <<frames, stats, drops>>
    PROVE  Manager!TypeOK'
<1>1. done' \in Seq(Manager!FrameResult) /\ written' \in Seq(Manager!Write)
    BY EmptySeq
<1> QED
    BY <1>1 DEF Manager!TypeOK, Manager!Live

LEMMA RestartType ==
    ASSUME Restart
    PROVE  Manager!TypeOK' /\ Manager!Live' = {}
<1>1. Manager!Live' = {} /\ frames' \in [Manager!Live' -> Manager!Entry]
    BY DEF Restart, Manager!NoFrames, Manager!Live
<1>2. done' \in Seq(Manager!FrameResult) /\ written' \in Seq(Manager!Write)
    BY EmptySeq DEF Restart
<1> QED
    BY <1>1, <1>2 DEF Restart, Manager!TypeOK

(* The content of the three files is made of bytes, and together the second    *)
(* and the third are the first.                                             *)
LEMMA ContentIsTheFrame ==
    ASSUME NEW data \in Seq(Byte), Len(data) >= Len(Header)
    PROVE  LET content == Writer!Content(data)
           IN  /\ \A k \in Writer!Kinds : content[k] \in Seq(Byte)
               /\ content[1] = content[2] \o content[3]
               /\ Len(content[2]) = Len(Header)
<1> DEFINE h == Len(Header)
           n == Len(data)
<1>1. h \in Nat /\ n \in Nat /\ h <= n
    BY TransferAssumption, LenProperties
<1>2. /\ \A i \in 1 .. n : data[i] \in Byte
      /\ \A i \in 1 .. h : i \in 1 .. n
      /\ \A i \in (h + 1) .. n : i \in 1 .. n
    BY <1>1, ElementOfSeq
<1>3. SubSeq(data, 1, h) \in Seq(Byte) /\ Len(SubSeq(data, 1, h)) = h
    <2>1. 1 \in Int /\ h \in Int /\ \A i \in 1 .. h : data[i] \in Byte
        BY <1>1, <1>2
    <2> HIDE DEF h
    <2>2. /\ SubSeq(data, 1, h) \in Seq(Byte)
          /\ Len(SubSeq(data, 1, h)) = IF 1 <= h THEN h - 1 + 1 ELSE 0
        BY <2>1, SubSeqProperties
    <2> QED
        BY <1>1, <2>2
<1>4. SubSeq(data, h + 1, n) \in Seq(Byte)
    BY <1>1, <1>2, SubSeqProperties
<1>5. SubSeq(data, 1, h) \o SubSeq(data, h + 1, n) = data
    <2>1. 1 \in 1 .. Len(data) + 1 /\ h \in (1 - 1) .. Len(data) /\ n \in h .. Len(data)
        BY <1>1
    <2>2. SubSeq(data, 1, h) \o SubSeq(data, h + 1, n) = SubSeq(data, 1, n)
        BY <2>1, ConcatAdjacentSubSeq
    <2>3. SubSeq(data, 1, n) = data
        BY SubSeqFull
    <2> QED
        BY <2>2, <2>3
<1>6. /\ Writer!Content(data)[1] = data
      /\ Writer!Content(data)[2] = SubSeq(data, 1, h)
      /\ Writer!Content(data)[3] = SubSeq(data, h + 1, n)
    BY DEF Writer!Content
<1>7. \A k \in Writer!Kinds : k = 1 \/ k = 2 \/ k = 3
    BY DEF Writer!Kinds
<1> HIDE DEF h, n
<1> QED
    BY <1>3, <1>4, <1>5, <1>6, <1>7 DEF h

-----------------------------------------------------------------------------
(* The writer's steps.                                                      *)
LEMMA CurrentType ==
    ASSUME Writer!TypeOK, ~Writer!Idle
    PROVE  /\ Current \in Writer!Call /\ Current.base \in Writer!Bases
           /\ Current.data \in Seq(Byte)
           /\ Tail(calls) \in Seq(Writer!Call)
           /\ 1 \in DOMAIN calls /\ calls[1] = Current
<1>1. calls \in Seq(Writer!Call) /\ calls # <<>>
    BY DEF Writer!TypeOK, Writer!Idle
<1>2. Current \in Writer!Call /\ Tail(calls) \in Seq(Writer!Call)
    BY <1>1, HeadTailProperties DEF Current
<1>3. 1 \in DOMAIN calls /\ calls[1] = Current
    BY <1>1 DEF Current
<1> QED
    BY <1>2, <1>3 DEF Writer!Call

LEMMA PrefixType ==
    ASSUME NEW content \in Seq(Byte), NEW some \in Writer!Prefixes(content)
    PROVE  some \in Seq(Byte)
<1>1. PICK n \in 0 .. Len(content) : some = SubSeq(content, 1, n)
    BY DEF Writer!Prefixes
<1>2. n \in Int /\ \A i \in 1 .. n : content[i] \in Byte
    BY LenProperties, ElementOfSeq
<1> QED
    BY <1>1, <1>2, SubSeqProperties

LEMMA WritingType ==
    ASSUME Writer!TypeOK, ~Writer!Idle, NEW content \in Seq(Byte) \cup {NoFile},
           NEW outcome \in {"none", "writing", "torn", "partly", "whole"},
           Writer!Writing(content, outcome)
    PROVE  /\ files' \in [Writer!Bases -> [Writer!Kinds -> Seq(Byte) \cup {NoFile}]]
           /\ verdict' \in [Writer!Bases -> {"none", "writing", "torn", "partly", "whole"}]
           /\ files'[Current.base][kind] = content
           /\ \A k \in Writer!Kinds :
                 k # kind => files'[Current.base][k] = files[Current.base][k]
           /\ verdict'[Current.base] = outcome
           /\ \A base \in Writer!Bases :
                 base # Current.base =>
                     files'[base] = files[base] /\ verdict'[base] = verdict[base]
<1>1. Current.base \in Writer!Bases /\ kind \in Writer!Kinds
    BY CurrentType DEF Writer!TypeOK
<1>2. /\ files' = [files EXCEPT ![Current.base][kind] = content]
      /\ verdict' = [verdict EXCEPT ![Current.base] = outcome]
    BY DEF Writer!Writing, Current
<1>3. /\ files \in [Writer!Bases -> [Writer!Kinds -> Seq(Byte) \cup {NoFile}]]
      /\ verdict \in [Writer!Bases -> {"none", "writing", "torn", "partly", "whole"}]
    BY DEF Writer!TypeOK
<1> QED
    BY <1>1, <1>2, <1>3

LEMMA NextFileType ==
    ASSUME Writer!TypeOK, ~Writer!Idle, Writer!Accepted(Current), Writer!NextFile
    PROVE  /\ calls' \in Seq(Writer!Call) /\ kind' \in Writer!Kinds /\ opened' \in BOOLEAN
           /\ WritesACall'
<1>1. kind \in Writer!Kinds /\ calls \in Seq(Writer!Call) /\ Tail(calls) \in Seq(Writer!Call)
    BY CurrentType DEF Writer!TypeOK
<1>2. opened' = FALSE
    BY DEF Writer!NextFile
<1>3. CASE kind = 3
    <2>1. calls' = Tail(calls) /\ kind' = 1
        BY <1>3 DEF Writer!NextFile
    <2>2. kind' \in Writer!Kinds
        BY <2>1 DEF Writer!Kinds
    <2>3. ~InProgress'
        BY <1>2, <2>1, Zenon DEF InProgress
    <2> QED
        BY <1>1, <1>2, <2>1, <2>2, <2>3 DEF WritesACall
<1>4. CASE kind # 3
    <2>1. calls' = calls /\ kind' = kind + 1
        BY <1>4 DEF Writer!NextFile
    <2>2. kind' \in Writer!Kinds
        BY <1>1, <1>4, <2>1 DEF Writer!Kinds
    <2>3. ~Writer!Idle' /\ Writer!Accepted(Current)'
        BY <2>1 DEF Writer!Idle, Writer!Accepted, Current
    <2> QED
        BY <1>1, <1>2, <2>1, <2>2, <2>3 DEF WritesACall
<1> QED
    BY <1>3, <1>4

(* A call goes on to its next file with the outcome it has so far.             *)
OnTo(content, outcome) ==
    /\ ~Writer!Idle /\ Writer!Accepted(Current)
    /\ content \in Seq(Byte) \cup {NoFile}
    /\ outcome \in {"none", "writing", "torn", "partly", "whole"}
    /\ Writer!Writing(content, outcome)
    /\ Writer!NextFile

LEMMA CloseIsOnTo ==
    ASSUME Writer!TypeOK, WritesACall, Writer!WriteAndClose
    PROVE  LET sofar == verdict[Current.base]
           IN  OnTo(Writer!Content(Current.data)[kind],
                    IF kind < 3 \/ sofar = "torn" THEN sofar
                    ELSE IF Current.whole THEN "whole" ELSE "partly")
<1>1. opened /\ ~Writer!Idle /\ Writer!Accepted(Current)
    BY DEF Writer!WriteAndClose, WritesACall, InProgress
<1>2. Writer!Content(Current.data)[kind] \in Seq(Byte)
    BY <1>1, CurrentType, ContentIsTheFrame DEF Writer!Accepted, Writer!TypeOK
<1>3. verdict[Current.base] \in {"none", "writing", "torn", "partly", "whole"}
    BY <1>1, CurrentType DEF Writer!TypeOK
<1> QED
    BY <1>1, <1>2, <1>3 DEF Writer!WriteAndClose, OnTo, Current

LEMMA FailureIsOnTo ==
    ASSUME Writer!TypeOK, WritesACall, Writer!OpenFails \/ Writer!WriteFails
    PROVE  \E content : OnTo(content, "torn")
<1>1. CASE Writer!OpenFails
    <2>1. ~Writer!Idle /\ Writer!Accepted(Current)
        BY <1>1 DEF Writer!OpenFails, Current
    <2>2. files[Current.base][kind] \in Seq(Byte) \cup {NoFile}
        BY <2>1, CurrentType DEF Writer!TypeOK
    <2> QED
        BY <1>1, <2>1, <2>2 DEF Writer!OpenFails, OnTo, Current
<1>2. CASE Writer!WriteFails
    <2>1. opened /\ ~Writer!Idle /\ Writer!Accepted(Current)
        BY <1>2 DEF Writer!WriteFails, WritesACall, InProgress
    <2>2. Writer!Content(Current.data)[kind] \in Seq(Byte)
        BY <2>1, CurrentType, ContentIsTheFrame DEF Writer!Accepted, Writer!TypeOK
    <2>3. PICK some \in Writer!Prefixes(Writer!Content(Current.data)[kind]) :
              Writer!Writing(some, "torn")
        BY <1>2 DEF Writer!WriteFails, Current
    <2>4. some \in Seq(Byte)
        BY <2>2, PrefixType
    <2> QED
        BY <1>2, <2>1, <2>3, <2>4 DEF Writer!WriteFails, OnTo
<1> QED
    BY <1>1, <1>2

LEMMA DiesType ==
    ASSUME Writer!TypeOK, WritesACall, Writer!Dies
    PROVE  Writer!TypeOK' /\ ~InProgress'
<1>1. calls' = <<>> /\ kind' = 1 /\ opened' = FALSE
    BY DEF Writer!Dies
<1>2. calls' \in Seq(Writer!Call) /\ kind' \in Writer!Kinds
    BY <1>1, EmptySeq DEF Writer!Kinds
<1>3. ~InProgress'
    BY <1>1, Zenon DEF InProgress
<1>4. CASE opened
    <2>1. ~Writer!Idle /\ Writer!Accepted(Current)
        BY <1>4 DEF WritesACall, InProgress
    <2>2. Writer!Content(Current.data)[kind] \in Seq(Byte)
        BY <2>1, CurrentType, ContentIsTheFrame DEF Writer!Accepted, Writer!TypeOK
    <2>3. PICK some \in Writer!Prefixes(Writer!Content(Current.data)[kind]) :
              Writer!Writing(some, "torn")
        BY <1>4 DEF Writer!Dies, Current
    <2>4. some \in Seq(Byte)
        BY <2>2, PrefixType
    <2> QED
        BY <1>1, <1>2, <1>3, <2>1, <2>3, <2>4, WritingType DEF Writer!TypeOK
<1>5. CASE ~opened
    <2>1. /\ files' = files
          /\ verdict' = [base \in Writer!Bases |->
                           IF verdict[base] = "writing" THEN "torn" ELSE verdict[base]]
        BY <1>5 DEF Writer!Dies
    <2> QED
        BY <1>1, <1>2, <1>3, <2>1 DEF Writer!TypeOK
<1> QED
    BY <1>4, <1>5

LEMMA OnToType ==
    ASSUME Writer!TypeOK, NEW content, NEW outcome, OnTo(content, outcome)
    PROVE  Writer!TypeOK' /\ WritesACall'
BY WritingType, NextFileType DEF OnTo, Writer!TypeOK

LEMMA OpenType ==
    ASSUME Writer!TypeOK, Writer!Open
    PROVE  /\ Writer!TypeOK' /\ WritesACall' /\ InProgress' /\ ~opened
           /\ ~Writer!Idle /\ Current' = Current /\ kind' = kind
           /\ Writer!Accepted(Current)
           /\ files'[Current.base][kind] = <<>>
           /\ \A k \in Writer!Kinds :
                 k # kind => files'[Current.base][k] = files[Current.base][k]
           /\ verdict'[Current.base]
                 = IF kind = 1 THEN "writing" ELSE verdict[Current.base]
           /\ \A base \in Writer!Bases :
                 base # Current.base =>
                     files'[base] = files[base] /\ verdict'[base] = verdict[base]
<1> DEFINE outcome == IF kind = 1 THEN "writing" ELSE verdict[Current.base]
<1>1. /\ ~Writer!Idle /\ Writer!Accepted(Current) /\ ~opened
      /\ opened' = TRUE /\ calls' = calls /\ kind' = kind
      /\ Writer!Writing(<<>>, outcome)
    BY DEF Writer!Open, Current
<1>2. outcome \in {"none", "writing", "torn", "partly", "whole"}
    BY <1>1, CurrentType DEF Writer!TypeOK
<1>3. <<>> \in Seq(Byte)
    BY EmptySeq
<1> HIDE DEF outcome
<1>4. /\ files' \in [Writer!Bases -> [Writer!Kinds -> Seq(Byte) \cup {NoFile}]]
      /\ verdict' \in [Writer!Bases -> {"none", "writing", "torn", "partly", "whole"}]
      /\ files'[Current.base][kind] = <<>>
      /\ \A k \in Writer!Kinds :
            k # kind => files'[Current.base][k] = files[Current.base][k]
      /\ verdict'[Current.base] = outcome
      /\ \A base \in Writer!Bases :
            base # Current.base =>
                files'[base] = files[base] /\ verdict'[base] = verdict[base]
    BY <1>1, <1>2, <1>3, WritingType
<1>5. Current' = Current /\ ~Writer!Idle' /\ Writer!Accepted(Current)' /\ InProgress'
    BY <1>1 DEF Current, Writer!Idle, Writer!Accepted, InProgress
<1> QED
    BY <1>1, <1>4, <1>5 DEF Writer!TypeOK, WritesACall, outcome

LEMMA WriterType ==
    ASSUME Writer!TypeOK, WritesACall,
           \/ Writer!Refuse \/ Writer!Open \/ Writer!WriteAndClose
           \/ Writer!OpenFails \/ Writer!WriteFails \/ Writer!Dies
    PROVE  Writer!TypeOK' /\ WritesACall'
<1>1. CASE Writer!Refuse
    <2>1. ~InProgress /\ ~Writer!Idle
        BY <1>1 DEF Writer!Refuse, WritesACall, Current
    <2> QED
        BY <1>1, <2>1, CurrentType
        DEF Writer!Refuse, Writer!TypeOK, WritesACall, InProgress
<1>2. CASE Writer!Open
    BY <1>2, OpenType
<1>3. CASE Writer!WriteAndClose
    BY <1>3, CloseIsOnTo, OnToType
<1>4. CASE Writer!OpenFails \/ Writer!WriteFails
    BY <1>4, FailureIsOnTo, OnToType
<1>5. CASE Writer!Dies
    BY <1>5, DiesType DEF WritesACall
<1> QED
    BY <1>1, <1>2, <1>3, <1>4, <1>5

(* What the manager hands over is called for, each result and each write once. *)
LEMMA CallsMadeAre ==
    ASSUME done' \in Seq(Manager!FrameResult), written' \in Seq(Manager!Write), CallsMade
    PROVE  /\ calls' \in Seq(Writer!Call)
           /\ \A i \in DOMAIN calls' :
                 \/ \E j \in DOMAIN done' : calls'[i] = OfResult(done'[j])
                 \/ \E j \in DOMAIN written' : calls'[i] = OfWrite(written'[j])
<1> DEFINE results == [i \in DOMAIN done' |-> OfResult(done'[i])]
           writes  == [i \in DOMAIN written' |-> OfWrite(written'[i])]
<1>1. /\ \A r \in Manager!FrameResult : OfResult(r) \in Writer!Call
      /\ \A w \in Manager!Write : OfWrite(w) \in Writer!Call
    BY DEF Manager!FrameResult, Manager!Write, OfResult, OfWrite, Manager!AllReceived,
           Writer!Call, Writer!Bases
<1>2. /\ Len(done') \in Nat /\ DOMAIN done' = 1 .. Len(done')
      /\ \A i \in 1 .. Len(done') : done'[i] \in Manager!FrameResult
    BY LenProperties, ElementOfSeq
<1>3. /\ Len(written') \in Nat /\ DOMAIN written' = 1 .. Len(written')
      /\ \A i \in 1 .. Len(written') : written'[i] \in Manager!Write
    BY LenProperties, ElementOfSeq
<1>4. results \in Seq(Writer!Call) /\ Len(results) = Len(done')
    BY <1>1, <1>2, IsASeq, LenProperties
<1>5. writes \in Seq(Writer!Call) /\ Len(writes) = Len(written')
    BY <1>1, <1>3, IsASeq, LenProperties
<1>6. calls' = results \o writes
    BY DEF CallsMade
<1>7. /\ \A j \in DOMAIN done' : results[j] = OfResult(done'[j])
      /\ \A j \in DOMAIN written' : writes[j] = OfWrite(written'[j])
    OBVIOUS
<1> HIDE DEF results, writes
<1>8. ASSUME NEW S, NEW s \in Seq(S), NEW t \in Seq(S), NEW i \in DOMAIN (s \o t)
      PROVE  \/ i \in DOMAIN s /\ (s \o t)[i] = s[i]
             \/ \E j \in DOMAIN t : (s \o t)[i] = t[j]
    <2>1. /\ Len(s) \in Nat /\ DOMAIN s = 1 .. Len(s)
          /\ Len(t) \in Nat /\ DOMAIN t = 1 .. Len(t)
        BY LenProperties
    <2>2. s \o t \in Seq(S) /\ Len(s \o t) = Len(s) + Len(t)
        BY ConcatProperties
    <2>3. i \in 1 .. Len(s) + Len(t)
        BY <2>2, LenProperties
    <2>4. (s \o t)[i] = IF i <= Len(s) THEN s[i] ELSE t[i - Len(s)]
        BY <2>3, ConcatProperties
    <2>5. \/ i \in 1 .. Len(s)
          \/ ~(i <= Len(s)) /\ i - Len(s) \in 1 .. Len(t)
        BY <2>1, <2>3
    <2>6. i \in 1 .. Len(s) => i <= Len(s)
        BY <2>1
    <2> QED
        BY <2>1, <2>4, <2>5, <2>6
<1>9. calls' \in Seq(Writer!Call)
    BY <1>4, <1>5, <1>6, ConcatProperties
<1>10. ASSUME NEW i \in DOMAIN calls'
       PROVE  \/ \E j \in DOMAIN done' : calls'[i] = OfResult(done'[j])
              \/ \E j \in DOMAIN written' : calls'[i] = OfWrite(written'[j])
    <2>1. /\ DOMAIN results = DOMAIN done' /\ DOMAIN writes = DOMAIN written'
        BY DEF results, writes
    <2>2. \/ i \in DOMAIN results /\ calls'[i] = results[i]
          \/ \E j \in DOMAIN writes : calls'[i] = writes[j]
        BY <1>4, <1>5, <1>6, <1>8
    <2> QED
        BY <1>7, <2>1, <2>2
<1> QED
    BY <1>9, <1>10

-----------------------------------------------------------------------------
(* TypeInv, side by side: the sender, the manager, the writer, and the rest.    *)
SourceOK ==
    /\ tm \in {"off", "read", "sending"}
    /\ runs \in 0 .. MaxRuns
    /\ senderHeader \in {NoFile, Header}
    /\ net \subseteq Manager!RxPackets
    /\ rcv \in {"up", "stopping", "down"}
    /\ faults \in 0 .. MaxFaults

LEMMA TypeInvParts ==
    /\ TypeInv <=> /\ SP!IInv /\ Manager!TypeOK /\ Writer!TypeOK
                   /\ WritesACall /\ SourceOK
    /\ TypeInv' <=> /\ SP!IInv' /\ Manager!TypeOK' /\ Writer!TypeOK'
                    /\ WritesACall' /\ SourceOK'
<1>1. TypeInv <=> /\ SP!IInv /\ Manager!TypeOK /\ Writer!TypeOK
                  /\ WritesACall /\ SourceOK
    BY SameSenderType DEF TypeInv, TypeOK, SP!IInv, SourceOK
<1>2. Sender!TypeOK' <=> SP!TypeOK'
    BY DEF Sender!TypeOK, SP!TypeOK, Sender!PacketCount, SP!PacketCount,
           Sender!RxPacket, SP!RxPacket, Sender!U16, SP!U16
<1>3. TypeInv' <=> /\ SP!IInv' /\ Manager!TypeOK' /\ Writer!TypeOK'
                   /\ WritesACall' /\ SourceOK'
    BY <1>2 DEF TypeInv, TypeOK, SP!IInv, SourceOK
<1> QED
    BY <1>1, <1>3

LEMMA ManagerUnchanged ==
    ASSUME Manager!TypeOK, UNCHANGED managerVars
    PROVE  Manager!TypeOK'
BY DEF managerVars, Manager!TypeOK, Manager!Live

LEMMA WriterUnchanged ==
    ASSUME Writer!TypeOK, WritesACall, UNCHANGED writerVars
    PROVE  Writer!TypeOK' /\ WritesACall'
BY DEF writerVars, Writer!TypeOK, WritesACall, InProgress, Current, Writer!Idle,
       Writer!Accepted

LEMMA HeaderIsTheHead ==
    /\ SubSeq(Encode(Raw), 1, Len(Header)) = Header
    /\ SubSeq(Encode(Raw), Len(Header) + 1, Len(Encode(Raw))) = Raw
    /\ Len(Encode(Raw)) >= Len(Header)
<1> DEFINE h == Len(Header)
           r == Len(Raw)
           data == Encode(Raw)
<1>1. Header \in Seq(Byte) /\ Raw \in Seq(Byte) /\ h \in Nat /\ r \in Nat
    BY TransferAssumption, LenProperties
<1>2. /\ data \in Seq(Byte) /\ Len(data) = h + r
      /\ \A i \in 1 .. h + r : data[i] = IF i <= h THEN Header[i] ELSE Raw[i - h]
    BY <1>1, ConcatProperties DEF Encode
<1>3. \A i \in 1 .. h + r : data[i] \in Byte
    BY <1>2, ElementOfSeq
<1> HIDE DEF data
<1>4. SubSeq(data, 1, h) = Header
    <2>1. /\ 1 \in Int /\ h \in Int
          /\ \A i \in 1 .. h : data[i] \in Byte
        BY <1>1, <1>3
    <2>2. /\ SubSeq(data, 1, h) \in Seq(Byte)
          /\ Len(SubSeq(data, 1, h)) = IF 1 <= h THEN h - 1 + 1 ELSE 0
          /\ \A i \in 1 .. h - 1 + 1 : SubSeq(data, 1, h)[i] = data[1 + i - 1]
        BY <2>1, SubSeqProperties
    <2>3. /\ Len(SubSeq(data, 1, h)) = Len(Header)
          /\ \A i \in 1 .. Len(Header) : SubSeq(data, 1, h)[i] = Header[i]
        BY <1>1, <1>2, <2>2
    <2> QED
        BY <1>1, <2>2, <2>3, SeqEqual
<1>5. SubSeq(data, h + 1, Len(data)) = Raw
    <2>1. /\ h + 1 \in Int /\ h + r \in Int
          /\ \A i \in (h + 1) .. (h + r) : data[i] \in Byte
        BY <1>1, <1>3
    <2>2. /\ SubSeq(data, h + 1, h + r) \in Seq(Byte)
          /\ Len(SubSeq(data, h + 1, h + r))
                = IF h + 1 <= h + r THEN h + r - (h + 1) + 1 ELSE 0
          /\ \A i \in 1 .. h + r - (h + 1) + 1 :
                SubSeq(data, h + 1, h + r)[i] = data[h + 1 + i - 1]
        BY <2>1, SubSeqProperties
    <2>3. Len(SubSeq(data, h + 1, h + r)) = Len(Raw)
        BY <1>1, <2>2
    <2>4. ASSUME NEW i \in 1 .. Len(Raw)
          PROVE  SubSeq(data, h + 1, h + r)[i] = Raw[i]
        <3>1. /\ i \in 1 .. h + r - (h + 1) + 1 /\ h + 1 + i - 1 = h + i
              /\ h + i \in 1 .. h + r /\ ~(h + i <= h) /\ h + i - h = i
            BY <1>1
        <3> QED
            BY <1>2, <2>2, <3>1
    <2> QED
        BY <1>1, <1>2, <2>2, <2>3, <2>4, SeqEqual
<1> QED
    BY <1>1, <1>2, <1>4, <1>5 DEF data

LEMMA InitTypeInv == Init => TypeInv
<1> SUFFICES ASSUME Init
             PROVE  TypeInv
    OBVIOUS
<1>1. SP!IInv
    BY SameInit, Assumptions, SP!InitIInv DEF Init
<1>2. Manager!TypeOK
    <2>1. Manager!Live = {} /\ frames \in [Manager!Live -> Manager!Entry]
        BY DEF Init, Manager!Init, Manager!NoFrames, Manager!Live
    <2>2. done \in Seq(Manager!FrameResult) /\ written \in Seq(Manager!Write)
        BY EmptySeq DEF Init, Manager!Init
    <2> QED
        BY <2>1, <2>2 DEF Init, Manager!Init, Manager!TypeOK
<1>3. Writer!TypeOK /\ WritesACall
    <2>1. calls \in Seq(Writer!Call)
        BY EmptySeq DEF Init, Writer!Init
    <2>2. /\ kind = 1 /\ opened = FALSE
          /\ files = [base \in Writer!Bases |-> [k \in Writer!Kinds |-> NoFile]]
          /\ verdict = [base \in Writer!Bases |-> "none"]
        BY DEF Init, Writer!Init
    <2>3. kind \in Writer!Kinds
        BY <2>2 DEF Writer!Kinds
    <2>4. ~InProgress
        BY <2>2, Zenon DEF InProgress
    <2> QED
        BY <2>1, <2>2, <2>3, <2>4 DEF Writer!TypeOK, WritesACall
<1>4. SourceOK
    BY TransferAssumption DEF Init, SourceOK
<1> QED
    BY <1>1, <1>2, <1>3, <1>4, TypeInvParts

LEMMA SenderSideType ==
    ASSUME TypeInv, StartSender \/ SendTheFrame \/ SenderStep
    PROVE  TypeInv'
<1>1. SP!IInv /\ Manager!TypeOK /\ Writer!TypeOK /\ WritesACall /\ SourceOK
    BY TypeInvParts
<1>2. SP!IInv'
    BY <1>1, SenderStarts, SenderTakes
<1>3. Manager!TypeOK' /\ Writer!TypeOK' /\ WritesACall'
    BY <1>1, ManagerUnchanged, WriterUnchanged DEF StartSender, SendTheFrame, SenderStep
<1>4. SourceOK'
    <2>1. CASE StartSender
        BY <1>1, <2>1, TransferAssumption DEF StartSender, SourceOK
    <2>2. CASE SendTheFrame
        BY <1>1, <2>2, FramesType, HeaderIsTheHead DEF SendTheFrame, SourceOK
    <2>3. CASE SenderStep
        <3>1. net' \subseteq Manager!RxPackets
            BY <1>1, <2>3, SameSenderSteps, PacketPutOut DEF SenderStep, SourceOK
        <3> QED
            BY <1>1, <2>3, <3>1 DEF SenderStep, SourceOK
    <2> QED
        BY <2>1, <2>2, <2>3
<1> QED
    BY <1>2, <1>3, <1>4, TypeInvParts

LEMMA ReceiverSideType ==
    ASSUME TypeInv, UNCHANGED senderVars, UNCHANGED sourceVars, UNCHANGED net,
           \/ TakePacket \/ PollTimers \/ Stop \/ Exit \/ Write \/ FileFails
           \/ Crash \/ Restart \/ Tick
    PROVE  TypeInv'
<1>1. SP!IInv /\ Manager!TypeOK /\ Writer!TypeOK /\ WritesACall /\ SourceOK
    BY TypeInvParts
<1>2. SP!IInv'
    BY <1>1, SenderUnchanged
<1>3. SourceOK'
    <2>1. rcv' = rcv \/ rcv' \in {"up", "stopping", "down"}
        BY DEF TakePacket, PollTimers, Stop, Exit, Write, FileFails, Crash, Restart, Tick
    <2>2. faults' = faults \/ (faults < MaxFaults /\ faults' = faults + 1)
        BY DEF TakePacket, PollTimers, Stop, Exit, Write, FileFails, Crash, Restart, Tick,
               Fault
    <2>3. MaxFaults \in Nat /\ faults \in 0 .. MaxFaults
        BY <1>1, TransferAssumption DEF SourceOK
    <2>4. faults' \in 0 .. MaxFaults
        BY <2>2, <2>3
    <2> QED
        BY <1>1, <2>1, <2>4 DEF SourceOK, sourceVars
<1>4. Manager!TypeOK'
    BY <1>1, PushType, TimersType, FlushType, TickType, ForgottenType, RestartType,
       ManagerUnchanged
    DEF TakePacket, PollTimers, Stop, Exit, Write, FileFails, Crash, Tick, SourceOK
<1>5. Writer!TypeOK' /\ WritesACall'
    <2>1. CASE TakePacket \/ Exit \/ Restart \/ Tick
        BY <1>1, <2>1, WriterUnchanged DEF TakePacket, Exit, Restart, Tick
    <2>2. CASE PollTimers \/ Stop
        <3>1. Writer!Idle /\ CallsMade
            BY <2>2 DEF PollTimers, Stop, Working
        <3>2. calls' \in Seq(Writer!Call)
            BY <1>4, <3>1, CallsMadeAre DEF Manager!TypeOK
        <3>3. ~InProgress /\ UNCHANGED <<kind, opened, files, verdict>>
            BY <1>1, <3>1 DEF WritesACall, CallsMade
        <3> QED
            BY <1>1, <3>2, <3>3 DEF Writer!TypeOK, WritesACall, InProgress
    <2>3. CASE Write \/ FileFails \/ Crash
        BY <1>1, <2>3, WriterType DEF Write, FileFails, Crash
    <2> QED
        BY <2>1, <2>2, <2>3
<1> QED
    BY <1>2, <1>3, <1>4, <1>5, TypeInvParts

(* The receiver's side and the clock leave the sender and the network alone.     *)
LEMMA ReceiverSideIsSeparate ==
    ASSUME \/ TakePacket \/ PollTimers \/ Stop \/ Exit \/ Write \/ FileFails
           \/ Crash \/ Restart \/ Tick
    PROVE  UNCHANGED senderVars /\ UNCHANGED sourceVars /\ UNCHANGED net
BY DEF TakePacket, PollTimers, Stop, Exit, Write, FileFails, Crash, Restart, Tick

LEMMA NextTypeInv == TypeInv /\ [Next]_vars => TypeInv'
<1> SUFFICES ASSUME TypeInv, [Next]_vars
             PROVE  TypeInv'
    OBVIOUS
<1>1. CASE StartSender \/ SendTheFrame \/ SenderStep
    BY <1>1, SenderSideType
<1>2. CASE \/ TakePacket \/ PollTimers \/ Stop \/ Exit \/ Write \/ FileFails
           \/ Crash \/ Restart \/ Tick
    BY <1>2, ReceiverSideIsSeparate, ReceiverSideType
<1>3. CASE UNCHANGED vars
    <2>1. /\ UNCHANGED senderVars /\ UNCHANGED managerVars /\ UNCHANGED writerVars
          /\ UNCHANGED <<sourceVars, net, rcv, faults>>
        BY <1>3 DEF vars
    <2>2. SourceOK'
        BY <2>1, TypeInvParts DEF SourceOK, sourceVars
    <2> QED
        BY <2>1, <2>2, TypeInvParts, SenderUnchanged, ManagerUnchanged, WriterUnchanged
<1> QED
    BY <1>1, <1>2, <1>3 DEF Next

LEMMA Typed == Spec => []TypeInv
BY InitTypeInv, NextTypeInv, PTL DEF Spec

(* The sender, the network, the manager, the calls and the files keep their     *)
(* types through runs, crashes and restarts: in particular only packets of the  *)
(* frame are ever on the network, and only a call that was accepted is written. *)
THEOREM TypeCorrect == Spec => []TypeOK
<1>1. TypeInv => TypeOK
    BY DEF TypeInv
<1> QED
    BY <1>1, Typed, PTL

-----------------------------------------------------------------------------
(* FilesAgree: WriterInv is kept by the writer's steps.                         *)
LEMMA OnToOutcome ==
    ASSUME Writer!TypeOK, NEW content, NEW outcome, OnTo(content, outcome)
    PROVE  /\ Current.base \in Writer!Bases /\ kind \in Writer!Kinds
           /\ files'[Current.base][kind] = content
           /\ \A k \in Writer!Kinds :
                 k # kind => files'[Current.base][k] = files[Current.base][k]
           /\ verdict'[Current.base] = outcome
           /\ \A base \in Writer!Bases :
                 base # Current.base =>
                     files'[base] = files[base] /\ verdict'[base] = verdict[base]
           /\ kind = 3 => ~InProgress' /\ calls' = Tail(calls)
           /\ kind # 3 => InProgress' /\ calls' = calls /\ Current' = Current
                                      /\ kind' = kind + 1
<1>1. CASE kind = 3
    <2>1. kind' = 1 /\ opened' = FALSE /\ calls' = Tail(calls)
        BY <1>1 DEF OnTo, Writer!NextFile
    <2>2. ~InProgress'
        BY <2>1, Zenon DEF InProgress
    <2> QED
        BY <1>1, <2>1, <2>2, WritingType, CurrentType DEF OnTo, Writer!TypeOK
<1>2. CASE kind # 3
    <2>1. kind' = kind + 1 /\ calls' = calls
        BY <1>2 DEF OnTo, Writer!NextFile
    <2>2. kind \in Writer!Kinds /\ kind' # 1
        BY <2>1 DEF Writer!TypeOK, Writer!Kinds
    <2>3. InProgress' /\ Current' = Current
        BY <2>1, <2>2, Zenon DEF InProgress, Current
    <2> QED
        BY <1>2, <2>1, <2>2, <2>3, WritingType, CurrentType DEF OnTo
<1> QED
    BY <1>1, <1>2

LEMMA OthersStay ==
    ASSUME WriterInv, Current.base \in Writer!Bases,
           NEW b \in Writer!Bases, b # Current.base,
           files'[b] = files[b], verdict'[b] = verdict[b]
    PROVE  /\ verdict'[b] # "writing"
           /\ verdict'[b] \in {"partly", "whole"} =>
                 /\ files'[b][1] = files'[b][2] \o files'[b][3]
                 /\ Len(files'[b][2]) = Len(Header)
<1>1. verdict[b] # "writing"
    BY Zenon DEF WriterInv, OneIsWriting
<1>2. verdict[b] \in {"partly", "whole"} =>
          files[b][1] = files[b][2] \o files[b][3] /\ Len(files[b][2]) = Len(Header)
    BY DEF WriterInv, FilesAgree, Writer!FilesAgree
<1> QED
    BY <1>1, <1>2

(* A call that ends, or one of its files that does not.                        *)
LEMMA CloseKeepsWriterInv ==
    ASSUME Writer!TypeOK, WritesACall, WriterInv, Writer!WriteAndClose
    PROVE  WriterInv'
<1> DEFINE base    == Current.base
           content == Writer!Content(Current.data)
           sofar   == verdict[base]
           outcome == IF kind < 3 \/ sofar = "torn" THEN sofar
                      ELSE IF Current.whole THEN "whole" ELSE "partly"
<1>1. InProgress /\ ~Writer!Idle /\ Writer!Accepted(Current)
    BY DEF Writer!WriteAndClose, InProgress, WritesACall
<1>2. sofar \in {"writing", "torn"}
    BY <1>1 DEF WriterInv, NotKnownYet
<1>3. OnTo(content[kind], outcome)
    BY CloseIsOnTo
<1>4. \A k \in Writer!Kinds :
          k < kind /\ sofar = "writing" => files[base][k] = content[k]
    BY <1>1 DEF WriterInv, ClosedAreWritten
<1>5. /\ base \in Writer!Bases /\ kind \in Writer!Kinds
      /\ files'[base][kind] = content[kind]
      /\ \A k \in Writer!Kinds : k # kind => files'[base][k] = files[base][k]
      /\ verdict'[base] = outcome
      /\ \A b \in Writer!Bases :
            b # base => files'[b] = files[b] /\ verdict'[b] = verdict[b]
      /\ kind = 3 => ~InProgress'
      /\ kind # 3 => InProgress' /\ Current' = Current /\ kind' = kind + 1
    BY <1>3, OnToOutcome
<1>6. /\ content[1] = content[2] \o content[3]
      /\ Len(content[2]) = Len(Header)
    BY <1>1, CurrentType, ContentIsTheFrame DEF Writer!Accepted
<1>7. \A b \in Writer!Bases : b # base =>
          /\ verdict'[b] # "writing"
          /\ verdict'[b] \in {"partly", "whole"} =>
                /\ files'[b][1] = files'[b][2] \o files'[b][3]
                /\ Len(files'[b][2]) = Len(Header)
    BY <1>5, OthersStay
<1>8. /\ kind \in {1, 2, 3} /\ Writer!Kinds = {1, 2, 3}
    BY <1>5 DEF Writer!Kinds
<1>9. CASE kind # 3
    <2>1. outcome = sofar
        BY <1>8, <1>9
    <2>2. InProgress' /\ Current'.base = base /\ Current'.data = Current.data
        BY <1>5, <1>9
    <2> HIDE DEF outcome
    <2>3. OneIsWriting' /\ NotKnownYet'
        BY <1>2, <1>5, <1>7, <2>1, <2>2 DEF OneIsWriting, NotKnownYet
    <2>4. ClosedAreWritten'
        <3>1. \A k \in Writer!Kinds :
                  k < kind' /\ sofar = "writing" => files'[base][k] = content[k]
            BY <1>4, <1>5, <1>8, <1>9
        <3> QED
            BY <1>5, <2>1, <2>2, <3>1 DEF ClosedAreWritten
    <2>5. FilesAgree'
        BY <1>2, <1>5, <1>7, <2>1 DEF FilesAgree, Writer!FilesAgree
    <2> QED
        BY <2>3, <2>4, <2>5 DEF WriterInv
<1>10. CASE kind = 3
    <2>1. ~InProgress' /\ outcome # "writing"
        BY <1>2, <1>5, <1>10
    <2>2. outcome # "torn" => sofar = "writing"
        BY <1>2
    <2> HIDE DEF outcome
    <2>3. OneIsWriting' /\ NotKnownYet' /\ ClosedAreWritten'
        BY <1>5, <1>7, <2>1 DEF OneIsWriting, NotKnownYet, ClosedAreWritten
    <2>4. sofar = "writing" =>
              /\ files'[base][1] = content[1]
              /\ files'[base][2] = content[2]
              /\ files'[base][3] = content[3]
        BY <1>4, <1>5, <1>8, <1>10
    <2>5. FilesAgree'
        BY <1>5, <1>6, <1>7, <2>2, <2>4 DEF FilesAgree, Writer!FilesAgree
    <2> QED
        BY <2>3, <2>5 DEF WriterInv
<1> QED
    BY <1>9, <1>10

LEMMA FailureKeepsWriterInv ==
    ASSUME Writer!TypeOK, WritesACall, WriterInv, Writer!OpenFails \/ Writer!WriteFails
    PROVE  WriterInv'
<1> DEFINE base == Current.base
<1>1. PICK content : OnTo(content, "torn")
    BY FailureIsOnTo
<1>2. /\ base \in Writer!Bases /\ verdict'[base] = "torn"
      /\ \A b \in Writer!Bases :
            b # base => files'[b] = files[b] /\ verdict'[b] = verdict[b]
      /\ InProgress' => Current'.base = base
    BY <1>1, OnToOutcome
<1>3. \A b \in Writer!Bases : b # base =>
          /\ verdict'[b] # "writing"
          /\ verdict'[b] \in {"partly", "whole"} =>
                /\ files'[b][1] = files'[b][2] \o files'[b][3]
                /\ Len(files'[b][2]) = Len(Header)
    BY <1>2, OthersStay
<1>4. OneIsWriting' /\ NotKnownYet' /\ ClosedAreWritten'
    BY <1>2, <1>3 DEF OneIsWriting, NotKnownYet, ClosedAreWritten
<1>5. FilesAgree'
    BY <1>2, <1>3 DEF FilesAgree, Writer!FilesAgree
<1> QED
    BY <1>4, <1>5 DEF WriterInv

LEMMA OpenKeepsWriterInv ==
    ASSUME Writer!TypeOK, WritesACall, WriterInv, Writer!Open
    PROVE  WriterInv'
<1> DEFINE base == Current.base
           outcome == IF kind = 1 THEN "writing" ELSE verdict[base]
<1>1. /\ InProgress' /\ Current' = Current /\ kind' = kind
      /\ base \in Writer!Bases /\ kind \in Writer!Kinds
      /\ \A k \in Writer!Kinds : k # kind => files'[base][k] = files[base][k]
      /\ verdict'[base] = outcome
      /\ \A b \in Writer!Bases :
            b # base => files'[b] = files[b] /\ verdict'[b] = verdict[b]
    BY OpenType, CurrentType DEF Writer!TypeOK
<1>2. kind # 1 => InProgress
    BY Zenon DEF InProgress
<1>3. outcome \in {"writing", "torn"}
    BY <1>2 DEF WriterInv, NotKnownYet
<1>4. \A b \in Writer!Bases : b # base =>
          /\ verdict'[b] # "writing"
          /\ verdict'[b] \in {"partly", "whole"} =>
                /\ files'[b][1] = files'[b][2] \o files'[b][3]
                /\ Len(files'[b][2]) = Len(Header)
    BY <1>1, OthersStay
<1>5. ClosedAreWritten'
    <2>1. CASE kind = 1
        <3>1. \A k \in Writer!Kinds : ~(k < kind')
            BY <1>1, <2>1 DEF Writer!Kinds
        <3> QED
            BY <3>1 DEF ClosedAreWritten
    <2>2. CASE kind # 1
        <3>1. \A k \in Writer!Kinds : k < kind => k # kind
            BY <1>1 DEF Writer!Kinds
        <3> QED
            BY <1>1, <1>2, <2>2, <3>1 DEF WriterInv, ClosedAreWritten
    <2> QED
        BY <2>1, <2>2
<1> HIDE DEF outcome
<1>6. OneIsWriting' /\ NotKnownYet'
    BY <1>1, <1>3, <1>4 DEF OneIsWriting, NotKnownYet
<1>7. FilesAgree'
    BY <1>1, <1>3, <1>4 DEF FilesAgree, Writer!FilesAgree
<1> QED
    BY <1>5, <1>6, <1>7 DEF WriterInv

(* Between two calls, and when the process is gone, nothing is being written.   *)
LEMMA NothingInProgress ==
    ASSUME WriterInv, ~InProgress, ~InProgress', files' = files, verdict' = verdict
    PROVE  WriterInv'
BY DEF WriterInv, OneIsWriting, NotKnownYet, ClosedAreWritten, FilesAgree,
       Writer!FilesAgree

LEMMA DiesKeepsWriterInv ==
    ASSUME Writer!TypeOK, WritesACall, WriterInv, Writer!Dies
    PROVE  WriterInv'
<1>1. ~InProgress'
    BY DiesType
<1>2. CASE opened
    <2>1. InProgress /\ ~Writer!Idle /\ Writer!Accepted(Current)
        BY <1>2 DEF WritesACall, InProgress
    <2>2. Writer!Content(Current.data)[kind] \in Seq(Byte)
        BY <2>1, CurrentType, ContentIsTheFrame DEF Writer!Accepted, Writer!TypeOK
    <2>3. PICK some \in Writer!Prefixes(Writer!Content(Current.data)[kind]) :
              Writer!Writing(some, "torn")
        BY <1>2 DEF Writer!Dies, Current
    <2>4. some \in Seq(Byte)
        BY <2>2, PrefixType
    <2>5. /\ Current.base \in Writer!Bases /\ verdict'[Current.base] = "torn"
          /\ \A b \in Writer!Bases :
                b # Current.base => files'[b] = files[b] /\ verdict'[b] = verdict[b]
        BY <2>1, <2>3, <2>4, CurrentType, WritingType
    <2>6. \A b \in Writer!Bases : b # Current.base =>
              /\ verdict'[b] # "writing"
              /\ verdict'[b] \in {"partly", "whole"} =>
                    /\ files'[b][1] = files'[b][2] \o files'[b][3]
                    /\ Len(files'[b][2]) = Len(Header)
        BY <2>5, OthersStay
    <2> QED
        BY <1>1, <2>5, <2>6
        DEF WriterInv, OneIsWriting, NotKnownYet, ClosedAreWritten, FilesAgree,
            Writer!FilesAgree
<1>3. CASE ~opened
    <2>1. /\ files' = files
          /\ verdict' = [base \in Writer!Bases |->
                           IF verdict[base] = "writing" THEN "torn" ELSE verdict[base]]
        BY <1>3 DEF Writer!Dies
    <2> QED
        BY <1>1, <2>1
        DEF WriterInv, OneIsWriting, NotKnownYet, ClosedAreWritten, FilesAgree,
            Writer!FilesAgree
<1> QED
    BY <1>2, <1>3

LEMMA NextWriterInv == TypeInv /\ WriterInv /\ [Next]_vars => WriterInv'
<1> SUFFICES ASSUME TypeInv, WriterInv, [Next]_vars
             PROVE  WriterInv'
    OBVIOUS
<1>1. Writer!TypeOK /\ WritesACall
    BY TypeInvParts
<1>2. CASE UNCHANGED writerVars
    BY <1>2
    DEF writerVars, WriterInv, OneIsWriting, NotKnownYet, ClosedAreWritten, FilesAgree,
        Writer!FilesAgree, InProgress, Current
<1>3. CASE PollTimers \/ Stop
    <2>1. Writer!Idle /\ UNCHANGED <<kind, opened, files, verdict>>
        BY <1>3 DEF PollTimers, Stop, Working, CallsMade
    <2>2. ~InProgress /\ ~InProgress'
        BY <1>1, <2>1 DEF WritesACall, InProgress
    <2> QED
        BY <2>1, <2>2, NothingInProgress
<1>4. CASE Write
    <2>1. CASE Writer!Refuse
        <3>1. ~InProgress /\ UNCHANGED <<kind, opened, files, verdict>>
            BY <1>1, <2>1 DEF Writer!Refuse, WritesACall, Current
        <3>2. ~InProgress'
            BY <3>1 DEF InProgress
        <3> QED
            BY <3>1, <3>2, NothingInProgress
    <2> QED
        BY <1>1, <1>4, <2>1, OpenKeepsWriterInv, CloseKeepsWriterInv DEF Write
<1>5. CASE FileFails
    BY <1>1, <1>5, FailureKeepsWriterInv DEF FileFails
<1>6. CASE Crash
    BY <1>1, <1>6, DiesKeepsWriterInv DEF Crash
<1> QED
    BY <1>2, <1>3, <1>4, <1>5, <1>6
    DEF Next, vars, StartSender, SendTheFrame, SenderStep, TakePacket, Exit, Restart, Tick

LEMMA InitWriterInv == Init => WriterInv
<1> SUFFICES ASSUME Init
             PROVE  WriterInv
    OBVIOUS
<1>1. kind = 1 /\ opened = FALSE /\ \A base \in Writer!Bases : verdict[base] = "none"
    BY DEF Init, Writer!Init
<1>2. ~InProgress
    BY <1>1, Zenon DEF InProgress
<1> QED
    BY <1>1, <1>2
    DEF WriterInv, OneIsWriting, NotKnownYet, ClosedAreWritten, FilesAgree,
        Writer!FilesAgree

LEMMA Written == Spec => []WriterInv
BY InitWriterInv, NextWriterInv, Typed, PTL DEF Spec

(* After a call of write_frame_to_file that went through, the frame file is the *)
(* header file and the raw file put together, whatever crash or failing file    *)
(* tore the three before.                                                   *)
THEOREM FilesTellOfOneFrame == Spec => []FilesAgree
<1>1. WriterInv => FilesAgree
    BY DEF WriterInv
<1> QED
    BY <1>1, Written, PTL

-----------------------------------------------------------------------------
(* What becomes of the frames held, and what is handed over of them.            *)
LEMMA HeldFrames ==
    ASSUME TypeInv, [Next]_vars, ~TakePacket
    PROVE  /\ Manager!Live' \subseteq Manager!Live
           /\ \A id \in Manager!Live' : frames'[id].reassembler = frames[id].reassembler
<1>1. MP!TypeOK /\ MP!Live = Manager!Live /\ MP!Live' = Manager!Live'
    BY TypeInvParts, SameType DEF MP!Live, Manager!Live
<1>2. ASSUME NEW S, frames' = MP!Without(S)
      PROVE  /\ Manager!Live' \subseteq Manager!Live
             /\ \A id \in Manager!Live' : frames'[id].reassembler = frames[id].reassembler
    BY <1>1, <1>2, Assumptions, MP!RestrictFrames
<1>3. CASE PollTimers
    <2>1. MP!PollTimers
        BY <1>3, SameTimers DEF PollTimers
    <2> QED
        BY <1>2, <2>1 DEF MP!PollTimers, MP!EmitFrames
<1>4. CASE Stop
    <2>1. MP!FlushAll
        BY <1>4, SameFlush DEF Stop
    <2> QED
        BY <1>2, <2>1 DEF MP!FlushAll, MP!WriteFrames
<1>5. CASE Tick
    <2>1. MP!Tick
        BY <1>5, SameTick DEF Tick
    <2> QED
        BY <1>1, <2>1, Assumptions, MP!TickFrames
<1>6. CASE Restart
    BY <1>6, RestartType
<1>7. CASE UNCHANGED frames
    BY <1>7 DEF Manager!Live
<1> QED
    BY <1>3, <1>4, <1>5, <1>6, <1>7
    DEF Next, vars, managerVars, StartSender, SendTheFrame, SenderStep, Exit, Write,
        FileFails, Crash

LEMMA TakenPacket ==
    ASSUME TypeInv, TakePacket
    PROVE  \E pkt \in net :
              /\ pkt \in MP!RxPackets /\ pkt \in MP!RxPacket
              /\ MP!PushPacket(pkt) /\ MP!TypeOK
              /\ pkt.frame_id = 1
              /\ pkt.packet_count = MP!PacketCount(Encode(Raw))
              /\ pkt = Manager!PacketAt(1, Encode(Raw), pkt.packet_id)
<1>1. PICK pkt \in net : Manager!PushPacket(pkt)
    BY DEF TakePacket
<1>2. pkt \in Manager!RxPackets /\ MP!TypeOK
    BY <1>1, TypeInvParts, SameType DEF SourceOK
<1>3. pkt \in MP!RxPackets /\ MP!PushPacket(pkt)
    BY <1>1, <1>2, SamePush, SameWire
<1>4. pkt \in MP!RxPacket
    BY <1>3, Assumptions, MP!PacketType
<1>5. PICK n \in Nat : pkt = Manager!PacketAt(1, Encode(Raw), n)
    BY <1>2, PacketsOfTheFrame
<1>6. /\ pkt.packet_id = n /\ pkt.frame_id = 1
      /\ pkt.packet_count = Manager!PacketCount(Encode(Raw))
    BY <1>5 DEF Manager!PacketAt
<1> QED
    BY <1>1, <1>2, <1>3, <1>4, <1>5, <1>6, SameWire

(* onFrameDone gets the frames held, as they are.                              *)
LEMMA ResultsAreHeld ==
    ASSUME PollTimers
    PROVE  /\ written' = <<>>
           /\ \A i \in DOMAIN done' : \E id \in Manager!Live :
                 /\ done'[i].complete = MP!AllReceived(frames[id])
                 /\ done'[i].frame_data = MP!FrameData(frames[id].reassembler)
<1>1. MP!PollTimers
    BY SameTimers DEF PollTimers
<1>2. PICK S, partials : S \subseteq Manager!Live /\ MP!EmitFrames(S, partials)
    <2>1. MP!Due \subseteq Manager!Live
        BY DEF MP!Due, MP!Live, Manager!Live
    <2> QED
        BY <1>1, <2>1 DEF MP!PollTimers
<1>3. PICK ids \in [1 .. MP!Cardinality(S) -> S] :
          done' = [i \in DOMAIN ids |->
                     MP!ResultOf(frames[ids[i]],
                                 IF ids[i] \in partials THEN "PARTIAL" ELSE "COMPLETE")]
    BY <1>2 DEF MP!EmitFrames
<1>4. ASSUME NEW i \in DOMAIN done'
      PROVE  \E id \in Manager!Live :
                 /\ done'[i].complete = MP!AllReceived(frames[id])
                 /\ done'[i].frame_data = MP!FrameData(frames[id].reassembler)
    <2>1. ids[i] \in Manager!Live
        BY <1>2, <1>3
    <2> QED
        BY <1>3, <2>1 DEF MP!ResultOf
<1> QED
    BY <1>2, <1>4 DEF MP!EmitFrames

LEMMA WritesAreHeld ==
    ASSUME Stop
    PROVE  /\ done' = <<>>
           /\ \A i \in DOMAIN written' :
                 /\ written'[i].frame_id \in Manager!Live
                 /\ written'[i].data
                       = MP!FrameData(frames[written'[i].frame_id].reassembler)
<1>1. MP!FlushAll
    BY SameFlush DEF Stop
<1>2. MP!Nonempty \subseteq Manager!Live
    BY DEF MP!Nonempty, MP!Live, Manager!Live
<1>3. PICK ids \in [1 .. MP!Cardinality(MP!Nonempty) -> MP!Nonempty] :
          written' = [i \in DOMAIN ids |->
                        [frame_id   |-> ids[i],
                         data       |-> MP!FrameData(frames[ids[i]].reassembler),
                         is_partial |-> ids[i] \in MP!Nonempty]]
    BY <1>1 DEF MP!FlushAll, MP!WriteFrames
<1>4. ASSUME NEW i \in DOMAIN written'
      PROVE  /\ written'[i].frame_id \in Manager!Live
             /\ written'[i].data
                   = MP!FrameData(frames[written'[i].frame_id].reassembler)
    <2>1. ids[i] \in Manager!Live
        BY <1>2, <1>3
    <2> QED
        BY <1>3, <2>1
<1> QED
    BY <1>1, <1>4 DEF MP!FlushAll, MP!WriteFrames

-----------------------------------------------------------------------------
(* CompleteMeansAllSent: SentInv is kept by every step.                         *)
HeldWasSent(fr, out) ==
    /\ MP!CountIsBits(fr)
    /\ fr.expected_packet_count = MP!PacketCount(Encode(Raw))
    /\ \A n \in fr.packet_received : Manager!PacketAt(1, Encode(Raw), n) \in out

LEMMA KeptMeansHeld ==
    /\ KeptWasSent <=> \A id \in Manager!Live : HeldWasSent(frames[id].reassembler, net)
    /\ KeptWasSent' <=>
          \A id \in Manager!Live' : HeldWasSent(frames'[id].reassembler, net')
BY SameWire DEF KeptWasSent, HeldWasSent

LEMMA StartHoldsNothing ==
    LET fr == MP!StartNewFrame(MP!NewReassembler, 1, MP!PacketCount(Encode(Raw)))
    IN  fr \in MP!Reassembler /\ \A out : HeldWasSent(fr, out)
<1>1. MP!PacketCount(Encode(Raw)) \in MP!U16 /\ MP!NewReassembler \in MP!Reassembler
    BY FramesType, Assumptions, MP!CountBounds, MP!NewReassemblerType
<1> DEFINE fr == MP!StartNewFrame(MP!NewReassembler, 1, MP!PacketCount(Encode(Raw)))
<1>2. fr \in MP!Reassembler /\ MP!CountIsBits(fr)
    BY <1>1, Assumptions, MP!StartNewFrameType, MP!StartCountIsBits
<1>3. fr.expected_packet_count = MP!PacketCount(Encode(Raw)) /\ fr.packet_received = {}
    BY DEF MP!StartNewFrame, MP!NewReassembler
<1> HIDE DEF fr
<1>4. fr \in MP!Reassembler /\ \A out : HeldWasSent(fr, out)
    BY <1>2, <1>3 DEF HeldWasSent
<1> QED
    BY <1>4 DEF fr

LEMMA PushHoldsSent ==
    ASSUME NEW fr \in MP!Reassembler, NEW out, HeldWasSent(fr, out),
           NEW pkt \in out, pkt \in MP!RxPacket,
           pkt = Manager!PacketAt(1, Encode(Raw), pkt.packet_id)
    PROVE  HeldWasSent(MP!PushToFrame(fr, pkt), out)
<1> DEFINE new == MP!PushToFrame(fr, pkt)
<1>1. MP!CountIsBits(new)
    BY Assumptions, MP!PushCountIsBits DEF HeldWasSent
<1>2. /\ new.expected_packet_count = fr.expected_packet_count
      /\ new.packet_received \subseteq fr.packet_received \cup {pkt.packet_id}
    BY DEF MP!PushToFrame, MP!Stored, MP!Reassembler
<1> HIDE DEF new
<1>3. HeldWasSent(new, out)
    BY <1>1, <1>2 DEF HeldWasSent
<1> QED
    BY <1>3 DEF new

LEMMA NextKeptWasSent == TypeInv /\ KeptWasSent /\ [Next]_vars => KeptWasSent'
<1> SUFFICES ASSUME TypeInv, KeptWasSent, [Next]_vars, NEW id \in Manager!Live'
             PROVE  HeldWasSent(frames'[id].reassembler, net')
    BY KeptMeansHeld
<1>1. CASE ~TakePacket
    <2>1. net \subseteq net'
        BY DEF Next, vars, StartSender, SendTheFrame, SenderStep, TakePacket, PollTimers,
               Stop, Exit, Write, FileFails, Crash, Restart, Tick
    <2>2. id \in Manager!Live /\ frames'[id].reassembler = frames[id].reassembler
        BY <1>1, HeldFrames
    <2>3. HeldWasSent(frames[id].reassembler, net)
        BY <2>2, KeptMeansHeld
    <2> QED
        BY <2>1, <2>2, <2>3 DEF HeldWasSent
<1>2. CASE TakePacket
    <2>1. PICK pkt \in net :
              /\ pkt \in MP!RxPackets /\ pkt \in MP!RxPacket
              /\ MP!PushPacket(pkt) /\ MP!TypeOK
              /\ pkt.frame_id = 1
              /\ pkt.packet_count = MP!PacketCount(Encode(Raw))
              /\ pkt = Manager!PacketAt(1, Encode(Raw), pkt.packet_id)
        BY <1>2, TakenPacket
    <2>2. net' = net /\ MP!Live = Manager!Live /\ MP!Live' = Manager!Live'
        BY <1>2 DEF TakePacket, MP!Live, Manager!Live
    <2>3. CASE id # 1
        <3>1. id \in MP!Live /\ frames'[id] = frames[id]
            BY <2>1, <2>2, <2>3, Assumptions, MP!PushPacketFrames
        <3> QED
            BY <2>2, <3>1, KeptMeansHeld
    <2>4. CASE id = 1
        <3> DEFINE old == IF 1 \in MP!Live THEN frames[1].reassembler
                          ELSE MP!StartNewFrame(MP!NewReassembler, 1,
                                                MP!PacketCount(Encode(Raw)))
        <3>1. old \in MP!Reassembler /\ frames'[1].reassembler = MP!PushToFrame(old, pkt)
            BY <2>1, Assumptions, MP!PushedReassembler
        <3>2. HeldWasSent(old, net)
            BY <2>2, KeptMeansHeld, StartHoldsNothing
        <3> HIDE DEF old
        <3> QED
            BY <2>1, <2>2, <2>4, <3>1, <3>2, PushHoldsSent
    <2> QED
        BY <2>3, <2>4
<1> QED
    BY <1>1, <1>2

LEMMA AllBitsMeansAllSent ==
    ASSUME TypeInv, KeptWasSent, NEW id \in Manager!Live, MP!AllReceived(frames[id])
    PROVE  net = Manager!RxPackets
<1> DEFINE fr == frames[id].reassembler
<1>1. HeldWasSent(fr, net) /\ net \subseteq Manager!RxPackets
    BY KeptMeansHeld, TypeInvParts DEF SourceOK
<1>2. fr \in MP!Reassembler
    BY TypeInvParts, SameType DEF MP!TypeOK, MP!Entry, MP!Live, Manager!Live
<1>3. fr.packet_received = 0 .. (fr.expected_packet_count - 1)
    BY <1>1, <1>2, Assumptions, MP!FullCountMeansAllBits DEF MP!AllReceived, HeldWasSent
<1>4. ASSUME NEW pkt \in Manager!RxPackets
      PROVE  pkt \in net
    <2>1. PICK n \in Nat : /\ n < Manager!PacketCount(Encode(Raw))
                           /\ pkt = Manager!PacketAt(1, Encode(Raw), n)
        BY PacketsOfTheFrame
    <2>2. MP!PacketCount(Encode(Raw)) \in Nat
        BY FramesType, Assumptions, MP!CountBounds DEF MP!U16
    <2>3. n \in 0 .. (MP!PacketCount(Encode(Raw)) - 1)
        BY <2>1, <2>2, SameWire
    <2> QED
        BY <1>1, <1>3, <2>1, <2>3 DEF HeldWasSent
<1> QED
    BY <1>1, <1>4

LEMMA NextCompleteMeansAllSent ==
    TypeInv /\ SentInv /\ [Next]_vars => CompleteMeansAllSent'
<1> SUFFICES ASSUME TypeInv, SentInv, [Next]_vars, TypeInv'
             PROVE  CompleteMeansAllSent'
    BY NextTypeInv
<1>1. CASE PollTimers
    <2>1. Manager!RxPackets' = Manager!RxPackets /\ net' = net
        BY <1>1 DEF PollTimers
    <2>2. ASSUME NEW i \in DOMAIN done', done'[i].complete
          PROVE  net = Manager!RxPackets
        BY <1>1, <2>2, ResultsAreHeld, AllBitsMeansAllSent DEF SentInv
    <2> QED
        BY <2>1, <2>2 DEF CompleteMeansAllSent
<1>2. CASE done' = <<>>
    BY <1>2 DEF CompleteMeansAllSent
<1>3. CASE UNCHANGED done
    <2>1. net \subseteq net' /\ net' \subseteq Manager!RxPackets
        <3>1. net' \subseteq Manager!RxPackets
            BY TypeInvParts DEF SourceOK
        <3>2. net \subseteq net'
            BY DEF Next, vars, StartSender, SendTheFrame, SenderStep, TakePacket,
                   PollTimers, Stop, Exit, Write, FileFails, Crash, Restart, Tick
        <3> QED
            BY <3>1, <3>2
    <2> QED
        BY <1>3, <2>1 DEF SentInv, CompleteMeansAllSent
<1>4. CASE Stop
    BY <1>2, <1>4, WritesAreHeld
<1> QED
    BY <1>1, <1>2, <1>3, <1>4
    DEF Next, vars, managerVars, StartSender, SendTheFrame, SenderStep, TakePacket,
        Manager!PushPacket, Exit, Write, FileFails, Crash, Restart, Tick, Manager!Tick

(* The receiver never calls a frame complete of which a packet never went out,   *)
(* whatever duplicates and packets of earlier runs arrive instead: also not when *)
(* the frame was given up in the middle.                                      *)
THEOREM CompleteWasSent == Spec => []CompleteMeansAllSent
<1>1. Init => SentInv
    BY DEF Init, Manager!Init, Manager!NoFrames, Manager!Live, SentInv, KeptWasSent,
           CompleteMeansAllSent
<1>2. SentInv /\ TypeInv /\ [Next]_vars => SentInv'
    BY NextKeptWasSent, NextCompleteMeansAllSent DEF SentInv
<1>3. SentInv => CompleteMeansAllSent
    BY DEF SentInv
<1> QED
    BY <1>1, <1>2, <1>3, Typed, PTL DEF Spec

-----------------------------------------------------------------------------
(* FileComesThrough: FileInv is kept by every step, first what the receiver     *)
(* holds and the header file, ...                                            *)
LEMMA NextFramesCarry ==
    ASSUME MP!SameStride, TypeInv, MP!FramesCarry, [Next]_vars
    PROVE  MP!FramesCarry'
<1>1. CASE ~TakePacket
    <2>1. MP!Live' \subseteq MP!Live
          /\ \A id \in MP!Live' : frames'[id].reassembler = frames[id].reassembler
        BY <1>1, HeldFrames DEF MP!Live, Manager!Live
    <2> QED
        BY <2>1, Assumptions, MP!OthersKeepCarry
<1>2. CASE TakePacket
    <2>1. MP!DistinctIds
        BY DEF MP!DistinctIds, Frames
    <2> QED
        BY <1>2, <2>1, TakenPacket, Assumptions, MP!PushKeepsCarry
<1> QED
    BY <1>1, <1>2

LEMMA NextHeaderComesFirst ==
    ASSUME TypeInv, HeaderComesFirst, [Next]_vars
    PROVE  /\ HeaderComesFirst'
           /\ senderHeader = Header => senderHeader' = Header
<1>1. CASE StartSender
    <2>1. /\ tm' # "sending" /\ Manager!Live' = Manager!Live
          /\ net' = net /\ senderHeader' = senderHeader
        BY <1>1 DEF StartSender, managerVars, Manager!Live
    <2> QED
        BY <2>1 DEF HeaderComesFirst
<1>2. CASE SendTheFrame
    <2>1. senderHeader' = Header
        BY <1>2, FramesType, HeaderIsTheHead DEF SendTheFrame
    <2> QED
        BY <2>1 DEF HeaderComesFirst
<1>3. CASE SenderStep
    <2>1. senderHeader = Header /\ senderHeader' = senderHeader
        BY <1>3 DEF SenderStep, HeaderComesFirst
    <2> QED
        BY <2>1 DEF HeaderComesFirst
<1>4. CASE TakePacket
    <2>1. senderHeader = Header /\ senderHeader' = senderHeader
        BY <1>4 DEF TakePacket, sourceVars, HeaderComesFirst
    <2> QED
        BY <2>1 DEF HeaderComesFirst
<1>5. CASE ~(StartSender \/ SendTheFrame \/ SenderStep \/ TakePacket)
    <2>1. tm' = tm /\ net' = net /\ senderHeader' = senderHeader
        BY <1>5
        DEF Next, vars, sourceVars, PollTimers, Stop, Exit, Write, FileFails, Crash,
            Restart, Tick
    <2>2. Manager!Live' \subseteq Manager!Live
        BY <1>5, HeldFrames
    <2> QED
        BY <2>1, <2>2 DEF HeaderComesFirst
<1> QED
    BY <1>1, <1>2, <1>3, <1>4, <1>5

(* ... then what is handed over, ...                                         *)
LEMMA WholeFrameIsTheOneSent ==
    ASSUME MP!CountsFit, TypeInv, MP!FramesCarry, HeaderComesFirst,
           NEW id \in Manager!Live, MP!AllReceived(frames[id])
    PROVE  /\ MP!FrameData(frames[id].reassembler) = Encode(Raw)
           /\ senderHeader = Header
<1> DEFINE fr == frames[id].reassembler
<1>1. fr \in MP!Reassembler
    BY TypeInvParts, SameType DEF MP!TypeOK, MP!Entry, MP!Live, Manager!Live
<1>2. PICK f \in Frames : MP!Carries(fr, f, MP!Zeros)
    BY DEF MP!FramesCarry, MP!Live, Manager!Live
<1>3. fr.received_packets_count = fr.expected_packet_count
    BY DEF MP!AllReceived
<1>4. f.data = Encode(Raw) /\ MP!Needed(Len(f.data)) < CountMod
    BY FramesType DEF MP!CountsFit
<1>5. MP!FrameData(fr) = f.data
    BY <1>1, <1>2, <1>3, <1>4, Assumptions, MP!FullFrameIsIntact
<1>6. senderHeader = Header
    BY DEF HeaderComesFirst
<1> QED
    BY <1>4, <1>5, <1>6

LEMMA CallsMadeWhole ==
    ASSUME MP!CountsFit, TypeInv, TypeInv', MP!FramesCarry, HeaderComesFirst,
           senderHeader' = senderHeader, PollTimers \/ Stop
    PROVE  WholeIsTheFrame'
<1> SUFFICES ASSUME NEW i \in DOMAIN calls', calls'[i].whole
             PROVE  calls'[i].data = Encode(Raw) /\ senderHeader = Header
    BY DEF WholeIsTheFrame, Encode
<1>1. CallsMade /\ done' \in Seq(Manager!FrameResult) /\ written' \in Seq(Manager!Write)
    BY TypeInvParts DEF PollTimers, Stop, Manager!TypeOK
<1>2. \/ \E j \in DOMAIN done' : calls'[i] = OfResult(done'[j])
      \/ \E j \in DOMAIN written' : calls'[i] = OfWrite(written'[j])
    BY <1>1, CallsMadeAre
<1>3. ASSUME NEW j \in DOMAIN done', calls'[i] = OfResult(done'[j])
      PROVE  calls'[i].data = Encode(Raw) /\ senderHeader = Header
    <2>1. done'[j].complete /\ calls'[i].data = done'[j].frame_data
        BY <1>3 DEF OfResult
    <2>2. PollTimers
        BY <1>3, WritesAreHeld
    <2>3. PICK id \in Manager!Live :
              /\ done'[j].complete = MP!AllReceived(frames[id])
              /\ done'[j].frame_data = MP!FrameData(frames[id].reassembler)
        BY <2>2, ResultsAreHeld
    <2> QED
        BY <2>1, <2>3, WholeFrameIsTheOneSent
<1>4. ASSUME NEW j \in DOMAIN written', calls'[i] = OfWrite(written'[j])
      PROVE  calls'[i].data = Encode(Raw) /\ senderHeader = Header
    <2> DEFINE id == written'[j].frame_id
    <2>1. MP!AllReceived(frames[id]) /\ calls'[i].data = written'[j].data
        <3>1. /\ calls'[i].whole <=> Manager!AllReceived(frames[id])
              /\ calls'[i].data = written'[j].data
            BY <1>4 DEF OfWrite
        <3>2. \A entry : Manager!AllReceived(entry) <=> MP!AllReceived(entry)
            BY DEF Manager!AllReceived, MP!AllReceived
        <3> QED
            BY <3>1, <3>2
    <2>2. Stop
        BY <1>4, ResultsAreHeld
    <2>3. id \in Manager!Live /\ written'[j].data = MP!FrameData(frames[id].reassembler)
        BY <2>2, WritesAreHeld
    <2> QED
        BY <2>1, <2>3, WholeFrameIsTheOneSent
<1> QED
    BY <1>2, <1>3, <1>4

(* ... the calls, which are made one after the other or lost, ...               *)
LEMMA CallsLeft ==
    ASSUME Writer!TypeOK, WritesACall, Write \/ FileFails \/ Crash
    PROVE  \/ calls' = calls
           \/ calls' = <<>>
           \/ ~Writer!Idle /\ calls' = Tail(calls)
BY DEF Write, FileFails, Crash, Writer!Refuse, Writer!Open, Writer!WriteAndClose,
       Writer!OpenFails, Writer!WriteFails, Writer!Dies, Writer!NextFile, WritesACall,
       InProgress

LEMMA NextWholeIsTheFrame ==
    ASSUME MP!CountsFit, TypeInv, TypeInv', MP!FramesCarry, HeaderComesFirst,
           WholeIsTheFrame, [Next]_vars, senderHeader = Header => senderHeader' = Header
    PROVE  WholeIsTheFrame'
<1>1. CASE UNCHANGED calls
    BY <1>1 DEF WholeIsTheFrame, Encode
<1>2. CASE PollTimers \/ Stop
    <2>1. senderHeader' = senderHeader
        BY <1>2 DEF PollTimers, Stop, sourceVars
    <2> QED
        BY <1>2, <2>1, CallsMadeWhole
<1>3. CASE Write \/ FileFails \/ Crash
    <2>1. Writer!TypeOK /\ WritesACall
        BY TypeInvParts
    <2>2. CASE calls' = <<>>
        BY <2>2 DEF WholeIsTheFrame
    <2>3. CASE ~Writer!Idle /\ calls' = Tail(calls)
        <3>1. calls \in Seq(Writer!Call) /\ calls # <<>>
            BY <2>1, <2>3 DEF Writer!TypeOK, Writer!Idle
        <3>2. /\ Tail(calls) \in Seq(Writer!Call) /\ Len(Tail(calls)) = Len(calls) - 1
              /\ \A i \in 1 .. Len(Tail(calls)) : Tail(calls)[i] = calls[i + 1]
            BY <3>1, HeadTailProperties
        <3>3. /\ Len(calls) \in Nat /\ DOMAIN calls = 1 .. Len(calls)
              /\ DOMAIN Tail(calls) = 1 .. Len(Tail(calls))
            BY <3>1, <3>2, LenProperties
        <3>4. \A i \in DOMAIN calls' : i + 1 \in DOMAIN calls /\ calls'[i] = calls[i + 1]
            BY <2>3, <3>2, <3>3
        <3> QED
            BY <3>4 DEF WholeIsTheFrame, Encode
    <2> QED
        BY <1>1, <1>3, <2>1, <2>2, <2>3, CallsLeft
<1> QED
    BY <1>1, <1>2, <1>3
    DEF Next, vars, writerVars, StartSender, SendTheFrame, SenderStep, TakePacket, Exit,
        Restart, Tick

(* ... and last the files: what a call for a whole frame leaves behind.          *)
LEMMA ContentOfTheFile ==
    /\ Writer!Content(Encode(Raw))[2] = Header
    /\ Writer!Content(Encode(Raw))[3] = Raw
BY HeaderIsTheHead DEF Writer!Content

LEMMA ClosedFile ==
    ASSUME Writer!TypeOK, WritesACall, WriterInv, WholeIsTheFrame, Writer!WriteAndClose,
           verdict'[Current.base] = "whole"
    PROVE  /\ senderHeader = Header
           /\ files'[Current.base][2] = Header
           /\ files'[Current.base][3] = Raw
<1> DEFINE base    == Current.base
           content == Writer!Content(Current.data)
           sofar   == verdict[base]
           outcome == IF kind < 3 \/ sofar = "torn" THEN sofar
                      ELSE IF Current.whole THEN "whole" ELSE "partly"
<1>1. InProgress /\ ~Writer!Idle
    BY DEF Writer!WriteAndClose, InProgress, WritesACall
<1>2. sofar \in {"writing", "torn"}
    BY <1>1 DEF WriterInv, NotKnownYet
<1>3. OnTo(content[kind], outcome)
    BY CloseIsOnTo
<1>4. /\ kind \in Writer!Kinds
      /\ files'[base][kind] = content[kind]
      /\ \A k \in Writer!Kinds : k # kind => files'[base][k] = files[base][k]
      /\ verdict'[base] = outcome
    BY <1>3, OnToOutcome
<1>5. Writer!Kinds = {1, 2, 3}
    BY DEF Writer!Kinds
<1>6. ~(kind < 3) /\ sofar # "torn" /\ Current.whole
    BY <1>2, <1>4
<1>7. kind = 3 /\ sofar = "writing"
    BY <1>2, <1>4, <1>5, <1>6
<1>8. Current.data = Encode(Raw) /\ senderHeader = Header
    BY <1>1, <1>6, CurrentType DEF WholeIsTheFrame
<1>9. files[base][2] = content[2]
    BY <1>1, <1>5, <1>7 DEF WriterInv, ClosedAreWritten
<1> QED
    BY <1>4, <1>5, <1>7, <1>8, <1>9, ContentOfTheFile

LEMMA OnlyAClosedFileIsWhole ==
    ASSUME Writer!TypeOK, WritesACall, WriterInv, NEW b \in Writer!Bases,
           verdict'[b] = "whole", Write \/ FileFails \/ Crash
    PROVE  \/ verdict[b] = "whole" /\ files'[b] = files[b]
           \/ Writer!WriteAndClose /\ b = Current.base
<1>1. CASE Writer!Refuse
    BY <1>1 DEF Writer!Refuse
<1>2. CASE Writer!Open
    <2>1. kind # 1 => InProgress
        BY Zenon DEF InProgress
    <2>2. verdict'[Current.base] \in {"writing", "torn"}
        BY <1>2, <2>1, OpenType DEF WriterInv, NotKnownYet
    <2> QED
        BY <1>2, <2>2, OpenType
<1>3. CASE Writer!WriteAndClose
    BY <1>3, CloseIsOnTo, OnToOutcome
<1>4. CASE FileFails
    <2>1. PICK content : OnTo(content, "torn")
        BY <1>4, FailureIsOnTo DEF FileFails
    <2> QED
        BY <2>1, OnToOutcome
<1>5. CASE Crash
    <2>1. Writer!Dies
        BY <1>5 DEF Crash
    <2>2. CASE opened
        <3>1. InProgress /\ ~Writer!Idle /\ Writer!Accepted(Current)
            BY <2>2 DEF WritesACall, InProgress
        <3>2. Writer!Content(Current.data)[kind] \in Seq(Byte)
            BY <3>1, CurrentType, ContentIsTheFrame DEF Writer!Accepted, Writer!TypeOK
        <3>3. PICK some \in Writer!Prefixes(Writer!Content(Current.data)[kind]) :
                  Writer!Writing(some, "torn")
            BY <2>1, <2>2 DEF Writer!Dies, Current
        <3>4. some \in Seq(Byte)
            BY <3>2, PrefixType
        <3> QED
            BY <3>1, <3>3, <3>4, WritingType
    <2>3. CASE ~opened
        BY <2>1, <2>3 DEF Writer!Dies
    <2> QED
        BY <2>2, <2>3
<1> QED
    BY <1>1, <1>2, <1>3, <1>4, <1>5 DEF Write

LEMMA NextWrittenIsTheFile ==
    ASSUME TypeInv, WriterInv, WholeIsTheFrame, WrittenIsTheFile, [Next]_vars,
           senderHeader = Header => senderHeader' = Header
    PROVE  WrittenIsTheFile'
<1>1. CASE UNCHANGED <<files, verdict>>
    BY <1>1 DEF WrittenIsTheFile
<1>2. CASE Write \/ FileFails \/ Crash
    <2>1. Writer!TypeOK /\ WritesACall
        BY TypeInvParts
    <2> SUFFICES ASSUME NEW b \in Writer!Bases, verdict'[b] = "whole"
                 PROVE  senderHeader = Header /\ files'[b][2] = Header /\ files'[b][3] = Raw
        BY DEF WrittenIsTheFile
    <2>2. CASE verdict[b] = "whole" /\ files'[b] = files[b]
        BY <2>2 DEF WrittenIsTheFile
    <2>3. CASE Writer!WriteAndClose /\ b = Current.base
        BY <2>1, <2>3, ClosedFile
    <2> QED
        BY <1>2, <2>1, <2>2, <2>3, OnlyAClosedFileIsWhole
<1> QED
    BY <1>1, <1>2
    DEF Next, vars, writerVars, StartSender, SendTheFrame, SenderStep, TakePacket,
        PollTimers, Stop, CallsMade, Exit, Restart, Tick

(* A file that was sent comes through as it was: after a call for a whole frame  *)
(* that went through, the header file is the sender's and the raw file is the   *)
(* file tm_sender was given, whatever was lost, repeated or reordered and        *)
(* whatever earlier crash or failing file left in their place.  The sender and   *)
(* the receiver must agree on the payload size, and the packets of the frame     *)
(* must be no more than its header can count.                                 *)
THEOREM FileIsTheSame ==
    ASSUME MP!SameStride, MP!CountsFit
    PROVE  Spec => []FileComesThrough
<1>1. Init => FileInv
    BY DEF Init, Manager!Init, Manager!NoFrames, Manager!Live, MP!Live, Writer!Init,
           FileInv, MP!FramesCarry, HeaderComesFirst, WholeIsTheFrame, WrittenIsTheFile
<1>2. FileInv /\ WriterInv /\ TypeInv /\ [Next]_vars => FileInv'
    <2> SUFFICES ASSUME FileInv, WriterInv, TypeInv, [Next]_vars
                 PROVE  FileInv'
        OBVIOUS
    <2>1. MP!FramesCarry'
        BY NextFramesCarry DEF FileInv
    <2>2. HeaderComesFirst' /\ (senderHeader = Header => senderHeader' = Header)
        BY NextHeaderComesFirst DEF FileInv
    <2>3. TypeInv'
        BY NextTypeInv
    <2>4. WholeIsTheFrame'
        BY <2>2, <2>3, NextWholeIsTheFrame DEF FileInv
    <2>5. WrittenIsTheFile'
        BY <2>2, NextWrittenIsTheFile DEF FileInv
    <2> QED
        BY <2>1, <2>2, <2>4, <2>5 DEF FileInv
<1>3. FileInv => FileComesThrough
    BY DEF FileInv, WrittenIsTheFile, FileComesThrough
<1> QED
    BY <1>1, <1>2, <1>3, Typed, Written, PTL DEF Spec
=============================================================================
