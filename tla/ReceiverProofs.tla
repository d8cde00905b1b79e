---------------------------- MODULE ReceiverProofs ----------------------------
(***************************************************************************)
(* Theorems about the composed Receiver, for any frames sent, any sizes of     *)
(* buffer, queue and socket, and any timeouts that are ordered as the code's.  *)
(*                                                                          *)
(* What the steps of the manager preserve is proved in                        *)
(* FrameReassemblerManagerProofs; its lemmas are instantiated here.           *)
(***************************************************************************)
EXTENDS Receiver, FiniteSetTheorems, SequenceTheorems, TLAPS

MP == INSTANCE FrameReassemblerManagerProofs
    WITH drops <- dropped, MaxEntries <- MaxArrivals, MaxDrops <- MaxArrivals

(* The assumptions of that module, under the names they have there.            *)
LEMMA Assumptions ==
    /\ CountMod \in Nat \ {0}
    /\ MaxUdpPayload \in Nat \ {0}
    /\ Byte # {}
    /\ SentFrames \subseteq [frame_id : Nat, data : Seq(Byte)]
    /\ MP!IsFiniteSet(SentFrames)
    /\ MaxFrameSize \in Nat /\ PayloadStride \in Nat \ {0} /\ ZeroByte \in Byte
    /\ IdleTimeout \in Nat /\ MaxLifetime \in Nat /\ MaxArrivals \in Nat
BY PacketAssumption, ReassemblerAssumption, ReceiverAssumption
DEF MP!IsFiniteSet, IsFiniteSet

LEMMA SamePackets == RxPackets = MP!RxPackets /\ FrameIds = MP!FrameIds
BY DEF RxPackets, MP!RxPackets, U16, MP!U16, PacketCount, MP!PacketCount,
       PacketAt, MP!PacketAt, FrameIds, MP!FrameIds

(* The two instances of the manager are one.                                  *)
LEMMA SameType == (Manager!TypeOK <=> MP!TypeOK) /\ (Manager!TypeOK' <=> MP!TypeOK')
BY DEF Manager!TypeOK, MP!TypeOK, Manager!Live, MP!Live, Manager!Entry, MP!Entry,
       Manager!Reassembler, MP!Reassembler, Manager!FrameIds, MP!FrameIds,
       Manager!U16, MP!U16, Manager!Offsets, MP!Offsets,
       Manager!FrameResult, MP!FrameResult, Manager!Write, MP!Write

LEMMA SamePush ==
    ASSUME NEW pkt
    PROVE  Manager!PushPacket(pkt) <=> MP!PushPacket(pkt)
BY DEF Manager!PushPacket, MP!PushPacket, Manager!Live, MP!Live,
       Manager!Touched, MP!Touched, Manager!EntryFor, MP!EntryFor,
       Manager!StartedEntry, MP!StartedEntry, Manager!PushToFrame, MP!PushToFrame,
       Manager!Accepts, MP!Accepts, Manager!Stored, MP!Stored,
       Manager!EndOf, MP!EndOf, Manager!OffsetOf, MP!OffsetOf,
       Manager!Overwrite, MP!Overwrite, Manager!Offsets, MP!Offsets,
       Manager!StartNewFrame, MP!StartNewFrame, Manager!NewReassembler, MP!NewReassembler

LEMMA SameTimers == Manager!PollTimers <=> MP!PollTimers
BY DEF Manager!PollTimers, MP!PollTimers, Manager!EmitFrames, MP!EmitFrames,
       Manager!Due, MP!Due, Manager!Live, MP!Live, Manager!AllReceived, MP!AllReceived,
       Manager!IsIdle, MP!IsIdle, Manager!IsStale, MP!IsStale,
       Manager!InMapOrder, MP!InMapOrder, Manager!ResultOf, MP!ResultOf,
       Manager!HasGap, MP!HasGap, Manager!HasCorruption, MP!HasCorruption,
       Manager!FrameData, MP!FrameData, Manager!Without, MP!Without,
       Manager!Restrict, MP!Restrict, Manager!Cardinality, MP!Cardinality

LEMMA SameFlush == Manager!FlushAll <=> MP!FlushAll
BY DEF Manager!FlushAll, MP!FlushAll, Manager!WriteFrames, MP!WriteFrames,
       Manager!Nonempty, MP!Nonempty, Manager!HasAnyPacket, MP!HasAnyPacket,
       Manager!Live, MP!Live, Manager!InMapOrder, MP!InMapOrder,
       Manager!FrameData, MP!FrameData, Manager!Without, MP!Without,
       Manager!Restrict, MP!Restrict, Manager!Cardinality, MP!Cardinality

LEMMA PushType ==
    ASSUME Manager!TypeOK, NEW pkt \in RxPackets, Manager!PushPacket(pkt)
    PROVE  Manager!TypeOK'
BY SameType, SamePush, SamePackets, Assumptions, MP!PushPacketType

LEMMA TimersType ==
    ASSUME Manager!TypeOK, Manager!PollTimers
    PROVE  Manager!TypeOK'
<1>1. MP!TypeOK /\ MP!PollTimers
    BY SameType, SameTimers
<1>2. MP!Due \in SUBSET MP!Live
    BY DEF MP!Due
<1>3. MP!TypeOK'
    BY <1>1, <1>2, Assumptions, MP!EmitFramesType DEF MP!PollTimers
<1> QED
    BY <1>3, SameType

LEMMA FlushType ==
    ASSUME Manager!TypeOK, Manager!FlushAll
    PROVE  Manager!TypeOK'
<1>1. MP!TypeOK /\ MP!FlushAll
    BY SameType, SameFlush
<1>2. MP!Nonempty \in SUBSET MP!Live
    BY DEF MP!Nonempty
<1>3. MP!TypeOK'
    BY <1>1, <1>2, Assumptions, MP!WriteFramesType DEF MP!FlushAll
<1> QED
    BY <1>3, SameType

-----------------------------------------------------------------------------
(* What TypeOK needs to be inductive: recvfrom is called on a socket that has  *)
(* something, and pushPacket with the packet that pop_until returned.          *)
Loaded ==
    /\ rx = "recv" => sock # <<>>
    /\ worker = "push" => got["worker"] \in RxPackets

RestOK ==
    /\ sock \in Seq(RxPackets \cup {Malformed})
    /\ arrivals \in 0 .. MaxArrivals
    /\ rx \in {"check", "poll", "recv", "exited"}
    /\ pollAge \in 0 .. PollTimeout
    /\ worker \in {"pop", "push", "timer", "check", "decide", "flush", "exited"}
    /\ sinceTimer \in 0 .. TimerPeriod
    /\ reminder \in NotStarted .. (GraceTime + 1)
    /\ main \in {"wait", "joinRx", "joinWorker", "done"}
    /\ hit \subseteq FrameIds
    /\ heard \in [FrameIds -> 0 .. Silent]

IInv == Queue!TypeOK /\ Manager!TypeOK /\ RestOK /\ Loaded

LEMMA TimesType ==
    /\ IdleTimeout \in Nat /\ MaxLifetime \in Nat /\ PollTimeout \in Nat
    /\ TimerPeriod \in Nat /\ GraceTime \in Nat /\ MaxArrivals \in Nat
    /\ Silent \in Nat
BY ReceiverAssumption DEF Silent

LEMMA PacketHasFrameId == \A pkt \in RxPackets : pkt.frame_id \in FrameIds
BY DEF RxPackets, PacketAt, FrameIds

(* The steps of the queue keep its type.                                      *)
LEMMA QueuePushType ==
    ASSUME Queue!TypeOK, NEW pkt \in RxPackets, Queue!Push("rx", pkt)
    PROVE  Queue!TypeOK' /\ got' = got
<1>1. /\ q \in Seq(RxPackets) /\ dropped \in Nat /\ Capacity \in Nat
      /\ Len(q) \in Nat /\ Len(q) <= Capacity
    BY ReceiverAssumption, LenProperties DEF Queue!TypeOK
<1>2. got' = got /\ shutdown' = shutdown
    BY DEF Queue!Push
<1>3. CASE Len(q) < Capacity
    <2>1. /\ q' = Append(q, pkt) /\ dropped' = dropped
          /\ thread' = [thread EXCEPT !["rx"] = "notify"]
        BY <1>1, <1>3 DEF Queue!Push
    <2>2. q' \in Seq(RxPackets) /\ Len(q') = Len(q) + 1
        BY <1>1, <2>1, AppendProperties
    <2>3. Len(q') <= Capacity
        BY <1>1, <1>3, <2>2
    <2> QED
        BY <1>2, <2>1, <2>2, <2>3 DEF Queue!TypeOK, Queue!Threads
<1>4. CASE ~(Len(q) < Capacity)
    <2>1. q' = q /\ thread' = thread /\ dropped' = dropped + 1
        BY <1>1, <1>4 DEF Queue!Push
    <2> QED
        BY <1>1, <1>2, <2>1 DEF Queue!TypeOK, Queue!Threads
<1> QED
    BY <1>3, <1>4

LEMMA QueueNotifyType ==
    ASSUME Queue!TypeOK, Queue!Notify("rx")
    PROVE  Queue!TypeOK' /\ got' = got
BY DEF Queue!TypeOK, Queue!Notify, Queue!Threads, Queue!Asleep, Queue!Awakened

LEMMA QueuePopType ==
    ASSUME Queue!TypeOK, Queue!PopUntil("worker") \/ Queue!ResumePopUntil("worker")
    PROVE  Queue!TypeOK'
<1>1. CASE Queue!TakeHead("worker")
    BY <1>1, HeadTailProperties, ReceiverAssumption
    DEF Queue!TypeOK, Queue!TakeHead, Queue!Threads
<1>2. CASE Queue!ReturnNothing("worker")
    BY <1>2 DEF Queue!TypeOK, Queue!ReturnNothing, Queue!Threads
<1>3. CASE Queue!Sleep("worker", "timedWait")
    BY <1>3 DEF Queue!TypeOK, Queue!Sleep, Queue!Threads
<1> QED
    BY <1>1, <1>2, <1>3 DEF Queue!PopUntil, Queue!ResumePopUntil

LEMMA QueueTimeoutType ==
    ASSUME Queue!TypeOK, Queue!Timeout("worker")
    PROVE  Queue!TypeOK' /\ got' = got
BY DEF Queue!TypeOK, Queue!Timeout, Queue!Threads, Queue!Awakened

LEMMA QueueUnchanged ==
    ASSUME Queue!TypeOK, UNCHANGED <<q, dropped, thread, got, shutdown>>
    PROVE  Queue!TypeOK'
BY DEF Queue!TypeOK

LEMMA ManagerUnchanged ==
    ASSUME Manager!TypeOK, UNCHANGED managerVars, dropped' \in Nat
    PROVE  Manager!TypeOK'
BY DEF Manager!TypeOK, managerVars, Manager!Live

(* A clock that stops at its limit.                                          *)
LEMMA AdvanceType ==
    ASSUME NEW limit \in Nat, NEW clock \in 0 .. limit
    PROVE  Advance(clock, limit) \in 0 .. limit
BY DEF Advance

LEMMA TickType ==
    ASSUME IInv, Tick
    PROVE  IInv'
<1>1. Queue!TypeOK'
    BY QueueUnchanged DEF Tick, queueVars, IInv
<1>2. \A entry \in Manager!Entry : Manager!Older(entry) \in Manager!Entry
    <2> TAKE entry \in Manager!Entry
    <2>1. /\ (IF entry.age > MaxLifetime THEN entry.age ELSE entry.age + 1)
                \in 0 .. (MaxLifetime + 1)
          /\ (IF entry.idle > IdleTimeout THEN entry.idle ELSE entry.idle + 1)
                \in 0 .. (IdleTimeout + 1)
        BY TimesType DEF Manager!Entry
    <2> QED
        BY <2>1 DEF Manager!Older, Manager!Entry
<1>3. Manager!TypeOK'
    BY <1>2 DEF Tick, IInv, Manager!TypeOK, Manager!Live, queueVars
<1>4. /\ pollAge' \in 0 .. PollTimeout /\ sinceTimer' \in 0 .. TimerPeriod
      /\ heard' \in [FrameIds -> 0 .. Silent]
    BY AdvanceType, TimesType DEF Tick, IInv, RestOK
<1>5. reminder' \in NotStarted .. (GraceTime + 1)
    <2>1. CASE reminder = NotStarted
        BY <2>1, TimesType DEF Tick, NotStarted
    <2>2. CASE reminder # NotStarted
        <3>1. reminder \in 0 .. (GraceTime + 1) /\ GraceTime + 1 \in Nat
            BY <2>2, TimesType DEF IInv, RestOK, NotStarted
        <3> QED
            BY <2>2, <3>1, AdvanceType DEF Tick, NotStarted
    <2> QED
        BY <2>1, <2>2
<1>6. UNCHANGED <<sock, arrivals, rx, worker, main, hit, got>>
    BY DEF Tick, queueVars, netVars
<1> QED
    BY <1>1, <1>3, <1>4, <1>5, <1>6 DEF IInv, RestOK, Loaded

LEMMA WorkerType ==
    ASSUME IInv, WorkerStep
    PROVE  IInv'
<1>1. dropped \in Nat
    BY DEF IInv, Queue!TypeOK
<1>2. CASE WorkerPop
    <2>1. Queue!TypeOK' /\ UNCHANGED <<dropped, shutdown>>
        BY <1>2, QueuePopType
        DEF WorkerPop, IInv, Queue!PopUntil, Queue!ResumePopUntil, Queue!TakeHead,
            Queue!ReturnNothing, Queue!Sleep
    <2>2. Manager!TypeOK'
        BY <1>1, <1>2, <2>1, ManagerUnchanged DEF WorkerPop, IInv
    <2>3. got'["worker"] \in RxPackets \cup {NoPacket}
        BY <2>1 DEF Queue!TypeOK
    <2>4. worker' \in {"pop", "push", "timer"}
          /\ (worker' = "push" => got'["worker"] # NoPacket)
        BY <1>2 DEF WorkerPop
    <2> QED
        BY <1>2, <2>1, <2>2, <2>3, <2>4
        DEF WorkerPop, IInv, RestOK, Loaded, netVars, rxVars, historyVars
<1>3. CASE PopTimesOut
    <2>1. Queue!TypeOK' /\ got' = got /\ dropped' = dropped
        BY <1>3, QueueTimeoutType DEF PopTimesOut, IInv, Queue!Timeout
    <2>2. Manager!TypeOK'
        BY <1>1, <1>3, <2>1, ManagerUnchanged DEF PopTimesOut, IInv
    <2> QED
        BY <1>3, <2>1, <2>2
        DEF PopTimesOut, IInv, RestOK, Loaded, netVars, rxVars, workerVars, historyVars
<1>4. CASE WorkerPush
    <2>1. Manager!TypeOK' /\ dropped' = dropped
        BY <1>4, PushType DEF WorkerPush, IInv, Loaded, Manager!PushPacket
    <2>2. Queue!TypeOK'
        BY <1>4, <2>1, QueueUnchanged DEF WorkerPush, IInv
    <2> QED
        BY <1>4, <2>1, <2>2
        DEF WorkerPush, IInv, RestOK, Loaded, netVars, rxVars, historyVars
<1>5. CASE WorkerTimer
    <2>1. Manager!TypeOK' /\ dropped' = dropped
        BY <1>1, <1>5, TimersType, ManagerUnchanged
        DEF WorkerTimer, IInv, Manager!PollTimers, Manager!EmitFrames
    <2>2. Queue!TypeOK'
        BY <1>5, <2>1, QueueUnchanged DEF WorkerTimer, IInv
    <2>3. /\ sinceTimer' \in 0 .. TimerPeriod
          /\ hit' \subseteq FrameIds
          /\ heard' \in [FrameIds -> 0 .. Silent]
        BY <1>5, TimesType DEF WorkerTimer, IInv, RestOK, historyVars
    <2> QED
        BY <1>5, <2>1, <2>2, <2>3 DEF WorkerTimer, IInv, RestOK, Loaded, netVars, rxVars
<1>6. CASE WorkerCheck
    <2>1. Queue!TypeOK'
        BY <1>6 DEF WorkerCheck, IInv, Queue!TypeOK
    <2>2. Manager!TypeOK'
        BY <1>6 DEF WorkerCheck, IInv, Manager!TypeOK, Manager!Live
    <2> QED
        BY <1>6, <2>1, <2>2
        DEF WorkerCheck, IInv, RestOK, Loaded, netVars, rxVars, historyVars
<1>7. CASE WorkerDecide
    <2>1. Queue!TypeOK' /\ got' = got /\ dropped' = dropped
        BY <1>7, QueueUnchanged DEF WorkerDecide, IInv, queueVars
    <2>2. Manager!TypeOK'
        BY <1>1, <1>7, <2>1, ManagerUnchanged DEF WorkerDecide, IInv
    <2>3. reminder' \in NotStarted .. (GraceTime + 1)
        BY <1>7, TimesType DEF WorkerDecide, IInv, RestOK, NotStarted
    <2>4. worker' \in {"decide", "flush", "pop"}
        BY <1>7 DEF WorkerDecide
    <2> QED
        BY <1>7, <2>1, <2>2, <2>3, <2>4
        DEF WorkerDecide, IInv, RestOK, Loaded, netVars, rxVars, historyVars
<1>8. CASE WorkerFlush
    <2>1. Manager!TypeOK' /\ dropped' = dropped
        BY <1>8, FlushType DEF WorkerFlush, IInv, Manager!FlushAll, Manager!WriteFrames
    <2>2. Queue!TypeOK'
        BY <1>8, <2>1, QueueUnchanged DEF WorkerFlush, IInv
    <2> QED
        BY <1>8, <2>1, <2>2
        DEF WorkerFlush, IInv, RestOK, Loaded, netVars, rxVars, historyVars
<1> QED
    BY <1>2, <1>3, <1>4, <1>5, <1>6, <1>7, <1>8 DEF WorkerStep

LEMMA RxType ==
    ASSUME IInv, RxStep
    PROVE  IInv'
<1>1. dropped \in Nat
    BY DEF IInv, Queue!TypeOK
<1>2. CASE RxCheck \/ RxPoll
    <2>1. Queue!TypeOK' /\ got' = got /\ dropped' = dropped
        BY <1>2, QueueUnchanged DEF RxCheck, RxPoll, IInv, queueVars
    <2>2. Manager!TypeOK'
        BY <1>1, <1>2, <2>1, ManagerUnchanged DEF RxCheck, RxPoll, IInv
    <2>3. pollAge' \in 0 .. PollTimeout
        BY <1>2, TimesType DEF RxCheck, RxPoll, IInv, RestOK
    <2> QED
        BY <1>2, <2>1, <2>2, <2>3
        DEF RxCheck, RxPoll, IInv, RestOK, Loaded, netVars, workerVars, historyVars
<1>3. CASE RxNotify
    <2>1. Queue!TypeOK' /\ got' = got /\ dropped' = dropped
        BY <1>3, QueueNotifyType DEF RxNotify, IInv, Queue!Notify
    <2>2. Manager!TypeOK'
        BY <1>1, <1>3, <2>1, ManagerUnchanged DEF RxNotify, IInv
    <2> QED
        BY <1>3, <2>1, <2>2
        DEF RxNotify, IInv, RestOK, Loaded, netVars, rxVars, workerVars, historyVars
<1>4. CASE RxReceive
    <2> DEFINE datagram == Head(sock)
    <2>1. /\ datagram \in RxPackets \cup {Malformed}
          /\ sock' \in Seq(RxPackets \cup {Malformed})
        BY <1>4, HeadTailProperties DEF RxReceive, IInv, RestOK, Loaded
    <2> HIDE DEF datagram
    <2>2. CASE datagram = Malformed
        <3>1. UNCHANGED <<queueVars, shutdown, historyVars>>
            BY <1>4, <2>2, ReceiverAssumption DEF RxReceive, datagram
        <3>2. Queue!TypeOK' /\ got' = got /\ dropped' = dropped
            BY <3>1, QueueUnchanged DEF IInv, queueVars
        <3>3. Manager!TypeOK'
            BY <1>1, <1>4, <3>2, ManagerUnchanged DEF RxReceive, IInv
        <3> QED
            BY <1>4, <2>1, <3>1, <3>2, <3>3
            DEF RxReceive, IInv, RestOK, Loaded, workerVars, historyVars
    <2>3. CASE datagram # Malformed
        <3>1. /\ Queue!Push("rx", datagram)
              /\ heard' = IF dropped' > dropped THEN heard
                          ELSE [heard EXCEPT ![datagram.frame_id] = 0]
              /\ hit' = IF dropped' > dropped THEN hit \cup {datagram.frame_id} ELSE hit
            BY <1>4, <2>3 DEF RxReceive, datagram
        <3>2. datagram \in RxPackets
            BY <2>1, <2>3
        <3>3. Queue!TypeOK' /\ got' = got
            BY <3>1, <3>2, QueuePushType DEF IInv
        <3>4. Manager!TypeOK'
            BY <1>4, <3>3, ManagerUnchanged DEF RxReceive, IInv, Queue!TypeOK
        <3>5. hit' \subseteq FrameIds /\ heard' \in [FrameIds -> 0 .. Silent]
            BY <3>1, <3>2, PacketHasFrameId, TimesType DEF IInv, RestOK
        <3> QED
            BY <1>4, <2>1, <3>3, <3>4, <3>5
            DEF RxReceive, IInv, RestOK, Loaded, workerVars
    <2> QED
        BY <2>2, <2>3
<1> QED
    BY <1>2, <1>3, <1>4 DEF RxStep

LEMMA IInvHolds == Spec => []IInv
<1>1. Init => IInv
    <2> SUFFICES ASSUME Init
                 PROVE  IInv
        OBVIOUS
    <2>1. Queue!TypeOK
        <3>1. q \in Seq(RxPackets) /\ Len(q) = 0
            BY EmptySeq DEF Init, Queue!Init
        <3>2. /\ thread = [t \in Queue!Threads |-> "idle"]
              /\ got = [c \in {"worker"} |-> NoPacket]
              /\ dropped \in Nat /\ shutdown \in BOOLEAN
            BY DEF Init, Queue!Init
        <3> QED
            BY <3>1, <3>2, ReceiverAssumption DEF Queue!TypeOK, Queue!Threads
    <2>2. Manager!TypeOK
        BY EmptySeq DEF Init, Manager!Init, Manager!TypeOK, Manager!NoFrames, Manager!Live
    <2>3. RestOK
        BY EmptySeq, TimesType DEF Init, RestOK, NotStarted
    <2>4. Loaded
        BY DEF Init, Loaded
    <2> QED
        BY <2>1, <2>2, <2>3, <2>4 DEF IInv
<1>2. IInv /\ [Next]_vars => IInv'
    <2> SUFFICES ASSUME IInv, [Next]_vars
                 PROVE  IInv'
        OBVIOUS
    <2>1. ASSUME UNCHANGED <<q, dropped, thread, got, shutdown, managerVars, rx, worker>>,
                 RestOK', sock = <<>> \/ sock' # <<>>
          PROVE  IInv'
        <3>1. Queue!TypeOK'
            BY <2>1, QueueUnchanged DEF IInv
        <3>2. Manager!TypeOK'
            BY <2>1, ManagerUnchanged DEF IInv, Queue!TypeOK
        <3> QED
            BY <2>1, <3>1, <3>2 DEF IInv, Loaded
    <2>2. CASE Arrive
        <3>1. PICK datagram \in RxPackets \cup {Malformed} : sock' = Append(sock, datagram)
            BY <2>2 DEF Arrive
        <3>2. sock' \in Seq(RxPackets \cup {Malformed}) /\ sock' # <<>>
            BY <3>1, AppendProperties DEF IInv, RestOK
        <3>3. arrivals' \in 0 .. MaxArrivals
            BY <2>2, TimesType DEF Arrive, IInv, RestOK
        <3>4. RestOK'
            BY <2>2, <3>2, <3>3 DEF Arrive, IInv, RestOK, rxVars, workerVars, historyVars
        <3> QED
            BY <2>1, <2>2, <3>2, <3>4 DEF Arrive, queueVars, rxVars, workerVars
    <2>3. CASE OnSignal
        <3>1. Queue!TypeOK' /\ got' = got /\ dropped' = dropped
            BY <2>3 DEF OnSignal, IInv, Queue!RequestShutdown, Queue!TypeOK
        <3>2. Manager!TypeOK'
            BY <2>3, <3>1, ManagerUnchanged DEF OnSignal, IInv, Queue!TypeOK
        <3> QED
            BY <2>3, <3>1, <3>2
            DEF OnSignal, IInv, RestOK, Loaded, netVars, rxVars, workerVars, historyVars
    <2>4. CASE RxStep
        BY <2>4, RxType
    <2>5. CASE WorkerStep
        BY <2>5, WorkerType
    <2>6. CASE MainStep
        <3>1. RestOK'
            BY <2>6
            DEF MainStep, IInv, RestOK, netVars, rxVars, workerVars, historyVars
        <3> QED
            BY <2>1, <2>6, <3>1 DEF MainStep, queueVars, netVars, rxVars, workerVars
    <2>7. CASE Tick
        BY <2>7, TickType
    <2>8. CASE UNCHANGED vars
        <3>1. RestOK'
            BY <2>8 DEF vars, IInv, RestOK, netVars, rxVars, workerVars, historyVars
        <3> QED
            BY <2>1, <2>8, <3>1 DEF vars, queueVars, netVars, rxVars, workerVars
    <2> QED
        BY <2>2, <2>3, <2>4, <2>5, <2>6, <2>7, <2>8 DEF Next, Terminated
<1> QED
    BY <1>1, <1>2, PTL DEF Spec

(* Every thread is where its code can put it and the queue keeps its bound: in   *)
(* particular nothing is read from an empty socket or pushed from an empty     *)
(* hand.                                                                     *)
THEOREM TypeCorrect == Spec => []TypeOK
<1>1. IInv => TypeOK
    BY DEF IInv, RestOK, TypeOK
<1> QED
    BY <1>1, IInvHolds, PTL

-----------------------------------------------------------------------------
LEMMA FlushEmpties ==
    ASSUME Manager!FlushAll
    PROVE  Manager!Live' = {}
<1>1. frames' = Manager!Without(Manager!Live)
    BY DEF Manager!FlushAll, Manager!WriteFrames
<1> QED
    BY <1>1 DEF Manager!Without, Manager!Restrict, Manager!Live

(* The RX thread leaves its poll before the grace time is over, which began     *)
(* with the poll or later; after that it pushes nothing.                      *)
RxOutlived ==
    /\ (reminder # NotStarted \/ worker = "decide") => shutdown
    /\ (reminder # NotStarted /\ rx # "exited") => reminder <= pollAge
    /\ (worker = "decide" /\ reminder > GraceTime) => q = <<>>
    /\ worker \in {"flush", "exited"} => (q = <<>> /\ rx = "exited")
    /\ worker = "exited" => Manager!Live = {}

(* At the end neither the queue nor the manager holds anything, whatever came   *)
(* when, if the scheduler is prompt and the grace time is at least the timeout *)
(* of the RX thread's poll.                                                  *)
THEOREM NothingIsLeftBehind ==
    ASSUME Prompt, PollTimeout <= GraceTime
    PROVE  Spec => []NothingLeftBehind
<1>1. Init => RxOutlived
    BY TimesType DEF Init, RxOutlived, NotStarted
<1>2. RxOutlived /\ IInv /\ [Next]_vars => RxOutlived'
    <2> SUFFICES ASSUME RxOutlived, IInv, [Next]_vars
                 PROVE  RxOutlived'
        OBVIOUS
    <2> USE TimesType DEF NotStarted
    <2>1. /\ shutdown \in BOOLEAN /\ pollAge \in 0 .. PollTimeout
          /\ reminder \in -1 .. (GraceTime + 1)
        BY DEF IInv, RestOK, Queue!TypeOK
    <2>2. ASSUME UNCHANGED <<q, frames, rx, pollAge, worker, reminder>>,
                 shutdown => shutdown'
          PROVE  RxOutlived'
        BY <2>2 DEF RxOutlived, Manager!Live
    <2>3. CASE Arrive \/ OnSignal \/ PopTimesOut \/ RxNotify \/ MainStep \/ UNCHANGED vars
        BY <2>2, <2>3
        DEF Arrive, OnSignal, PopTimesOut, RxNotify, MainStep, Queue!RequestShutdown,
            Queue!Timeout, Queue!Notify, vars, queueVars, managerVars, rxVars, workerVars
    <2>4. CASE RxCheck
        BY <2>1, <2>4
        DEF RxCheck, RxOutlived, queueVars, managerVars, workerVars, Manager!Live
    <2>5. CASE RxPoll
        BY <2>1, <2>5
        DEF RxPoll, RxOutlived, queueVars, managerVars, workerVars, Manager!Live
    <2>6. CASE RxReceive
        <3>1. /\ rx = "recv" /\ rx' = "check" /\ shutdown' = shutdown
              /\ UNCHANGED <<frames, pollAge, worker, reminder>>
            BY <2>6 DEF RxReceive, Queue!Push, managerVars, workerVars, queueVars
        <3>2. reminder > GraceTime => FALSE
            BY <2>1, <3>1 DEF RxOutlived
        <3> QED
            BY <2>1, <3>1, <3>2 DEF RxOutlived, Manager!Live
    <2>7. CASE WorkerPop \/ WorkerPush \/ WorkerTimer
        <3>1. /\ worker \notin {"decide", "flush", "exited"}
              /\ worker' \notin {"decide", "flush", "exited"}
              /\ UNCHANGED <<rx, pollAge, reminder, shutdown>>
            BY <2>7
            DEF WorkerPop, WorkerPush, WorkerTimer, rxVars, Queue!PopUntil,
                Queue!ResumePopUntil, Queue!TakeHead, Queue!ReturnNothing, Queue!Sleep
        <3> QED
            BY <3>1 DEF RxOutlived
    <2>8. CASE WorkerCheck
        <3>1. /\ worker' \in {"decide", "pop"}
              /\ worker' = "decide" => shutdown /\ q = <<>>
              /\ UNCHANGED <<q, rx, pollAge, reminder, shutdown>>
            BY <2>8 DEF WorkerCheck, rxVars
        <3> QED
            BY <3>1 DEF RxOutlived
    <2>9. CASE WorkerDecide
        <3>1. /\ worker = "decide" /\ UNCHANGED <<q, rx, pollAge, shutdown>>
              /\ \/ reminder = -1 /\ reminder' = 0 /\ worker' = "decide"
                 \/ /\ reminder # -1 /\ reminder' = reminder
                    /\ worker' = IF reminder > GraceTime THEN "flush" ELSE "pop"
            BY <2>9 DEF WorkerDecide, rxVars, queueVars
        <3> QED
            BY <2>1, <3>1 DEF RxOutlived
    <2>10. CASE WorkerFlush
        <3>1. /\ worker = "flush" /\ worker' = "exited"
              /\ UNCHANGED <<q, rx, pollAge, shutdown, reminder>>
            BY <2>10 DEF WorkerFlush, rxVars
        <3>2. Manager!Live' = {}
            BY <2>10, FlushEmpties DEF WorkerFlush
        <3> QED
            BY <3>1, <3>2 DEF RxOutlived
    <2>11. CASE Tick
        <3>1. /\ UNCHANGED <<q, rx, worker, shutdown>> /\ worker # "decide"
              /\ Manager!Live' = Manager!Live
              /\ rx = "exited" \/ pollAge' = pollAge + 1
              /\ reminder = -1 => reminder' = -1
              /\ reminder # -1 => reminder' \in {reminder, reminder + 1}
            BY <2>11 DEF Tick, PromptlyServed, Advance, queueVars, Manager!Live
        <3> QED
            BY <2>1, <3>1 DEF RxOutlived
    <2> QED
        BY <2>3, <2>4, <2>5, <2>6, <2>7, <2>8, <2>9, <2>10, <2>11
        DEF Next, RxStep, WorkerStep, Terminated
<1>3. RxOutlived => NothingLeftBehind
    BY DEF RxOutlived, NothingLeftBehind
<1> QED
    BY <1>1, <1>2, <1>3, IInvHolds, PTL DEF Spec
-----------------------------------------------------------------------------
(* What the timers leave of the map.                                          *)
LEMMA TimersRestrict ==
    ASSUME IInv, Manager!PollTimers
    PROVE  /\ Manager!Live' \subseteq Manager!Live
           /\ \A id \in Manager!Live' : frames'[id] = frames[id]
<1>1. frames' = Manager!Without(Manager!Due)
    BY DEF Manager!PollTimers, Manager!EmitFrames
<1> QED
    BY <1>1 DEF Manager!Without, Manager!Restrict, Manager!Live

LEMMA PushTouches ==
    ASSUME IInv, NEW pkt \in RxPackets, Manager!PushPacket(pkt)
    PROVE  \A id \in Manager!Live' :
              IF id = pkt.frame_id THEN frames'[id].idle = 0
              ELSE id \in Manager!Live /\ frames'[id] = frames[id]
<1>1. frames' = [id \in Manager!Live \cup {pkt.frame_id} |->
                    IF id = pkt.frame_id THEN Manager!Touched(Manager!EntryFor(pkt), pkt)
                                         ELSE frames[id]]
    BY DEF Manager!PushPacket
<1>2. Manager!EntryFor(pkt).idle \in Nat /\ "idle" \in DOMAIN Manager!EntryFor(pkt)
    BY TimesType
    DEF Manager!EntryFor, Manager!StartedEntry, IInv, Manager!TypeOK, Manager!Entry
<1>3. Manager!Touched(Manager!EntryFor(pkt), pkt).idle = 0
    BY <1>2 DEF Manager!Touched
<1> QED
    BY <1>1, <1>3 DEF Manager!Live

(* A packet that was queued is on its way until the manager has it.            *)
LEMMA QueuedIsOnItsWay ==
    ASSUME IInv, IdleMeansSilent, RxReceive
    PROVE  IdleMeansSilent'
<1> DEFINE datagram == Head(sock)
<1>1. UNCHANGED <<frames, worker>>
    BY DEF RxReceive, managerVars, workerVars
<1>2. CASE UNCHANGED <<q, got, heard>>
    BY <1>1, <1>2 DEF IdleMeansSilent, OnItsWay, Manager!Live
<1>3. CASE datagram # Malformed /\ Queue!Push("rx", datagram)
    <2>1. got' = got
        BY <1>3 DEF Queue!Push
    <2>2. datagram \in RxPackets
        BY <1>3, HeadTailProperties DEF RxReceive, IInv, RestOK, Loaded
    <2> HIDE DEF datagram
    <2>3. heard' = IF dropped' > dropped THEN heard
                   ELSE [heard EXCEPT ![datagram.frame_id] = 0]
        BY <1>3 DEF RxReceive, datagram
    <2>4. CASE Len(q) < Capacity
        <3>1. q' = Append(q, datagram) /\ dropped' = dropped /\ dropped \in Nat
            BY <1>3, <2>4, ReceiverAssumption, LenProperties
            DEF Queue!Push, IInv, Queue!TypeOK
        <3>2. /\ Len(q') = Len(q) + 1 /\ Len(q) \in Nat
              /\ \A i \in 1 .. Len(q) : q'[i] = q[i]
              /\ q'[Len(q) + 1] = datagram
              /\ DOMAIN q = 1 .. Len(q) /\ DOMAIN q' = 1 .. (Len(q) + 1)
            BY <2>2, <3>1, AppendProperties, LenProperties DEF IInv, Queue!TypeOK
        <3>3. \A id : OnItsWay(id) => OnItsWay(id)'
            BY <1>1, <2>1, <3>2 DEF OnItsWay
        <3>4. \A id : id = datagram.frame_id => OnItsWay(id)'
            <4>1. Len(q) + 1 \in DOMAIN q'
                BY <3>2
            <4> QED
                BY <3>2, <4>1 DEF OnItsWay
        <3>5. \A id \in FrameIds : id # datagram.frame_id => heard'[id] = heard[id]
            BY <2>3, <3>1 DEF IInv, RestOK
        <3>6. Manager!Live \subseteq FrameIds
            BY DEF IInv, Manager!TypeOK, Manager!FrameIds, FrameIds
        <3> QED
            BY <1>1, <3>3, <3>4, <3>5, <3>6 DEF IdleMeansSilent, Manager!Live
    <2>5. CASE ~(Len(q) < Capacity)
        <3>1. q' = q /\ dropped' = dropped + 1 /\ dropped \in Nat
            BY <1>3, <2>5, ReceiverAssumption, LenProperties
            DEF Queue!Push, IInv, Queue!TypeOK
        <3>2. heard' = heard
            BY <2>3, <3>1
        <3> QED
            BY <1>2, <2>1, <3>1, <3>2
    <2> QED
        BY <2>4, <2>5
<1> QED
    BY <1>2, <1>3 DEF RxReceive, queueVars, historyVars

LEMMA PoppedIsOnItsWay ==
    ASSUME IInv, IdleMeansSilent, WorkerPop
    PROVE  IdleMeansSilent'
<1>1. UNCHANGED <<frames, heard>> /\ worker = "pop"
    BY DEF WorkerPop, managerVars, historyVars
<1>2. CASE q = <<>>
    <2>1. \A id : ~OnItsWay(id)
        BY <1>1, <1>2 DEF OnItsWay
    <2> QED
        BY <1>1, <2>1 DEF IdleMeansSilent, Manager!Live
<1>3. CASE q # <<>>
    <2>1. /\ q' = Tail(q) /\ got' = [got EXCEPT !["worker"] = Head(q)]
          /\ thread' = [thread EXCEPT !["worker"] = "idle"]
        BY <1>3
        DEF WorkerPop, Queue!PopUntil, Queue!ResumePopUntil, Queue!TakeHead,
            Queue!ReturnNothing, Queue!Sleep
    <2>2. /\ q \in Seq(RxPackets)
          /\ "worker" \in DOMAIN got /\ "worker" \in DOMAIN thread
        BY DEF IInv, Queue!TypeOK, Queue!Threads
    <2>3. /\ Head(q) = q[1] /\ Head(q) \in RxPackets
          /\ Len(q) \in Nat /\ Len(Tail(q)) = Len(q) - 1
          /\ DOMAIN q = 1 .. Len(q) /\ DOMAIN Tail(q) = 1 .. (Len(q) - 1)
          /\ \A i \in 1 .. (Len(q) - 1) : Tail(q)[i] = q[i + 1]
        BY <1>3, <2>2, HeadTailProperties, LenProperties
    <2>4. got'["worker"] = q[1] /\ worker' = "push"
        BY <2>1, <2>2, <2>3, ReceiverAssumption DEF WorkerPop
    <2>5. \A id : OnItsWay(id) => OnItsWay(id)'
        <3> SUFFICES ASSUME NEW id, NEW i \in 1 .. Len(q), q[i].frame_id = id
                     PROVE  OnItsWay(id)'
            BY <1>1, <2>3 DEF OnItsWay
        <3>1. CASE i = 1
            BY <2>4, <3>1 DEF OnItsWay
        <3>2. CASE i # 1
            <4>1. i - 1 \in 1 .. (Len(q) - 1) /\ q'[i - 1] = q[i]
                BY <2>1, <2>3, <3>2
            <4> QED
                BY <2>1, <2>3, <4>1 DEF OnItsWay
        <3> QED
            BY <3>1, <3>2
    <2> QED
        BY <1>1, <2>5 DEF IdleMeansSilent, Manager!Live
<1> QED
    BY <1>2, <1>3

(* However the threads are delayed, the timers take a frame whose packets keep  *)
(* being queued for silent only while one of them is still on its way.         *)
THEOREM IdleFramesAreSilent == Spec => []IdleMeansSilent
<1>1. Init => IdleMeansSilent
    BY DEF Init, Manager!Init, Manager!NoFrames, Manager!Live, IdleMeansSilent
<1>2. IdleMeansSilent /\ IInv /\ [Next]_vars => IdleMeansSilent'
    <2> SUFFICES ASSUME IdleMeansSilent, IInv, [Next]_vars
                 PROVE  IdleMeansSilent'
        OBVIOUS
    <2> USE TimesType
    <2>1. /\ Manager!Live \subseteq FrameIds
          /\ heard \in [FrameIds -> 0 .. Silent]
          /\ \A id \in Manager!Live : frames[id].idle \in 0 .. Silent
        BY DEF IInv, RestOK, Manager!TypeOK, Manager!Entry, Manager!FrameIds, FrameIds, Silent
    <2>2. ASSUME UNCHANGED <<q, frames, heard>>,
                 worker # "push" \/ UNCHANGED <<worker, got>>
          PROVE  IdleMeansSilent'
        BY <2>2 DEF IdleMeansSilent, OnItsWay, Manager!Live
    <2>3. CASE Arrive \/ OnSignal \/ RxCheck \/ RxPoll \/ RxNotify \/ PopTimesOut
               \/ MainStep \/ UNCHANGED vars
        BY <2>2, <2>3
        DEF Arrive, OnSignal, RxCheck, RxPoll, RxNotify, PopTimesOut, MainStep,
            Queue!RequestShutdown, Queue!Timeout, Queue!Notify, vars, queueVars,
            managerVars, workerVars, historyVars
    <2>4. CASE WorkerCheck \/ WorkerDecide
        BY <2>2, <2>4
        DEF WorkerCheck, WorkerDecide, queueVars, managerVars, historyVars
    <2>5. CASE RxReceive
        BY <2>5, QueuedIsOnItsWay
    <2>6. CASE WorkerPop
        BY <2>6, PoppedIsOnItsWay
    <2>7. CASE WorkerPush
        <3> DEFINE pkt == got["worker"]
        <3>1. pkt \in RxPackets /\ Manager!PushPacket(pkt) /\ UNCHANGED <<q, heard>>
            BY <2>7 DEF WorkerPush, IInv, Loaded, historyVars
        <3> HIDE DEF pkt
        <3>2. \A id \in Manager!Live' :
                 IF id = pkt.frame_id THEN frames'[id].idle = 0
                 ELSE id \in Manager!Live /\ frames'[id] = frames[id]
            BY <3>1, PushTouches
        <3>3. \A id : id # pkt.frame_id /\ OnItsWay(id) => OnItsWay(id)'
            BY <2>7, <3>1 DEF OnItsWay, WorkerPush, pkt
        <3>4. pkt.frame_id \in FrameIds
            BY <3>1, PacketHasFrameId
        <3> QED
            BY <2>1, <3>1, <3>2, <3>3, <3>4 DEF IdleMeansSilent
    <2>8. CASE WorkerTimer
        <3>1. CASE frames' = frames /\ heard' = heard
            BY <2>2, <2>8, <3>1 DEF WorkerTimer
        <3>2. CASE /\ Manager!PollTimers
                   /\ heard' = [id \in FrameIds |->
                                  IF id \in HandedOver(done') THEN Silent ELSE heard[id]]
            <4>1. /\ Manager!Live' \subseteq Manager!Live
                  /\ \A id \in Manager!Live' : frames'[id] = frames[id]
                BY <3>2, TimersRestrict
            <4>2. \A id \in FrameIds : heard'[id] \in {heard[id], Silent}
                BY <3>2
            <4>3. \A id : OnItsWay(id) => OnItsWay(id)'
                BY <2>8 DEF OnItsWay, WorkerTimer
            <4> QED
                BY <2>1, <4>1, <4>2, <4>3 DEF IdleMeansSilent
        <3> QED
            BY <2>8, <3>1, <3>2 DEF WorkerTimer, managerVars, historyVars
    <2>9. CASE WorkerFlush
        BY <2>9, FlushEmpties DEF WorkerFlush, IdleMeansSilent
    <2>10. CASE Tick
        <3>1. /\ Manager!Live' = Manager!Live
              /\ \A id \in Manager!Live : frames'[id] = Manager!Older(frames[id])
              /\ \A id \in FrameIds : heard'[id] = Advance(heard[id], Silent)
            BY <2>10 DEF Tick, Manager!Live
        <3>2. \A id \in Manager!Live :
                 frames'[id].idle = IF frames[id].idle > IdleTimeout THEN frames[id].idle
                                    ELSE frames[id].idle + 1
            BY <2>1, <3>1 DEF Manager!Older, IInv, Manager!TypeOK, Manager!Entry
        <3>3. \A id : OnItsWay(id) => OnItsWay(id)'
            BY <2>10 DEF Tick, OnItsWay, queueVars
        <3> QED
            BY <2>1, <3>1, <3>2, <3>3 DEF IdleMeansSilent, Advance, Silent
    <2> QED
        BY <2>3, <2>4, <2>5, <2>6, <2>7, <2>8, <2>9, <2>10
        DEF Next, RxStep, WorkerStep, Terminated
<1> QED
    BY <1>1, <1>2, IInvHolds, PTL DEF Spec

-----------------------------------------------------------------------------
(* What the worker's manager carries, which nobody else touches.               *)
LEMMA SameIntact ==
    /\ CompleteFramesIntact <=> MP!CompleteFramesIntact
    /\ CompleteFramesIntact' <=> MP!CompleteFramesIntact'
BY DEF CompleteFramesIntact, Manager!CompleteFramesIntact, MP!CompleteFramesIntact

(* A frame that stays in the map keeps its reassembler as it is, unless the      *)
(* worker is in pushPacket.                                                   *)
LEMMA OnlyPushChangesReassemblers ==
    ASSUME IInv, [Next]_vars, ~WorkerPush
    PROVE  /\ MP!Live' \subseteq MP!Live
           /\ \A id \in MP!Live' : frames'[id].reassembler = frames[id].reassembler
<1>1. CASE frames' = frames
    BY <1>1 DEF MP!Live
<1>2. CASE Manager!PollTimers
    BY <1>2, TimersRestrict DEF Manager!Live, MP!Live
<1>3. CASE WorkerFlush
    BY <1>3, FlushEmpties DEF WorkerFlush, MP!Live, Manager!Live
<1>4. CASE Tick
    BY <1>4 DEF Tick, MP!Live, Manager!Live, Manager!Older, IInv, Manager!TypeOK, Manager!Entry
<1> QED
    BY <1>1, <1>2, <1>3, <1>4
    DEF Next, Arrive, OnSignal, RxStep, RxCheck, RxPoll, RxReceive, RxNotify, WorkerStep,
        WorkerPop, PopTimesOut, WorkerTimer, WorkerCheck, WorkerDecide, MainStep,
        Terminated, vars, managerVars

LEMMA PushesWhatItGot ==
    ASSUME IInv, WorkerPush
    PROVE  /\ got["worker"] \in MP!RxPackets /\ MP!PushPacket(got["worker"])
           /\ done' = <<>> /\ written' = <<>>
<1>1. got["worker"] \in RxPackets /\ Manager!PushPacket(got["worker"])
    BY DEF WorkerPush, IInv, Loaded
<1> QED
    BY <1>1, SamePush, SamePackets DEF Manager!PushPacket

(* What the refinement needs of the worker's manager: what each frame carries,   *)
(* that its key is its id, and that only flushAll, the worker's last call, writes *)
(* without a callback.                                                        *)
OnlyFlushWrites == worker # "exited" => written = <<>>

ManagerInv == MP!FramesCarry /\ MP!KeyIsFrameId /\ OnlyFlushWrites

LEMMA ManagerInvHolds ==
    ASSUME MP!SameStride, MP!DistinctIds
    PROVE  Spec => []ManagerInv
<1>1. Init => ManagerInv
    BY DEF Init, Manager!Init, Manager!NoFrames, ManagerInv, OnlyFlushWrites,
           MP!FramesCarry, MP!KeyIsFrameId, MP!Live
<1>2. IInv /\ ManagerInv /\ [Next]_vars => ManagerInv'
    <2> SUFFICES ASSUME IInv, ManagerInv, [Next]_vars
                 PROVE  ManagerInv'
        OBVIOUS
    <2>1. MP!TypeOK
        BY SameType DEF IInv
    <2>2. CASE WorkerPush
        <3> DEFINE pkt == got["worker"]
        <3>1. pkt \in MP!RxPackets /\ MP!PushPacket(pkt) /\ written' = <<>>
            BY <2>2, PushesWhatItGot
        <3> HIDE DEF pkt
        <3>2. MP!FramesCarry'
            BY <2>1, <3>1, Assumptions, MP!PushKeepsCarry DEF ManagerInv
        <3>3. MP!KeyIsFrameId'
            BY <2>1, <3>1, Assumptions, MP!PushKeepsKeys DEF ManagerInv
        <3> QED
            BY <3>1, <3>2, <3>3 DEF ManagerInv, OnlyFlushWrites
    <2>3. CASE ~WorkerPush
        <3>1. MP!FramesCarry' /\ MP!KeyIsFrameId'
            BY <2>3, OnlyPushChangesReassemblers, Assumptions, MP!OthersKeepCarry
            DEF ManagerInv, MP!KeyIsFrameId
        <3>2. OnlyFlushWrites'
            BY <2>3
            DEF ManagerInv, OnlyFlushWrites, Next, Arrive, OnSignal, RxStep, RxCheck, RxPoll,
                RxReceive, RxNotify, WorkerStep, WorkerPop, PopTimesOut, WorkerTimer,
                WorkerCheck, WorkerDecide, WorkerFlush, MainStep, Tick, Terminated, vars,
                managerVars, workerVars, Manager!PollTimers, Manager!EmitFrames
        <3> QED
            BY <3>1, <3>2 DEF ManagerInv
    <2> QED
        BY <2>2, <2>3
<1> QED
    BY <1>1, <1>2, IInvHolds, PTL DEF Spec

(* In the composed receiver too, a frame handed over as complete is the frame   *)
(* sent, if both sides use one payload size, the ids are distinct, and the     *)
(* frames are short enough for their packet count.                            *)
THEOREM CompleteIsIntact ==
    ASSUME MP!SameStride, MP!DistinctIds, MP!CountsFit
    PROVE  Spec => []CompleteFramesIntact
<1>1. Init => CompleteFramesIntact
    BY DEF Init, Manager!Init, CompleteFramesIntact, Manager!CompleteFramesIntact
<1>2. CompleteFramesIntact /\ ManagerInv /\ IInv /\ [Next]_vars => CompleteFramesIntact'
    <2> SUFFICES ASSUME CompleteFramesIntact, ManagerInv, IInv, [Next]_vars
                 PROVE  CompleteFramesIntact'
        OBVIOUS
    <2>1. CASE done' = done \/ done' = <<>>
        BY <2>1 DEF CompleteFramesIntact, Manager!CompleteFramesIntact
    <2>2. CASE Manager!PollTimers
        <3>1. MP!PollTimers /\ MP!Due \in SUBSET MP!Live /\ MP!TypeOK
            BY <2>2, SameTimers, SameType DEF MP!Due, IInv
        <3> QED
            BY <3>1, Assumptions, MP!EmittedIsIntact, SameIntact DEF MP!PollTimers, ManagerInv
    <2> QED
        BY <2>1, <2>2
        DEF Next, Arrive, OnSignal, RxStep, RxCheck, RxPoll, RxReceive, RxNotify, WorkerStep,
            WorkerPop, PopTimesOut, WorkerPush, Manager!PushPacket, WorkerTimer, WorkerCheck,
            WorkerDecide, WorkerFlush, Manager!FlushAll, Manager!WriteFrames, MainStep, Tick,
            Terminated, vars, managerVars
<1> QED
    BY <1>1, <1>2, IInvHolds, ManagerInvHolds, PTL DEF Spec

-----------------------------------------------------------------------------
(* The two instances of the abstract specification are one.                   *)
LEMMA SameAssembly ==
    [MP!Assembly!Next]_(MP!Assembly!vars) => [Manager!Assembly!Next]_(Manager!Assembly!vars)
BY DEF MP!Assembly!Next, Manager!Assembly!Next, MP!Assembly!vars, Manager!Assembly!vars,
       MP!Live, Manager!Live, MP!Range, Manager!Range,
       MP!Assembly!Receive, Manager!Assembly!Receive, MP!Assembly!Parts, Manager!Assembly!Parts,
       MP!Assembly!HeldOf, Manager!Assembly!HeldOf, MP!Assembly!GiveUp, Manager!Assembly!GiveUp,
       MP!Assembly!HandedOver, Manager!Assembly!HandedOver,
       MP!Assembly!Assembled, Manager!Assembly!Assembled,
       MP!Assembly!SizeOf, Manager!Assembly!SizeOf,
       MP!Assembly!FrameWithId, Manager!Assembly!FrameWithId,
       MP!Assembly!EndIn, Manager!Assembly!EndIn, MP!Assembly!U16, Manager!Assembly!U16,
       MP!Assembly!PacketCount, Manager!Assembly!PacketCount,
       MP!Assembly!Quiet, Manager!Assembly!Quiet

(* The process as a whole hands over what FrameAssembly says and nothing else:   *)
(* whatever the threads, the queue, the timers and the shutdown do, each frame   *)
(* leaves as it was collected, the last ones by flushAll when the worker ends.    *)
THEOREM ReceiverImplementsAssembly ==
    ASSUME MP!SameStride, MP!DistinctIds
    PROVE  Spec => ImplementsAssembly
<1>1. Init => Manager!Assembly!Init
    <2>1. MP!Init => MP!Assembly!Init
        BY Assumptions, MP!NothingHeldAtFirst
    <2> QED
        BY <2>1
        DEF Init, Manager!Init, MP!Init, Queue!Init, Manager!NoFrames, MP!NoFrames,
            Manager!NewReassembler, MP!NewReassembler, Manager!Offsets, MP!Offsets,
            Manager!Assembly!Init, MP!Assembly!Init, Manager!Live, MP!Live,
            Manager!Range, MP!Range
<1>2. IInv /\ ManagerInv /\ [Next]_vars => [Manager!Assembly!Next]_(Manager!Assembly!vars)
    <2> SUFFICES ASSUME IInv, ManagerInv, [Next]_vars
                 PROVE  [MP!Assembly!Next]_(MP!Assembly!vars)
        BY SameAssembly
    <2>1. MP!TypeOK /\ MP!FramesCarry /\ MP!KeyIsFrameId
        BY SameType DEF IInv, ManagerInv
    <2>2. CASE WorkerPush
        <3> DEFINE pkt == got["worker"]
        <3>1. pkt \in MP!RxPackets /\ MP!PushPacket(pkt)
            BY <2>2, PushesWhatItGot
        <3> HIDE DEF pkt
        <3>2. MP!Assembly!Next
            BY <2>1, <3>1, Assumptions, MP!PushIsReceive DEF MP!Assembly!Next
        <3> QED
            BY <3>2
    <2>3. CASE Manager!PollTimers
        <3>1. MP!Assembly!Next
            BY <2>1, <2>3, SameTimers, Assumptions, MP!TimersAreNext
        <3> QED
            BY <3>1
    <2>4. CASE WorkerFlush
        <3>1. MP!Assembly!Next
            BY <2>1, <2>4, SameFlush, Assumptions, MP!FlushIsNext DEF WorkerFlush
        <3> QED
            BY <3>1
    <2>5. CASE WorkerCheck
        <3>1. MP!Bits' = MP!Bits /\ done' = <<>> /\ written' = <<>>
            BY <2>5 DEF WorkerCheck, ManagerInv, OnlyFlushWrites, MP!Bits, MP!Live
        <3>2. MP!Assembly!Next
            BY <3>1, Assumptions, MP!NothingIsQuiet
        <3> QED
            BY <3>2
    <2>6. CASE Tick
        <3>1. MP!Live' = MP!Live
              /\ \A id \in MP!Live : frames'[id].reassembler = frames[id].reassembler
            BY <2>6
            DEF Tick, MP!Live, Manager!Live, Manager!Older, IInv, Manager!TypeOK, Manager!Entry
        <3>2. UNCHANGED <<done, written>>
            BY <2>6 DEF Tick
        <3> QED
            BY <3>1, <3>2 DEF MP!Assembly!vars
    <2>7. CASE UNCHANGED <<frames, done, written>>
        BY <2>7 DEF MP!Assembly!vars, MP!Live
    <2> QED
        BY <2>2, <2>3, <2>4, <2>5, <2>6, <2>7
        DEF Next, Arrive, OnSignal, RxStep, RxCheck, RxPoll, RxReceive, RxNotify, WorkerStep,
            WorkerPop, PopTimesOut, WorkerTimer, WorkerDecide, MainStep, Terminated, vars,
            managerVars
<1> QED
    BY <1>1, <1>2, IInvHolds, ManagerInvHolds, PTL
    DEF Spec, ImplementsAssembly, Manager!ImplementsAssembly, Manager!Assembly!Spec
=============================================================================
