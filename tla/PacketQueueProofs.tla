-------------------------- MODULE PacketQueueProofs --------------------------
(***************************************************************************)
(* Theorems about PacketQueue, for any sets of producers and consumers, any *)
(* capacity and any packets.                                                *)
(***************************************************************************)
EXTENDS PacketQueue, FiniteSetTheorems, SequenceTheorems, TLAPS

(* The sets that NoLostWakeup counts are finite.                            *)
LEMMA CountedSetsFinite ==
    /\ IsFiniteSet(Notifying) /\ Cardinality(Notifying) \in Nat
    /\ IsFiniteSet(Woken) /\ Cardinality(Woken) \in Nat
<1>1. Notifying \in SUBSET Producers /\ Woken \in SUBSET Consumers
    BY DEF Notifying, Woken
<1>2. IsFiniteSet(Notifying) /\ IsFiniteSet(Woken)
    BY <1>1, FS_Subset, QueueAssumption
<1> QED
    BY <1>2, FS_CardinalityType

LEMMA CountedSetsFinitePrimed ==
    /\ IsFiniteSet(Notifying') /\ Cardinality(Notifying') \in Nat
    /\ IsFiniteSet(Woken') /\ Cardinality(Woken') \in Nat
<1>1. Notifying' \in SUBSET Producers /\ Woken' \in SUBSET Consumers
    BY DEF Notifying, Woken
<1>2. IsFiniteSet(Notifying') /\ IsFiniteSet(Woken')
    BY <1>1, FS_Subset, QueueAssumption
<1> QED
    BY <1>2, FS_CardinalityType

-----------------------------------------------------------------------------
(* The queue never outgrows capacity_, whatever the threads do, and every    *)
(* thread is at a place its kind of call has.                               *)
THEOREM TypeCorrect == Spec => []TypeOK
<1>1. Init => TypeOK
    <2> SUFFICES ASSUME Init
                 PROVE  TypeOK
        OBVIOUS
    <2>1. q \in Seq(Packets) /\ Len(q) = 0
        BY EmptySeq DEF Init
    <2>2. thread = [t \in Threads |-> "idle"] /\ got = [c \in Consumers |-> NoPacket]
        BY DEF Init
    <2>3. dropped \in Nat /\ shutdown \in BOOLEAN
        BY DEF Init
    <2> QED
        BY <2>1, <2>2, <2>3, QueueAssumption DEF TypeOK, Threads
<1>2. TypeOK /\ [Next]_vars => TypeOK'
    <2> SUFFICES ASSUME TypeOK, [Next]_vars
                 PROVE  TypeOK'
        OBVIOUS
    <2> USE QueueAssumption DEF TypeOK, Threads
    <2>1. ASSUME NEW p \in Producers, NEW pkt \in Packets, Push(p, pkt)
          PROVE  TypeOK'
        BY <2>1, AppendProperties DEF Push
    <2>2. ASSUME NEW p \in Producers, Notify(p)
          PROVE  TypeOK'
        BY <2>2 DEF Notify, Awakened, Asleep
    <2>3. ASSUME NEW c \in Consumers, TakeHead(c)
          PROVE  TypeOK'
        BY <2>3, HeadTailProperties DEF TakeHead
    <2>4. ASSUME NEW c \in Consumers, ReturnNothing(c)
          PROVE  TypeOK'
        BY <2>4 DEF ReturnNothing
    <2>5. ASSUME NEW c \in Consumers,
                 NEW how \in {"wait", "timedWait"}, Sleep(c, how)
          PROVE  TypeOK'
        BY <2>5 DEF Sleep
    <2>6. ASSUME NEW c \in Consumers, ConsumerCall(c) \/ ConsumerResume(c)
          PROVE  TypeOK'
        BY <2>6, <2>3, <2>4, <2>5
        DEF ConsumerCall, ConsumerResume, TryPop, PopUntil, Pop, PopOrShutdown,
            ResumePopUntil, ResumeBlocking, BlockingTurn
    <2>7. ASSUME NEW c \in Consumers, Timeout(c) \/ SpuriousWakeup(c)
          PROVE  TypeOK'
        BY <2>7 DEF Timeout, SpuriousWakeup, Awakened
    <2>8. CASE RequestShutdown
        BY <2>8 DEF RequestShutdown
    <2>9. CASE UNCHANGED vars
        BY <2>9 DEF vars
    <2> QED
        BY <2>1, <2>2, <2>6, <2>7, <2>8, <2>9 DEF Next, ProducerStep
<1> QED
    BY <1>1, <1>2, PTL DEF Spec

-----------------------------------------------------------------------------
(* The steps that change who sleeps, who was woken and who must notify.      *)

LEMMA PushKeepsWakeup ==
    ASSUME TypeOK, NoLostWakeup, NEW p \in Producers, NEW pkt \in Packets, Push(p, pkt)
    PROVE  NoLostWakeup'
<1> USE QueueAssumption
<1>1. Asleep' = Asleep /\ Woken' = Woken
    BY DEF Push, Asleep, Woken, TypeOK, Threads
<1>2. CASE Len(q) >= Capacity
    <2>1. Notifying' = Notifying /\ Len(q') = Len(q)
        BY <1>2 DEF Push, Notifying, TypeOK
    <2> QED
        BY <1>1, <2>1 DEF NoLostWakeup
<1>3. CASE Len(q) < Capacity
    <2>1. Notifying' = Notifying \cup {p} /\ p \notin Notifying
        BY <1>3 DEF Push, Notifying, TypeOK, Threads
    <2>2. Cardinality(Notifying') = Cardinality(Notifying) + 1
        BY <2>1, CountedSetsFinite, FS_AddElement
    <2>3. Len(q') = Len(q) + 1 /\ Len(q) \in Nat
        BY <1>3, AppendProperties, LenProperties DEF Push, TypeOK
    <2> QED
        BY <1>1, <2>2, <2>3, CountedSetsFinite DEF NoLostWakeup
<1> QED
    BY <1>2, <1>3, LenProperties DEF TypeOK

LEMMA NotifyKeepsWakeup ==
    ASSUME TypeOK, NoLostWakeup, NEW p \in Producers, Notify(p)
    PROVE  NoLostWakeup'
<1> USE QueueAssumption
<1>1. Notifying' = Notifying \ {p} /\ p \in Notifying
    BY DEF Notify, Awakened, Asleep, Notifying, TypeOK, Threads
<1>2. Cardinality(Notifying') = Cardinality(Notifying) - 1
    BY <1>1, CountedSetsFinite, FS_RemoveElement
<1>3. q' = q /\ Len(q) \in Nat
    BY LenProperties DEF Notify, TypeOK
<1>4. CASE Asleep = {}
    <2>1. Asleep' = {}
        BY <1>4 DEF Notify, Asleep, TypeOK, Threads
    <2> QED
        BY <2>1 DEF NoLostWakeup
<1>5. ASSUME NEW c \in Asleep,
             thread' = Awakened([thread EXCEPT ![p] = "idle"], c)
      PROVE  NoLostWakeup'
    <2>1. Woken' = Woken \cup {c} /\ c \notin Woken
        BY <1>5 DEF Notify, Awakened, Asleep, Woken, TypeOK, Threads
    <2>2. Cardinality(Woken') = Cardinality(Woken) + 1
        BY <2>1, CountedSetsFinite, FS_AddElement
    <2> QED
        BY <1>2, <1>3, <1>5, <2>2, CountedSetsFinite DEF NoLostWakeup
<1> QED
    BY <1>4, <1>5 DEF Notify

(* A consumer that leaves a pop takes a packet, if there was one.            *)
LEMMA LeavingKeepsWakeup ==
    ASSUME TypeOK, NoLostWakeup, NEW c \in Consumers, c \notin Asleep,
           TakeHead(c) \/ ReturnNothing(c)
    PROVE  NoLostWakeup'
<1> USE QueueAssumption
<1>1. Asleep' = Asleep /\ Notifying' = Notifying /\ Woken' = Woken \ {c}
    BY DEF TakeHead, ReturnNothing, Asleep, Notifying, Woken, TypeOK, Threads
<1>2. Cardinality(Woken') >= Cardinality(Woken) - 1
    <2>1. Cardinality(Woken \ {c}) =
            IF c \in Woken THEN Cardinality(Woken) - 1 ELSE Cardinality(Woken)
        BY CountedSetsFinite, FS_RemoveElement
    <2> QED
        BY <1>1, <2>1, CountedSetsFinite
<1>3. CASE TakeHead(c)
    <2>1. Len(q') = Len(q) - 1 /\ Len(q) \in Nat
        BY <1>3, HeadTailProperties, LenProperties DEF TakeHead, TypeOK
    <2> QED
        BY <1>1, <1>2, <2>1, CountedSetsFinite, CountedSetsFinitePrimed DEF NoLostWakeup
<1>4. CASE ReturnNothing(c)
    <2>1. Len(q') = 0
        BY <1>4, EmptySeq DEF ReturnNothing
    <2> QED
        BY <2>1, CountedSetsFinitePrimed DEF NoLostWakeup
<1> QED
    BY <1>3, <1>4

(* A consumer only falls asleep on an empty queue.                           *)
LEMMA SleepKeepsWakeup ==
    ASSUME TypeOK, NEW c \in Consumers, NEW how, Sleep(c, how)
    PROVE  NoLostWakeup'
<1>1. Len(q') = 0
    BY EmptySeq DEF Sleep
<1> QED
    BY <1>1, CountedSetsFinitePrimed DEF NoLostWakeup

LEMMA WakingKeepsWakeup ==
    ASSUME TypeOK, NoLostWakeup, NEW c \in Consumers, Timeout(c) \/ SpuriousWakeup(c)
    PROVE  NoLostWakeup'
<1> USE QueueAssumption
<1>1. Notifying' = Notifying /\ Woken' = Woken \cup {c} /\ c \notin Woken
    BY DEF Timeout, SpuriousWakeup, Awakened, Notifying, Woken, TypeOK, Threads
<1>2. Cardinality(Woken') = Cardinality(Woken) + 1
    BY <1>1, CountedSetsFinite, FS_AddElement
<1>3. Asleep # {} /\ q' = q /\ Len(q) \in Nat
    BY LenProperties DEF Timeout, SpuriousWakeup, Asleep, TypeOK
<1> QED
    BY <1>1, <1>2, <1>3, CountedSetsFinite DEF NoLostWakeup

(* No consumer of the queue sleeps while a packet is queued that nobody was  *)
(* woken, or is about to be woken, to take.                                 *)
THEOREM NoWakeupIsLost == Spec => []NoLostWakeup
<1>1. Init => NoLostWakeup
    BY EmptySeq, CountedSetsFinite DEF Init, NoLostWakeup
<1>2. TypeOK /\ NoLostWakeup /\ [Next]_vars => NoLostWakeup'
    <2> SUFFICES ASSUME TypeOK, NoLostWakeup, [Next]_vars
                 PROVE  NoLostWakeup'
        OBVIOUS
    <2>1. ASSUME NEW p \in Producers, ProducerStep(p)
          PROVE  NoLostWakeup'
        BY <2>1, PushKeepsWakeup, NotifyKeepsWakeup DEF ProducerStep
    <2>2. ASSUME NEW c \in Consumers, ConsumerCall(c) \/ ConsumerResume(c)
          PROVE  NoLostWakeup'
        <3>1. c \notin Asleep
            BY <2>2 DEF ConsumerCall, ConsumerResume, TryPop, PopUntil, Pop,
                        PopOrShutdown, ResumePopUntil, ResumeBlocking, Asleep
        <3>2. \/ TakeHead(c) \/ ReturnNothing(c)
              \/ Sleep(c, "wait") \/ Sleep(c, "timedWait")
            BY <2>2 DEF ConsumerCall, ConsumerResume, TryPop, PopUntil, Pop, PopOrShutdown,
                        ResumePopUntil, ResumeBlocking, BlockingTurn
        <3> QED
            BY <3>1, <3>2, LeavingKeepsWakeup, SleepKeepsWakeup
    <2>3. ASSUME NEW c \in Consumers, Timeout(c) \/ SpuriousWakeup(c)
          PROVE  NoLostWakeup'
        BY <2>3, WakingKeepsWakeup
    <2>4. CASE RequestShutdown
        BY <2>4 DEF RequestShutdown, NoLostWakeup, Asleep, Notifying, Woken
    <2>5. CASE UNCHANGED vars
        BY <2>5 DEF vars, NoLostWakeup, Asleep, Notifying, Woken
    <2> QED
        BY <2>1, <2>2, <2>3, <2>4, <2>5 DEF Next
<1> QED
    BY <1>1, <1>2, TypeCorrect, PTL DEF Spec
=============================================================================
