---------------------------- MODULE TraceRingProofs ----------------------------
(***************************************************************************)
(* Theorems about TraceRing, for a ring of any size and any number of packets. *)
(***************************************************************************)
EXTENDS TraceRing, SequenceTheorems, TLAPS

LEMMA SlotType ==
    ASSUME NEW n \in Nat
    PROVE  n % RingSize \in Slots
BY RingAssumption DEF Slots

(* Two numbers of one round of the ring have two slots.                       *)
LEMMA SlotsDiffer ==
    ASSUME NEW m \in Nat, NEW n \in Nat, m < n, n < m + RingSize
    PROVE  m % RingSize # n % RingSize
<1> DEFINE p == m \div RingSize
           q == n \div RingSize
<1>1. RingSize \in Nat /\ RingSize > 0
    BY RingAssumption
<1>2. /\ p \in Nat /\ m = p * RingSize + (m % RingSize)
      /\ q \in Nat /\ n = q * RingSize + (n % RingSize)
    BY <1>1
<1>3. SUFFICES ASSUME m % RingSize = n % RingSize
               PROVE  FALSE
    OBVIOUS
<1> HIDE DEF p, q
<1>4. m % RingSize \in Nat /\ p * RingSize \in Nat /\ q * RingSize \in Nat
    BY <1>1, <1>2
<1>5. p * RingSize < q * RingSize /\ q * RingSize < p * RingSize + RingSize
    BY <1>1, <1>2, <1>3, <1>4
<1>6. CASE q <= p
    <2>1. q * RingSize <= p * RingSize
        BY <1>1, <1>2, <1>6
    <2> QED
        BY <1>4, <1>5, <2>1
<1>7. CASE p + 1 <= q
    <2>1. p * RingSize + RingSize <= q * RingSize
        BY <1>1, <1>2, <1>7
    <2> QED
        BY <1>1, <1>4, <1>5, <2>1
<1> QED
    BY <1>2, <1>6, <1>7

LEMMA SequenceOf ==
    ASSUME NEW S, NEW n \in Nat, NEW f \in [1 .. n -> S]
    PROVE  f \in Seq(S)
OBVIOUS

(* Nothing is kept anywhere but entries of the ring's type, and no thread       *)
(* traces before it has something to trace.                                 *)
THEOREM TypeCorrect == Spec => []TypeOK
<1>1. Init => TypeOK
    <2> SUFFICES ASSUME Init
                 PROVE  TypeOK
        OBVIOUS
    <2>1. /\ queue \in Seq(Nat) /\ numbered \in Seq(Entry)
          /\ lines \in Seq([first : Half, rest : Half])
        BY EmptySeq DEF Init
    <2>2. ring \in [Slots -> [first : Half, rest : Half]]
        BY DEF Init, Half
    <2>3. /\ place \in [Threads -> {"top", "take", "first", "rest", "push", "exited"}]
          /\ \A t \in Threads : place[t] \notin {"top", "exited"} => entry[t] \in Entry
          /\ seq \in [Threads -> Nat] /\ entry \in [Threads -> Half]
        BY DEF Init, Half
    <2>4. write_seq \in Nat /\ arrived \in 0 .. MaxPackets
        BY RingAssumption DEF Init
    <2>5. stop \in BOOLEAN /\ lapped \in BOOLEAN
        BY DEF Init
    <2> QED
        BY <2>1, <2>2, <2>3, <2>4, <2>5 DEF TypeOK
<1>2. TypeOK /\ [Next]_vars => TypeOK'
    <2> SUFFICES ASSUME TypeOK, [Next]_vars
                 PROVE  TypeOK'
        OBVIOUS
    <2>1. ASSUME NEW t \in Threads, TakeNumber(t)
          PROVE  TypeOK'
        <3>1. entry[t] \in Entry
            BY <2>1 DEF TypeOK, TakeNumber
        <3>2. numbered' \in Seq(Entry)
            BY <2>1, <3>1, AppendProperties DEF TakeNumber, TypeOK
        <3> QED
            BY <2>1, <3>2 DEF TakeNumber, TypeOK
    <2>2. ASSUME NEW t \in Threads, CopyFirst(t) \/ CopyRest(t)
          PROVE  TypeOK'
        <3>1. entry[t] \in Half /\ SlotOf(t) \in Slots
            BY SlotType DEF TypeOK, SlotOf
        <3>2. ring' \in [Slots -> [first : Half, rest : Half]]
            <4>1. CASE CopyFirst(t)
                BY <3>1, <4>1 DEF TypeOK, CopyFirst
            <4>2. CASE CopyRest(t)
                BY <3>1, <4>2 DEF TypeOK, CopyRest
            <4> QED
                BY <2>2, <4>1, <4>2
        <3>3. lapped' \in BOOLEAN
            BY <2>2 DEF TypeOK, CopyFirst, CopyRest, Overtaken
        <3>4. /\ place' \in [Threads ->
                               {"top", "take", "first", "rest", "push", "exited"}]
              /\ \A u \in Threads : place'[u] \notin {"top", "exited"}
                                         => entry'[u] \in Entry
            BY <2>2 DEF TypeOK, CopyFirst, CopyRest
        <3> QED
            BY <2>2, <3>2, <3>3, <3>4 DEF CopyFirst, CopyRest, TypeOK
    <2>3. CASE RxReceive
        <3>1. [by |-> "rx", packet |-> arrived + 1] \in Entry
            BY RingAssumption DEF TypeOK, Entry, Threads
        <3>2. /\ entry' \in [Threads -> Half]
              /\ \A u \in Threads : place'[u] \notin {"top", "exited"}
                                         => entry'[u] \in Entry
              /\ place' \in [Threads ->
                               {"top", "take", "first", "rest", "push", "exited"}]
            BY <2>3, <3>1 DEF RxReceive, TypeOK, Half
        <3>3. arrived' \in 0 .. MaxPackets
            BY <2>3, RingAssumption DEF RxReceive, TypeOK
        <3> QED
            BY <2>3, <3>2, <3>3 DEF RxReceive, traceVars, TypeOK
    <2>4. CASE RxPush
        <3>1. entry["rx"].packet \in Nat
            BY <2>4 DEF RxPush, TypeOK, Entry, Threads
        <3>2. Append(queue, entry["rx"].packet) \in Seq(Nat)
            BY <3>1, AppendProperties DEF TypeOK
        <3>3. queue' \in Seq(Nat)
            BY <2>4, <3>2 DEF RxPush, TypeOK
        <3> QED
            BY <2>4, <3>3 DEF RxPush, traceVars, TypeOK
    <2>5. CASE WorkerPop
        <3>1. Head(queue) \in Nat /\ queue' \in Seq(Nat)
            BY <2>5, HeadTailProperties DEF WorkerPop, TypeOK
        <3>2. [by |-> "worker", packet |-> Head(queue)] \in Entry
            BY <3>1 DEF Entry, Threads
        <3>3. /\ entry' \in [Threads -> Half]
              /\ \A u \in Threads : place'[u] \notin {"top", "exited"}
                                         => entry'[u] \in Entry
              /\ place' \in [Threads ->
                               {"top", "take", "first", "rest", "push", "exited"}]
            BY <2>5, <3>2 DEF WorkerPop, TypeOK, Half
        <3> QED
            BY <2>5, <3>1, <3>3 DEF WorkerPop, traceVars, TypeOK
    <2>6. CASE Signal
        BY <2>6 DEF Signal, traceVars, TypeOK
    <2>7. ASSUME NEW t \in Threads, Exit(t)
          PROVE  TypeOK'
        BY <2>7 DEF Exit, traceVars, TypeOK
    <2>8. CASE Dump
        <3>1. Start \in Nat /\ Start <= write_seq
            BY RingAssumption DEF Start, TypeOK
        <3>2. \A i \in 1 .. (write_seq - Start) : (Start + (i - 1)) % RingSize \in Slots
            BY <3>1, SlotType DEF TypeOK
        <3>3. lines' \in Seq([first : Half, rest : Half])
            <4>1. \A i \in 1 .. (write_seq - Start) :
                     ring[(Start + (i - 1)) % RingSize] \in [first : Half, rest : Half]
                BY <3>2 DEF TypeOK
            <4>2. write_seq - Start \in Nat
                BY <3>1 DEF TypeOK
            <4>3. lines' \in [1 .. (write_seq - Start) -> [first : Half, rest : Half]]
                BY <2>8, <4>1 DEF Dump
            <4> QED
                BY <4>2, <4>3, SequenceOf
        <3> QED
            BY <2>8, <3>3 DEF Dump, traceVars, TypeOK
    <2>9. CASE UNCHANGED vars
        BY <2>9 DEF vars, TypeOK
    <2> QED
        BY <2>1, <2>2, <2>3, <2>4, <2>5, <2>6, <2>7, <2>8, <2>9 DEF Next, Trace
<1> QED
    BY <1>1, <1>2, PTL DEF Spec

-----------------------------------------------------------------------------
(* Between taking a number and the end of the copy.                           *)
Copying(t) == place[t] \in {"first", "rest"}

(* What a thread that copies knows: its number is one of those taken, for its   *)
(* entry, and no other thread has it.                                       *)
NumbersTaken ==
    /\ Len(numbered) = write_seq
    /\ \A t \in Threads :
          Copying(t) => seq[t] < write_seq /\ entry[t] = numbered[seq[t] + 1]
    /\ \A t, u \in Threads : Copying(t) /\ Copying(u) /\ t # u => seq[t] # seq[u]

LEMMA NumbersTakenInvariant == Spec => []NumbersTaken
<1>1. Init => NumbersTaken
    BY EmptySeq DEF Init, NumbersTaken, Copying
<1>2. NumbersTaken /\ TypeOK /\ [Next]_vars => NumbersTaken'
    <2> SUFFICES ASSUME NumbersTaken, TypeOK, [Next]_vars
                 PROVE  NumbersTaken'
        OBVIOUS
    <2>1. ASSUME NEW t \in Threads, TakeNumber(t)
          PROVE  NumbersTaken'
        <3>1. entry[t] \in Entry /\ write_seq \in Nat
            BY <2>1 DEF TypeOK, TakeNumber
        <3>2. /\ numbered' = Append(numbered, entry[t])
              /\ Len(numbered') = write_seq + 1
              /\ numbered'[write_seq + 1] = entry[t]
              /\ \A i \in 1 .. write_seq : numbered'[i] = numbered[i]
            <4>1. numbered \in Seq(Entry) /\ Len(numbered) = write_seq
                BY DEF TypeOK, NumbersTaken
            <4> QED
                BY <2>1, <3>1, <4>1, AppendProperties DEF TakeNumber
        <3>3. write_seq' = write_seq + 1 /\ entry' = entry
            BY <2>1 DEF TakeNumber
        <3>4. ASSUME NEW u \in Threads, Copying(u)'
              PROVE  /\ seq'[u] < write_seq' /\ entry'[u] = numbered'[seq'[u] + 1]
                     /\ u = t => seq'[u] = write_seq
                     /\ u # t => Copying(u) /\ seq'[u] = seq[u] /\ seq[u] < write_seq
            <4>1. CASE u = t
                <5>1. seq'[u] = write_seq
                    BY <2>1, <4>1 DEF TakeNumber, TypeOK
                <5> QED
                    BY <3>1, <3>2, <3>3, <4>1, <5>1
            <4>2. CASE u # t
                <5>1. seq'[u] = seq[u] /\ Copying(u) /\ seq[u] \in Nat
                    BY <2>1, <3>4, <4>2 DEF TakeNumber, TypeOK, Copying
                <5>2. seq[u] < write_seq /\ entry[u] = numbered[seq[u] + 1]
                    BY <5>1 DEF NumbersTaken
                <5>3. seq[u] + 1 \in 1 .. write_seq
                    BY <3>1, <5>1, <5>2
                <5> QED
                    BY <3>1, <3>2, <3>3, <4>2, <5>1, <5>2, <5>3
            <4> QED
                BY <4>1, <4>2
        <3>5. ASSUME NEW u \in Threads, NEW v \in Threads,
                     Copying(u)', Copying(v)', u # v
              PROVE  seq'[u] # seq'[v]
            <4>1. CASE u # t /\ v # t
                BY <3>4, <3>5, <4>1 DEF NumbersTaken
            <4>2. CASE u = t \/ v = t
                BY <3>1, <3>4, <3>5, <4>2 DEF TypeOK
            <4> QED
                BY <4>1, <4>2
        <3> QED
            BY <3>2, <3>3, <3>4, <3>5 DEF NumbersTaken
    <2>2. ASSUME UNCHANGED <<write_seq, seq, numbered>>,
                 \A u \in Threads : Copying(u)' => Copying(u) /\ entry'[u] = entry[u]
          PROVE  NumbersTaken'
        BY <2>2 DEF NumbersTaken
    <2>3. ASSUME NEW t \in Threads, CopyFirst(t) \/ CopyRest(t)
          PROVE  NumbersTaken'
        BY <2>2, <2>3 DEF CopyFirst, CopyRest, Copying, TypeOK
    <2>4. CASE RxReceive \/ RxPush \/ WorkerPop
        BY <2>2, <2>4 DEF RxReceive, RxPush, WorkerPop, Copying, TypeOK, traceVars, Threads
    <2>5. CASE Signal \/ Dump \/ UNCHANGED vars
        BY <2>2, <2>5 DEF Signal, Dump, vars, traceVars, Copying
    <2>6. ASSUME NEW t \in Threads, Exit(t)
          PROVE  NumbersTaken'
        BY <2>2, <2>6 DEF Exit, traceVars, Copying, TypeOK
    <2> QED
        BY <2>1, <2>3, <2>4, <2>5, <2>6 DEF Next, Trace
<1> QED
    BY <1>1, <1>2, TypeCorrect, PTL DEF Spec

-----------------------------------------------------------------------------
(* As long as nobody was overtaken, each number of the last round is still      *)
(* being copied, or its entry is whole in its slot.                          *)
LastRound(n) == n < write_seq /\ write_seq <= n + RingSize

InTheMaking(n) ==
    \E t \in Threads :
        /\ Copying(t) /\ seq[t] = n
        /\ place[t] = "rest" => ring[n % RingSize].first = numbered[n + 1]

RoundKept ==
    ~lapped => \A n \in Nat : LastRound(n) =>
                  InTheMaking(n) \/ ring[n % RingSize] = Whole(numbered[n + 1])

LEMMA RoundKeptInvariant == Spec => []RoundKept
<1>1. Init => RoundKept
    <2> SUFFICES ASSUME Init, NEW n \in Nat, LastRound(n)
                 PROVE  FALSE
        BY DEF RoundKept
    <2> QED
        BY DEF Init, LastRound
<1>2. RoundKept /\ NumbersTaken /\ TypeOK /\ [Next]_vars => RoundKept'
    <2> SUFFICES ASSUME RoundKept, NumbersTaken, TypeOK, [Next]_vars, ~lapped'
                 PROVE  RoundKept'
        BY DEF RoundKept
    <2>1. ASSUME NEW t \in Threads, TakeNumber(t)
          PROVE  RoundKept'
        <3>1. /\ entry[t] \in Entry /\ write_seq \in Nat /\ numbered \in Seq(Entry)
              /\ Len(numbered) = write_seq /\ ~lapped
              /\ write_seq' = write_seq + 1 /\ ring' = ring
            BY <2>1 DEF TypeOK, NumbersTaken, TakeNumber
        <3>2. \A i \in 1 .. write_seq : numbered'[i] = numbered[i]
            BY <2>1, <3>1, AppendProperties DEF TakeNumber
        <3>3. ASSUME NEW n \in Nat, LastRound(n)'
              PROVE  InTheMaking(n)' \/ ring'[n % RingSize] = Whole(numbered'[n + 1])
            <4>1. CASE n = write_seq
                <5>1. /\ place'[t] = "first" /\ seq'[t] = n
                    BY <2>1, <4>1 DEF TakeNumber, TypeOK
                <5> QED
                    BY <5>1 DEF InTheMaking, Copying
            <4>2. CASE n # write_seq
                <5>1. LastRound(n) /\ n + 1 \in 1 .. write_seq
                    BY <3>1, <3>3, <4>2, RingAssumption DEF LastRound
                <5>2. numbered'[n + 1] = numbered[n + 1]
                    BY <3>2, <5>1
                <5>3. CASE InTheMaking(n)
                    <6>1. PICK u \in Threads :
                              /\ Copying(u) /\ seq[u] = n
                              /\ place[u] = "rest"
                                    => ring[n % RingSize].first = numbered[n + 1]
                        BY <5>3 DEF InTheMaking
                    <6>2. u # t
                        BY <2>1, <6>1 DEF TakeNumber, Copying
                    <6>3. place'[u] = place[u] /\ seq'[u] = seq[u]
                        BY <2>1, <6>2 DEF TakeNumber, TypeOK
                    <6> QED
                        BY <3>1, <5>2, <6>1, <6>3 DEF InTheMaking, Copying
                <5>4. CASE ring[n % RingSize] = Whole(numbered[n + 1])
                    BY <3>1, <5>2, <5>4
                <5> QED
                    BY <3>1, <5>1, <5>3, <5>4 DEF RoundKept
            <4> QED
                BY <4>1, <4>2
        <3> QED
            BY <3>3 DEF RoundKept
    <2>2. ASSUME NEW t \in Threads, CopyFirst(t) \/ CopyRest(t)
          PROVE  RoundKept'
        <3> DEFINE m == seq[t]
        <3>1. /\ Copying(t) /\ m \in Nat /\ write_seq \in Nat
              /\ m < write_seq /\ entry[t] = numbered[m + 1]
              /\ ~lapped /\ write_seq <= m + RingSize
            <4>1. Copying(t) /\ m \in Nat /\ write_seq \in Nat
                BY <2>2 DEF CopyFirst, CopyRest, Copying, TypeOK
            <4>2. ~lapped /\ ~Overtaken(t)
                BY <2>2 DEF CopyFirst, CopyRest
            <4> QED
                BY <4>1, <4>2, RingAssumption DEF Overtaken, NumbersTaken
        <3>2. /\ write_seq' = write_seq /\ seq' = seq /\ numbered' = numbered
              /\ \A u \in Threads : u # t => place'[u] = place[u]
            BY <2>2 DEF CopyFirst, CopyRest, TypeOK
        <3>3. /\ m % RingSize \in Slots
              /\ \A slot \in Slots : slot # m % RingSize => ring'[slot] = ring[slot]
            BY <2>2, <3>1, SlotType DEF CopyFirst, CopyRest, SlotOf, TypeOK
        <3>4. ASSUME NEW n \in Nat, LastRound(n), n # m
              PROVE  InTheMaking(n)' \/ ring'[n % RingSize] = Whole(numbered'[n + 1])
            <4>1. n % RingSize # m % RingSize
                <5>1. CASE n < m
                    <6>1. m < n + RingSize
                        BY <3>1, <3>4, RingAssumption DEF LastRound
                    <6> QED
                        BY <3>1, <5>1, <6>1, SlotsDiffer
                <5>2. CASE m < n
                    <6>1. n < m + RingSize
                        BY <3>1, <3>4, RingAssumption DEF LastRound
                    <6> QED
                        BY <3>1, <5>2, <6>1, SlotsDiffer
                <5> QED
                    BY <3>1, <3>4, <5>1, <5>2
            <4>2. ring'[n % RingSize] = ring[n % RingSize]
                BY <3>3, <4>1, SlotType
            <4>3. CASE InTheMaking(n)
                <5>1. PICK u \in Threads :
                          /\ Copying(u) /\ seq[u] = n
                          /\ place[u] = "rest"
                                => ring[n % RingSize].first = numbered[n + 1]
                    BY <4>3 DEF InTheMaking
                <5>2. u # t
                    BY <3>4, <5>1
                <5> QED
                    BY <3>2, <4>2, <5>1, <5>2 DEF InTheMaking, Copying
            <4>4. CASE ring[n % RingSize] = Whole(numbered[n + 1])
                BY <3>2, <4>2, <4>4
            <4> QED
                BY <3>1, <3>4, <4>3, <4>4 DEF RoundKept
        <3>5. InTheMaking(m)' \/ ring'[m % RingSize] = Whole(numbered'[m + 1])
            <4>1. CASE CopyFirst(t)
                <5>1. /\ place'[t] = "rest"
                      /\ ring'[m % RingSize].first = numbered[m + 1]
                    BY <3>1, <3>3, <4>1 DEF CopyFirst, SlotOf, TypeOK
                <5> QED
                    BY <3>2, <5>1 DEF InTheMaking, Copying
            <4>2. CASE CopyRest(t)
                <5>1. ring[m % RingSize].first = numbered[m + 1]
                    <6>1. CASE InTheMaking(m)
                        <7>1. PICK u \in Threads :
                                  /\ Copying(u) /\ seq[u] = m
                                  /\ place[u] = "rest"
                                        => ring[m % RingSize].first = numbered[m + 1]
                            BY <6>1 DEF InTheMaking
                        <7>2. u = t
                            BY <3>1, <7>1 DEF NumbersTaken
                        <7> QED
                            BY <4>2, <7>1, <7>2 DEF CopyRest
                    <6>2. CASE ring[m % RingSize] = Whole(numbered[m + 1])
                        BY <6>2 DEF Whole
                    <6>3. LastRound(m)
                        BY <3>1 DEF LastRound
                    <6> QED
                        BY <3>1, <6>1, <6>2, <6>3 DEF RoundKept
                <5>2. ring'[m % RingSize] = [ring[m % RingSize] EXCEPT !.rest = entry[t]]
                    BY <3>3, <4>2 DEF CopyRest, SlotOf, TypeOK
                <5>3. ring[m % RingSize] \in [first : Half, rest : Half]
                    BY <3>3 DEF TypeOK
                <5> QED
                    BY <3>1, <3>2, <5>1, <5>2, <5>3 DEF Whole
            <4> QED
                BY <2>2, <4>1, <4>2
        <3>6. \A n \in Nat : LastRound(n)' <=> LastRound(n)
            BY <3>2 DEF LastRound
        <3>7. \A n \in Nat : LastRound(n)' =>
                  InTheMaking(n)' \/ ring'[n % RingSize] = Whole(numbered'[n + 1])
            <4> SUFFICES ASSUME NEW n \in Nat, LastRound(n)'
                         PROVE  InTheMaking(n)' \/ ring'[n % RingSize] = Whole(numbered'[n + 1])
                OBVIOUS
            <4>1. CASE n = m
                <5>1. CASE InTheMaking(m)'
                    BY <3>2, <4>1, <5>1 DEF InTheMaking
                <5>2. CASE ring'[m % RingSize] = Whole(numbered'[m + 1])
                    BY <4>1, <5>2
                <5> QED
                    BY <3>5, <5>1, <5>2
            <4>2. CASE n # m
                BY <3>4, <3>6, <4>2
            <4> QED
                BY <4>1, <4>2
        <3> QED
            BY <3>7 DEF RoundKept
    <2>3. ASSUME UNCHANGED traceVars,
                 \A u \in Threads : Copying(u) => place'[u] = place[u]
          PROVE  RoundKept'
        <3>1. \A n \in Nat : InTheMaking(n) => InTheMaking(n)'
            BY <2>3 DEF traceVars, InTheMaking, Copying
        <3> QED
            BY <2>3, <3>1 DEF traceVars, RoundKept, LastRound
    <2>4. CASE RxReceive \/ RxPush \/ WorkerPop
        BY <2>3, <2>4 DEF RxReceive, RxPush, WorkerPop, Copying, TypeOK, Threads
    <2>5. CASE Signal \/ Dump \/ UNCHANGED vars
        BY <2>3, <2>5 DEF Signal, Dump, vars, traceVars
    <2>6. ASSUME NEW t \in Threads, Exit(t)
          PROVE  RoundKept'
        BY <2>3, <2>6 DEF Exit, Copying, TypeOK
    <2> QED
        BY <2>1, <2>2, <2>4, <2>5, <2>6 DEF Next, Trace
<1> QED
    BY <1>1, <1>2, NumbersTakenInvariant, TypeCorrect, PTL DEF Spec

-----------------------------------------------------------------------------
(* Once dumped, the file is the end of the ring as it is and stays.            *)
DumpIsOfTheEnd ==
    lines # <<>> =>
        /\ \A t \in Threads : place[t] = "exited"
        /\ lines = [i \in 1 .. (write_seq - Start) |-> ring[(Start + (i - 1)) % RingSize]]

LEMMA DumpIsOfTheEndInvariant == Spec => []DumpIsOfTheEnd
<1>1. Init => DumpIsOfTheEnd
    BY DEF Init, DumpIsOfTheEnd
<1>2. DumpIsOfTheEnd /\ TypeOK /\ [Next]_vars => DumpIsOfTheEnd'
    <2> SUFFICES ASSUME DumpIsOfTheEnd, TypeOK, [Next]_vars
                 PROVE  DumpIsOfTheEnd'
        OBVIOUS
    <2>1. CASE lines = <<>> /\ ~Dump
        <3>1. lines' = <<>>
            BY <2>1 DEF Next, Trace, TakeNumber, CopyFirst, CopyRest, RxReceive, RxPush,
                        WorkerPop, Signal, Exit, vars
        <3> QED
            BY <3>1 DEF DumpIsOfTheEnd
    <2>2. CASE Dump
        BY <2>2 DEF Dump, DumpIsOfTheEnd, traceVars, Start
    <2>3. CASE lines # <<>> /\ ~Dump
        <3>1. \A t \in Threads : place[t] = "exited"
            BY <2>3 DEF DumpIsOfTheEnd
        <3>2. CASE Signal \/ UNCHANGED vars
            BY <2>3, <3>2 DEF DumpIsOfTheEnd, Signal, vars, traceVars, Start
        <3>3. "rx" \in Threads /\ "worker" \in Threads
            BY DEF Threads
        <3> QED
            BY <2>3, <3>1, <3>2, <3>3
            DEF Next, Trace, TakeNumber, CopyFirst, CopyRest, RxReceive, RxPush,
                WorkerPop, Exit
    <2> QED
        BY <2>1, <2>2, <2>3
<1> QED
    BY <1>1, <1>2, TypeCorrect, PTL DEF Spec

(* Whatever the size of the ring and however the two threads interleave, the    *)
(* dump is the last round of the trace, entry by entry, each whole and at its   *)
(* number, if no copy was overtaken by a round of the ring.                   *)
THEOREM DumpIsFaithful == Spec => []DumpTellsTheEnd
<1>1. TypeOK /\ NumbersTaken /\ RoundKept /\ DumpIsOfTheEnd => DumpTellsTheEnd
    <2> SUFFICES ASSUME TypeOK, RoundKept, DumpIsOfTheEnd, lines # <<>>, ~lapped
                 PROVE  /\ Start + Len(lines) = write_seq
                        /\ Len(lines) = RingSize \/ Start = 0
                        /\ \A i \in DOMAIN lines : lines[i] = Whole(numbered[Start + i])
        BY DEF DumpTellsTheEnd
    <2>1. /\ write_seq \in Nat /\ Start \in Nat /\ Start <= write_seq
          /\ write_seq <= Start + RingSize
          /\ write_seq - Start = RingSize \/ Start = 0
        BY RingAssumption DEF Start, TypeOK
    <2>2. lines = [i \in 1 .. (write_seq - Start) |-> ring[(Start + (i - 1)) % RingSize]]
        BY DEF DumpIsOfTheEnd
    <2>3. Len(lines) = write_seq - Start
        <3>1. write_seq - Start \in Nat /\ DOMAIN lines = 1 .. (write_seq - Start)
            BY <2>1, <2>2
        <3>2. lines \in Seq([first : Half, rest : Half])
            BY DEF TypeOK
        <3> QED
            BY <3>1, <3>2, LenProperties
    <2>4. ASSUME NEW i \in DOMAIN lines
          PROVE  lines[i] = Whole(numbered[Start + i])
        <3> DEFINE n == Start + (i - 1)
        <3>1. i \in 1 .. (write_seq - Start)
            BY <2>2, <2>4
        <3>2. n \in Nat /\ LastRound(n) /\ n + 1 = Start + i
            BY <2>1, <3>1, RingAssumption DEF LastRound
        <3>3. lines[i] = ring[n % RingSize]
            BY <2>2, <3>1
        <3>4. ~InTheMaking(n)
            BY DEF InTheMaking, Copying, DumpIsOfTheEnd
        <3> HIDE DEF n
        <3> QED
            BY <3>2, <3>3, <3>4 DEF RoundKept
    <2> QED
        BY <2>1, <2>3, <2>4
<1> QED
    BY <1>1, TypeCorrect, NumbersTakenInvariant, RoundKeptInvariant,
       DumpIsOfTheEndInvariant, PTL

-----------------------------------------------------------------------------
(* A packet that is in the queue, or with the worker, was traced on arrival.    *)
Arrival(p) == \E i \in DOMAIN numbered : numbered[i] = [by |-> "rx", packet |-> p]

TracedOnArrival ==
    /\ place["rx"] \notin {"top", "exited"} => entry["rx"].by = "rx"
    /\ place["rx"] \in {"first", "rest", "push"} => Arrival(entry["rx"].packet)
    /\ \A k \in DOMAIN queue : Arrival(queue[k])
    /\ place["worker"] \notin {"top", "exited"} => Arrival(entry["worker"].packet)

(* Relaxed atomics are enough: in the trace each packet arrives before the      *)
(* worker has it, because the RX thread takes its number before the push.      *)
THEOREM ArrivalIsFirst == Spec => []ArrivalComesFirst
<1> DEFINE Inv == TracedOnArrival /\ ArrivalComesFirst
<1>1. Init => Inv
    <2> SUFFICES ASSUME Init
                 PROVE  TracedOnArrival /\ ArrivalComesFirst
        OBVIOUS
    <2>1. DOMAIN queue = {} /\ DOMAIN numbered = {}
        BY DEF Init
    <2>2. place["rx"] = "top" /\ place["worker"] = "top"
        BY DEF Init, Threads
    <2>3. TracedOnArrival
        BY <2>1, <2>2 DEF TracedOnArrival
    <2>4. ArrivalComesFirst
        BY <2>1 DEF ArrivalComesFirst
    <2> QED
        BY <2>3, <2>4
<1>2. Inv /\ TypeOK /\ [Next]_vars => Inv'
    <2> SUFFICES ASSUME TracedOnArrival, ArrivalComesFirst, TypeOK, [Next]_vars
                 PROVE  TracedOnArrival' /\ ArrivalComesFirst'
        OBVIOUS
    <2>1. ASSUME NEW t \in Threads, TakeNumber(t)
          PROVE  TracedOnArrival' /\ ArrivalComesFirst'
        <3> DEFINE n == Len(numbered)
        <3>1. entry[t] \in Entry /\ numbered \in Seq(Entry) /\ n \in Nat
            BY <2>1, LenProperties DEF TakeNumber, TypeOK
        <3>2. /\ DOMAIN numbered = 1 .. n /\ DOMAIN numbered' = 1 .. (n + 1)
              /\ numbered'[n + 1] = entry[t]
              /\ \A i \in 1 .. n : numbered'[i] = numbered[i]
            BY <2>1, <3>1, AppendProperties, LenProperties DEF TakeNumber
        <3>3. ASSUME NEW p, Arrival(p)
              PROVE  Arrival(p)'
            BY <3>1, <3>2, <3>3 DEF Arrival
        <3>4. /\ entry' = entry /\ queue' = queue
              /\ place[t] = "take" /\ place'[t] = "first"
              /\ \A u \in Threads : u # t => place'[u] = place[u]
            BY <2>1 DEF TakeNumber, TypeOK
        <3>5. t = "rx" => Arrival(entry["rx"].packet)'
            <4> SUFFICES ASSUME t = "rx"
                         PROVE  Arrival(entry["rx"].packet)'
                OBVIOUS
            <4>1. entry["rx"] = [by |-> "rx", packet |-> entry["rx"].packet]
                BY <3>1, <3>4 DEF TracedOnArrival, Entry
            <4>2. n + 1 \in DOMAIN numbered'
                BY <3>1, <3>2
            <4> QED
                BY <3>2, <3>4, <4>1, <4>2 DEF Arrival
        <3>6. TracedOnArrival'
            BY <3>3, <3>4, <3>5 DEF TracedOnArrival, Threads
        <3>7. ASSUME NEW j \in DOMAIN numbered', numbered'[j].by = "worker"
              PROVE  \E i \in 1 .. (j - 1) :
                         numbered'[i] = [by |-> "rx", packet |-> numbered'[j].packet]
            <4>1. CASE j \in 1 .. n
                <5>1. PICK i \in 1 .. (j - 1) :
                          numbered[i] = [by |-> "rx", packet |-> numbered[j].packet]
                    BY <3>2, <3>7, <4>1 DEF ArrivalComesFirst
                <5>2. i \in 1 .. n
                    BY <3>1, <4>1
                <5> QED
                    BY <3>2, <4>1, <5>1, <5>2
            <4>2. CASE j = n + 1
                <5>1. t = "worker"
                    BY <3>2, <3>4, <3>7, <4>2 DEF TracedOnArrival, Threads
                <5>2. Arrival(entry["worker"].packet)
                    BY <3>4, <5>1 DEF TracedOnArrival
                <5>3. PICK i \in 1 .. n :
                          numbered[i] = [by |-> "rx", packet |-> entry["worker"].packet]
                    BY <3>2, <5>2 DEF Arrival
                <5>4. j - 1 = n
                    BY <3>1, <4>2
                <5> QED
                    BY <3>2, <4>2, <5>1, <5>3, <5>4
            <4> QED
                BY <3>1, <3>2, <4>1, <4>2
        <3> QED
            BY <3>6, <3>7 DEF ArrivalComesFirst
    <2>2. ASSUME UNCHANGED numbered
          PROVE  ArrivalComesFirst' /\ \A p : Arrival(p) => Arrival(p)'
        BY <2>2 DEF ArrivalComesFirst, Arrival
    <2>3. ASSUME NEW t \in Threads, CopyFirst(t) \/ CopyRest(t)
          PROVE  TracedOnArrival' /\ ArrivalComesFirst'
        <3>1. /\ numbered' = numbered /\ entry' = entry /\ queue' = queue
              /\ place[t] \in {"first", "rest"} /\ place'[t] \in {"rest", "push", "top"}
              /\ \A u \in Threads : u # t => place'[u] = place[u]
            BY <2>3 DEF CopyFirst, CopyRest, TypeOK
        <3> QED
            BY <2>2, <3>1 DEF TracedOnArrival, Threads
    <2>4. CASE RxReceive
        <3>1. /\ numbered' = numbered /\ queue' = queue
              /\ place'["rx"] = "take" /\ entry'["rx"].by = "rx"
              /\ place'["worker"] = place["worker"] /\ entry'["worker"] = entry["worker"]
            BY <2>4 DEF RxReceive, traceVars, TypeOK, Threads
        <3> QED
            BY <2>2, <3>1 DEF TracedOnArrival
    <2>5. CASE RxPush
        <3>1. /\ numbered' = numbered /\ entry' = entry
              /\ place'["rx"] = "top" /\ place'["worker"] = place["worker"]
              /\ Arrival(entry["rx"].packet)
            BY <2>5 DEF RxPush, traceVars, TypeOK, Threads, TracedOnArrival
        <3>2. entry["rx"].packet \in Nat /\ queue \in Seq(Nat)
            BY <2>5 DEF RxPush, TypeOK, Entry, Threads
        <3>3. \A k \in DOMAIN queue' : Arrival(queue'[k])
            <4>1. CASE queue' = queue
                BY <4>1 DEF TracedOnArrival
            <4>2. CASE queue' = Append(queue, entry["rx"].packet)
                BY <3>1, <3>2, <4>2, AppendProperties DEF TracedOnArrival
            <4> QED
                BY <2>5, <4>1, <4>2 DEF RxPush
        <3> QED
            BY <2>2, <3>1, <3>3 DEF TracedOnArrival
    <2>6. CASE WorkerPop
        <3>1. /\ numbered' = numbered /\ entry'["rx"] = entry["rx"]
              /\ place'["rx"] = place["rx"] /\ queue' = Tail(queue)
              /\ queue \in Seq(Nat) /\ queue # <<>>
              /\ entry'["worker"].packet = Head(queue)
            BY <2>6 DEF WorkerPop, traceVars, TypeOK, Threads
        <3>2. 1 \in DOMAIN queue /\ Head(queue) = queue[1]
            BY <3>1
        <3>3. \A k \in DOMAIN queue' : k + 1 \in DOMAIN queue /\ queue'[k] = queue[k + 1]
            BY <3>1, HeadTailProperties
        <3>4. Arrival(Head(queue)) /\ \A k \in DOMAIN queue' : Arrival(queue'[k])
            BY <3>2, <3>3 DEF TracedOnArrival
        <3> QED
            BY <2>2, <3>1, <3>4 DEF TracedOnArrival
    <2>7. CASE Signal \/ Dump \/ UNCHANGED vars
        BY <2>2, <2>7 DEF Signal, Dump, vars, traceVars, TracedOnArrival
    <2>8. ASSUME NEW t \in Threads, Exit(t)
          PROVE  TracedOnArrival' /\ ArrivalComesFirst'
        <3>1. /\ numbered' = numbered /\ entry' = entry /\ queue' = queue
              /\ place'[t] = "exited"
              /\ \A u \in Threads : u # t => place'[u] = place[u]
            BY <2>8 DEF Exit, traceVars, TypeOK
        <3> QED
            BY <2>2, <3>1 DEF TracedOnArrival, Threads
    <2> QED
        BY <2>1, <2>3, <2>4, <2>5, <2>6, <2>7, <2>8 DEF Next, Trace
<1> QED
    BY <1>1, <1>2, TypeCorrect, PTL DEF Spec
=============================================================================
