------------------------------- MODULE TraceRing -------------------------------
(***************************************************************************)
(* The packet trace (debug_log.hpp/.cpp, compiled in with DEBUG_LOG_ENABLE):   *)
(* the RX thread traces each packet it received before it pushes it to the     *)
(* queue, the frame worker traces each packet it popped after the manager has  *)
(* it, and when both have ended main dumps the ring.  The third caller, the     *)
(* PARTIAL branch of emitFrame, is left out: pollTimers never takes it, and     *)
(* forceEmitAll, which would, is called by nobody.                            *)
(*                                                                          *)
(* A writer takes a number and then copies its entry to the slot of that       *)
(* number, without a lock: the copy is two steps, between which the other      *)
(* thread may do anything.                                                  *)
(***************************************************************************)
EXTENDS Integers, Sequences

CONSTANTS
    RingSize,          \* TRACE_RING_SIZE
    Blank,             \* an entry of the ring before it is first written
    MaxPackets         \* bound of the model: packets that arrive

ASSUME RingAssumption ==
    /\ RingSize \in Nat \ {0}
    /\ MaxPackets \in Nat

Threads == {"rx", "worker"}

(* PacketTraceEntry: who traced which packet.  The worker's entries carry the  *)
(* counters of the frame at that moment; here they carry the packet.          *)
Entry == [by : Threads, packet : Nat]

ASSUME BlankAssumption == Blank \notin Entry

Slots == 0 .. (RingSize - 1)
Half  == Entry \cup {Blank}

VARIABLES
    write_seq,         \* g_write_seq
    ring,              \* g_ring, each entry as the two parts it is copied in
    place,             \* where each thread is
    seq,               \* the number it took
    entry,             \* the entry it traces
    arrived,           \* how many packets have arrived
    queue,             \* the packet queue
    stop,              \* g_shutdown
    lines,             \* packet_trace.log
    numbered,          \* history: the entry each number was taken for
    lapped             \* history: a slot was written after its next number was taken

vars == <<write_seq, ring, place, seq, entry, arrived, queue, stop, lines,
          numbered, lapped>>

traceVars == <<write_seq, ring, seq, numbered, lapped>>

TypeOK ==
    /\ write_seq \in Nat
    /\ ring \in [Slots -> [first : Half, rest : Half]]
    /\ place \in [Threads -> {"top", "take", "first", "rest", "push", "exited"}]
    /\ seq \in [Threads -> Nat]
    /\ entry \in [Threads -> Half]
    /\ \A t \in Threads : place[t] \notin {"top", "exited"} => entry[t] \in Entry
    /\ arrived \in 0 .. MaxPackets
    /\ queue \in Seq(Nat)
    /\ stop \in BOOLEAN
    /\ lines \in Seq([first : Half, rest : Half])
    /\ numbered \in Seq(Entry)
    /\ lapped \in BOOLEAN

Init ==
    /\ write_seq = 0
    /\ ring = [slot \in Slots |-> [first |-> Blank, rest |-> Blank]]
    /\ place = [t \in Threads |-> "top"]
    /\ seq = [t \in Threads |-> 0]
    /\ entry = [t \in Threads |-> Blank]
    /\ arrived = 0
    /\ queue = <<>>
    /\ stop = FALSE
    /\ lines = <<>>
    /\ numbered = <<>>
    /\ lapped = FALSE

-----------------------------------------------------------------------------
(* trace_packet: the fetch_add ...                                           *)
TakeNumber(t) ==
    /\ place[t] = "take"
    /\ seq' = [seq EXCEPT ![t] = write_seq]
    /\ write_seq' = write_seq + 1
    /\ numbered' = Append(numbered, entry[t])
    /\ place' = [place EXCEPT ![t] = "first"]
    /\ UNCHANGED <<ring, entry, arrived, queue, stop, lines, lapped>>

(* Faulty: the slot of the counter as it is now.                             *)
SlotOfCounter(t) == (write_seq - 1) % RingSize

SlotOf(t) == seq[t] % RingSize

Overtaken(t) == seq[t] + RingSize < write_seq

(* ... and the copy, in two parts.                                           *)
CopyFirst(t) ==
    /\ place[t] = "first"
    /\ ring' = [ring EXCEPT ![SlotOf(t)].first = entry[t]]
    /\ lapped' = (lapped \/ Overtaken(t))
    /\ place' = [place EXCEPT ![t] = "rest"]
    /\ UNCHANGED <<write_seq, seq, entry, arrived, queue, stop, lines, numbered>>

CopyRest(t) ==
    /\ place[t] = "rest"
    /\ ring' = [ring EXCEPT ![SlotOf(t)].rest = entry[t]]
    /\ lapped' = (lapped \/ Overtaken(t))
    /\ place' = [place EXCEPT ![t] = IF t = "rx" THEN "push" ELSE "top"]
    /\ UNCHANGED <<write_seq, seq, entry, arrived, queue, stop, lines, numbered>>

-----------------------------------------------------------------------------
(* The RX thread: recvfrom, the trace and then the push, which may find the     *)
(* queue full.  Faulty: an entry that is not filled in, and the push before     *)
(* the trace.                                                               *)
RxReceiveUnfilled ==
    /\ place["rx"] = "top"
    /\ ~stop
    /\ arrived < MaxPackets
    /\ arrived' = arrived + 1
    /\ entry' = [entry EXCEPT !["rx"] = Blank]
    /\ place' = [place EXCEPT !["rx"] = "take"]
    /\ UNCHANGED <<traceVars, queue, stop, lines>>

RxReceivePushFirst ==
    /\ place["rx"] = "top"
    /\ ~stop
    /\ arrived < MaxPackets
    /\ arrived' = arrived + 1
    /\ entry' = [entry EXCEPT !["rx"] = [by |-> "rx", packet |-> arrived + 1]]
    /\ queue' = Append(queue, arrived + 1)
    /\ place' = [place EXCEPT !["rx"] = "take"]
    /\ UNCHANGED <<traceVars, stop, lines>>

RxReceive ==
    /\ place["rx"] = "top"
    /\ ~stop
    /\ arrived < MaxPackets
    /\ arrived' = arrived + 1
    /\ entry' = [entry EXCEPT !["rx"] = [by |-> "rx", packet |-> arrived + 1]]
    /\ place' = [place EXCEPT !["rx"] = "take"]
    /\ UNCHANGED <<traceVars, queue, stop, lines>>

RxPush ==
    /\ place["rx"] = "push"
    /\ queue' = Append(queue, entry["rx"].packet) \/ UNCHANGED queue
    /\ place' = [place EXCEPT !["rx"] = "top"]
    /\ UNCHANGED <<traceVars, entry, arrived, stop, lines>>

(* The worker: pop_until, pushPacket and, at the end of it, the trace.         *)
WorkerPop ==
    /\ place["worker"] = "top"
    /\ queue # <<>>
    /\ queue' = Tail(queue)
    /\ entry' = [entry EXCEPT !["worker"] = [by |-> "worker", packet |-> Head(queue)]]
    /\ place' = [place EXCEPT !["worker"] = "take"]
    /\ UNCHANGED <<traceVars, arrived, stop, lines>>

Signal == stop' = TRUE /\ UNCHANGED <<traceVars, place, entry, arrived, queue, lines>>

Exit(t) ==
    /\ place[t] = "top"
    /\ stop
    /\ t = "worker" => queue = <<>>
    /\ place' = [place EXCEPT ![t] = "exited"]
    /\ UNCHANGED <<traceVars, entry, arrived, queue, stop, lines>>

(* dump_ring, by main once it has joined both threads.                        *)
Start == IF write_seq > RingSize THEN write_seq - RingSize ELSE 0

Dump ==
    /\ \A t \in Threads : place[t] = "exited"
    /\ lines' = [i \in 1 .. (write_seq - Start) |-> ring[(Start + (i - 1)) % RingSize]]
    /\ UNCHANGED <<traceVars, place, entry, arrived, queue, stop>>

Trace(t) == TakeNumber(t) \/ CopyFirst(t) \/ CopyRest(t)

Next ==
    \/ \E t \in Threads : Trace(t) \/ Exit(t)
    \/ RxReceive \/ RxPush
    \/ WorkerPop
    \/ Signal
    \/ Dump

Spec == Init /\ [][Next]_vars

-----------------------------------------------------------------------------
Whole(e) == [first |-> e, rest |-> e]

(* The dump is the end of the trace: its lines are the entries of the last      *)
(* numbers taken, as many as the ring holds, each whole and each at its        *)
(* number, unless a thread was overtaken by a whole round of the ring in the    *)
(* middle of its copy.                                                      *)
DumpTellsTheEnd ==
    (lines # <<>> /\ ~lapped) =>
        /\ Start + Len(lines) = write_seq
        /\ Len(lines) = RingSize \/ Start = 0
        /\ \A i \in DOMAIN lines : lines[i] = Whole(numbered[Start + i])

(* The trace tells the order of things: of each packet the arrival has the      *)
(* smaller number than its way into the manager, although the two are traced   *)
(* by two threads and the numbers are taken with relaxed atomics.            *)
ArrivalComesFirst ==
    \A j \in DOMAIN numbered :
        numbered[j].by = "worker" =>
            \E i \in 1 .. (j - 1) :
                numbered[i] = [by |-> "rx", packet |-> numbered[j].packet]
=============================================================================
