------------------------------- MODULE Receiver -------------------------------
(***************************************************************************)
(* The receiver process (main_receiver.cpp): the RX thread that moves        *)
(* datagrams from the socket to the packet queue, the frame worker that      *)
(* feeds them to its FrameReassemblerManager and polls the timers, and main, *)
(* which waits for the signal and joins both.                                *)
(*                                                                          *)
(* A thread step is what the thread does between two reads of something      *)
(* another thread writes, or of the clock.  Time is a global tick; the       *)
(* timeouts keep the order they have in the code: TimerPeriod (5 ms) <       *)
(* IdleTimeout (30 ms) < PollTimeout = GraceTime (100 ms) < MaxLifetime (8 s). *)
(***************************************************************************)
EXTENDS FrameReassemblerV2, Integers

CONSTANTS
    IdleTimeout, MaxLifetime,   \* the manager's timeouts
    Capacity,          \* MAX_QUEUE_SIZE
    NoPacket,
    PollTimeout,       \* the timeout of the RX thread's poll()
    TimerPeriod,       \* how often the worker polls the timers
    GraceTime,         \* how long the worker stays once told to stop
    Malformed,         \* a datagram the RX thread rejects
    SocketCapacity,    \* bound of the model: datagrams in the socket buffer
    MaxArrivals,       \* bound of the model: datagrams that arrive
    Prompt             \* whether the scheduler is prompt, see Tick

ASSUME ReceiverAssumption ==
    /\ Capacity \in Nat
    /\ {IdleTimeout, MaxLifetime, PollTimeout, TimerPeriod, GraceTime} \subseteq Nat
    /\ {SocketCapacity, MaxArrivals} \subseteq Nat
    /\ NoPacket \notin RxPackets
    /\ Malformed \notin RxPackets
    /\ Prompt \in BOOLEAN

VARIABLES
    q, dropped, thread, got,        \* the packet queue
    frames, stats, done, written,   \* the worker's manager
    shutdown,          \* g_shutdown
    sock,              \* the socket's receive buffer
    arrivals,          \* how many datagrams have arrived
    rx,                \* where the RX thread is
    pollAge,           \* how long its poll() has lasted
    worker,            \* where the frame worker is
    sinceTimer,        \* the time since last_timer
    reminder,          \* the time since reminder_start
    main,              \* where main is
    hit,               \* history: frames that lost a packet to a full queue
    heard              \* history: the time since a packet of each frame was queued

queueVars   == <<q, dropped, thread, got>>
managerVars == <<frames, stats, done, written>>
rxVars      == <<rx, pollAge>>
workerVars  == <<worker, sinceTimer, reminder>>
netVars     == <<sock, arrivals>>
historyVars == <<hit, heard>>

vars == <<queueVars, managerVars, shutdown, netVars, rxVars, workerVars, main,
          historyVars>>

Queue == INSTANCE PacketQueue
    WITH Producers <- {"rx"}, Consumers <- {"worker"}, Packets <- RxPackets,
         MaxDropped <- MaxArrivals

Manager == INSTANCE FrameReassemblerManager
    WITH drops <- dropped, MaxEntries <- MaxArrivals, MaxDrops <- MaxArrivals

NotStarted == -1       \* reminder_start is still its zero
Silent == IdleTimeout + 1

TypeOK ==
    /\ Queue!TypeOK
    /\ Manager!TypeOK
    /\ sock \in Seq(RxPackets \cup {Malformed})
    /\ arrivals \in 0 .. MaxArrivals
    /\ rx \in {"check", "poll", "recv", "exited"}
    /\ pollAge \in 0 .. PollTimeout
    /\ worker \in {"pop", "push", "timer", "check", "decide", "flush", "exited"}
    /\ sinceTimer \in 0 .. TimerPeriod
    /\ reminder \in NotStarted .. (GraceTime + 1)
    /\ main \in {"wait", "joinRx", "joinWorker", "done"}
    /\ hit \subseteq FrameIds
    /\ heard \in [FrameIds -> 0 .. Silent]

Init ==
    /\ Queue!Init
    /\ Manager!Init
    /\ sock = <<>>
    /\ arrivals = 0
    /\ rx = "check"
    /\ pollAge = 0
    /\ worker = "pop"
    /\ sinceTimer = 0
    /\ reminder = NotStarted
    /\ main = "wait"
    /\ hit = {}
    /\ heard = [id \in FrameIds |-> Silent]

-----------------------------------------------------------------------------
(* The network, which loses, duplicates and reorders, and the signal.        *)
Arrive ==
    /\ arrivals < MaxArrivals
    /\ Len(sock) < SocketCapacity
    /\ \E datagram \in RxPackets \cup {Malformed} : sock' = Append(sock, datagram)
    /\ arrivals' = arrivals + 1
    /\ UNCHANGED <<queueVars, managerVars, shutdown, rxVars, workerVars, main, historyVars>>

OnSignal ==
    /\ Queue!RequestShutdown
    /\ UNCHANGED <<managerVars, netVars, rxVars, workerVars, main, historyVars>>

-----------------------------------------------------------------------------
(* udp_rx_thread.  The top of the loop, ...                                  *)
RxCheck ==
    /\ rx = "check"
    /\ thread["rx"] = "idle"
    /\ rx' = IF shutdown THEN "exited" ELSE "poll"
    /\ pollAge' = 0
    /\ UNCHANGED <<queueVars, managerVars, shutdown, netVars, workerVars, main, historyVars>>

(* ... poll(), which is interrupted, fails, times out or finds a datagram,   *)
RxPoll ==
    /\ rx = "poll"
    /\ \/ rx' = "check"                                      \* EINTR
       \/ rx' = "exited"                                     \* any other error
       \/ sock = <<>> /\ pollAge = PollTimeout /\ rx' = "check"
       \/ sock # <<>> /\ rx' = "recv"
    /\ UNCHANGED <<queueVars, managerVars, shutdown, netVars, pollAge, workerVars,
                   main, historyVars>>

(* ... recvfrom() and the push of what it returned.                          *)
RxReceive ==
    /\ rx = "recv"
    /\ sock' = Tail(sock)
    /\ rx' = "check"
    /\ LET datagram == Head(sock)
       IN  \/ /\ datagram = Malformed
              /\ UNCHANGED <<queueVars, shutdown, historyVars>>
           \/ /\ datagram # Malformed
              /\ Queue!Push("rx", datagram)
              /\ heard' = IF dropped' > dropped THEN heard
                          ELSE [heard EXCEPT ![datagram.frame_id] = 0]
              /\ hit' = IF dropped' > dropped THEN hit \cup {datagram.frame_id} ELSE hit
    /\ UNCHANGED <<managerVars, arrivals, pollAge, workerVars, main>>

RxNotify ==
    /\ Queue!Notify("rx")
    /\ UNCHANGED <<managerVars, netVars, rxVars, workerVars, main, historyVars>>

-----------------------------------------------------------------------------
(* frame_worker_thread.  pop_until, ...                                      *)
WorkerPop ==
    /\ worker = "pop"
    /\ Queue!PopUntil("worker") \/ Queue!ResumePopUntil("worker")
    /\ worker' = IF thread'["worker"] # "idle" THEN "pop"
                 ELSE IF got'["worker"] # NoPacket THEN "push" ELSE "timer"
    /\ UNCHANGED <<managerVars, netVars, rxVars, sinceTimer, reminder, main, historyVars>>

PopTimesOut ==
    /\ Queue!Timeout("worker")
    /\ UNCHANGED <<managerVars, netVars, rxVars, workerVars, main, historyVars>>

(* ... pushPacket with the drop count read after the pop, ...                *)
WorkerPush ==
    /\ worker = "push"
    /\ Manager!PushPacket(got["worker"])
    /\ worker' = "timer"
    /\ UNCHANGED <<q, thread, got, shutdown, netVars, rxVars, sinceTimer, reminder,
                   main, historyVars>>

(* ... the timers, ...                                                       *)
HandedOver(results) == {results[i].frame_id : i \in DOMAIN results}

WorkerTimer ==
    /\ worker = "timer"
    /\ \/ /\ sinceTimer >= TimerPeriod
          /\ Manager!PollTimers
          /\ sinceTimer' = 0
          /\ hit' = hit \ HandedOver(done')
          /\ heard' = [id \in FrameIds |->
                         IF id \in HandedOver(done') THEN Silent ELSE heard[id]]
       \/ /\ sinceTimer < TimerPeriod
          /\ UNCHANGED <<managerVars, dropped, sinceTimer, historyVars>>
    /\ worker' = "check"
    /\ UNCHANGED <<q, thread, got, shutdown, netVars, rxVars, reminder, main>>

(* ... and the end of the loop: the flag and the queue are read first, and   *)
(* then the clock.  The packet and what was handed over are gone by then.      *)
WorkerCheck ==
    /\ worker = "check"
    /\ worker' = IF shutdown /\ q = <<>> THEN "decide" ELSE "pop"
    /\ got' = [got EXCEPT !["worker"] = NoPacket]
    /\ done' = <<>>
    /\ UNCHANGED <<q, dropped, thread, frames, stats, written, shutdown, netVars, rxVars,
                   sinceTimer, reminder, main, historyVars>>

(* Faulty variants: >= for >, and a reminder_start that is not static.        *)
WorkerDecideEarly ==
    /\ worker = "decide"
    /\ \/ /\ reminder = NotStarted
          /\ reminder' = 0
          /\ UNCHANGED worker
       \/ /\ reminder # NotStarted
          /\ worker' = IF reminder >= GraceTime THEN "flush" ELSE "pop"
          /\ UNCHANGED reminder
    /\ UNCHANGED <<queueVars, managerVars, shutdown, netVars, rxVars, sinceTimer,
                   main, historyVars>>

WorkerDecideAnew ==
    /\ worker = "decide"
    /\ reminder' = 0
    /\ worker' = IF reminder > GraceTime THEN "flush" ELSE "pop"
    /\ UNCHANGED <<queueVars, managerVars, shutdown, netVars, rxVars, sinceTimer,
                   main, historyVars>>

WorkerDecide ==
    /\ worker = "decide"
    /\ \/ /\ reminder = NotStarted
          /\ reminder' = 0
          /\ UNCHANGED worker
       \/ /\ reminder # NotStarted
          /\ worker' = IF reminder > GraceTime THEN "flush" ELSE "pop"
          /\ UNCHANGED reminder
    /\ UNCHANGED <<queueVars, managerVars, shutdown, netVars, rxVars, sinceTimer,
                   main, historyVars>>

WorkerFlush ==
    /\ worker = "flush"
    /\ Manager!FlushAll
    /\ worker' = "exited"
    /\ UNCHANGED <<q, thread, got, shutdown, netVars, rxVars, sinceTimer, reminder,
                   main, historyVars>>

-----------------------------------------------------------------------------
(* main: wait for the flag, join the RX thread, join the worker, return.     *)
MainStep ==
    /\ \/ main = "wait" /\ shutdown /\ main' = "joinRx"
       \/ main = "joinRx" /\ rx = "exited" /\ main' = "joinWorker"
       \/ main = "joinWorker" /\ worker = "exited" /\ main' = "done"
    /\ UNCHANGED <<queueVars, managerVars, shutdown, netVars, rxVars, workerVars, historyVars>>

(* A prompt scheduler lets no time pass while the RX thread has something to *)
(* do, nor between the worker's look at the queue and its look at the clock.  *)
PromptlyServed ==
    /\ rx = "exited" \/ (rx = "poll" /\ sock = <<>> /\ pollAge < PollTimeout)
    /\ worker # "decide"

Advance(clock, limit) == IF clock < limit THEN clock + 1 ELSE clock

Tick ==
    /\ main # "done"
    /\ Prompt => PromptlyServed
    /\ frames' = [id \in Manager!Live |-> Manager!Older(frames[id])]
    /\ pollAge' = Advance(pollAge, PollTimeout)
    /\ sinceTimer' = Advance(sinceTimer, TimerPeriod)
    /\ reminder' = IF reminder = NotStarted THEN NotStarted
                   ELSE Advance(reminder, GraceTime + 1)
    /\ heard' = [id \in FrameIds |-> Advance(heard[id], Silent)]
    /\ UNCHANGED <<queueVars, stats, done, written, shutdown, netVars, rx, worker,
                   main, hit>>

Terminated == main = "done" /\ UNCHANGED vars

RxStep == RxCheck \/ RxPoll \/ RxReceive \/ RxNotify

WorkerStep ==
    \/ WorkerPop \/ PopTimesOut \/ WorkerPush \/ WorkerTimer
    \/ WorkerCheck \/ WorkerDecide \/ WorkerFlush

Next ==
    \/ Arrive \/ OnSignal
    \/ RxStep
    \/ WorkerStep
    \/ MainStep
    \/ Tick
    \/ Terminated

Spec == Init /\ [][Next]_vars

(* The threads run and time passes; datagrams and the signal need not come.  *)
FairSpec ==
    Spec /\ WF_vars(RxStep) /\ WF_vars(WorkerStep) /\ WF_vars(MainStep) /\ WF_vars(Tick)

-----------------------------------------------------------------------------
(* What a complete frame holds is what was sent, whatever the threads, the    *)
(* timers and the network do to its packets.                                *)
CompleteFramesIntact == Manager!CompleteFramesIntact

(* "PROC End (Queue emptying + partial flush included)" (main_receiver.cpp:316): *)
(* once the worker has ended no packet is or comes into the queue, and no      *)
(* frame is left in the manager.                                            *)
NothingLeftBehind ==
    worker = "exited" => q = <<>> /\ Manager!Live = {}

(* The idle timeout counts from the last packet the worker took, not from the  *)
(* last that arrived.  However long the worker is delayed, a frame is taken    *)
(* for silent while its packets keep coming only if one of them is still on    *)
(* its way to the manager.                                                  *)
OnItsWay(id) ==
    \/ \E i \in DOMAIN q : q[i].frame_id = id
    \/ worker = "push" /\ got["worker"].frame_id = id

IdleMeansSilent ==
    \A id \in Manager!Live : frames[id].idle <= heard[id] \/ OnItsWay(id)

(* Seen from outside, the process is a FrameAssembly still: the threads, the     *)
(* queue between them, the timers and the shutdown neither take from what the  *)
(* manager got of a frame nor add to it.  A frame leaves by the timers or, when *)
(* the worker ends, by flushAll, and is handed over as it was collected.       *)
ImplementsAssembly == Manager!ImplementsAssembly

(* After the signal the process ends, whatever still arrives, and even if the *)
(* RX thread died of a poll error before.                                   *)
SignalEndsProcess == shutdown ~> (main = "done")

(* "whether affected by queue overflow" (frame_result.hpp:41): a frame that     *)
(* lost a packet to the full queue says so when it is handed over.            *)
OverflowIsReported ==
    [][\A i \in DOMAIN done' :
          (done' # done /\ done'[i].frame_id \in hit) => done'[i].queue_pressure]_vars
=============================================================================
