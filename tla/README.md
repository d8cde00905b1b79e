# Verification of the UDP frame transmitter and receiver

This directory holds TLA+ models of `tm_sender` and `tm_receiver`, the TLC
configurations that check them on small instances, and TLAPS proofs of the
properties that matter most for instances of any size. Paths below are relative
to the repository.

    tlc -workers 2 -config Manager.cfg MCFrameReassemblerManager
    tlapm FrameReassemblerManagerProofs.tla

## 1. The system

`tm_sender` reads one raw file, puts a 16-byte header before it, cuts the result
into UDP packets of at most 1400 payload bytes and sends them. `tm_receiver`
collects the packets, reassembles the frames and writes them to files.

                 tm_sender                                tm_receiver
    file -> encoder -> UdpSender ~~ network ~~> socket -> RX thread -> PacketQueue
                                                                           |
                            files <- frame writer <- FrameReassemblerManager (worker)
                                                          one FrameReassemblerV2 per frame
                                 main: waits for the signal, joins both threads

| component | state | operations | what is hard | what makes it correct |
|---|---|---|---|---|
| `PacketQueue` (`src/common/packet_queue.cpp`) | `q_`, `dropped_`, a mutex, a condition variable | `push`, `try_pop`, `pop`, `pop_until`, `pop_or_shutdown` | notification after unlocking, stolen and spurious wake-ups, timeouts, a shutdown flag outside the mutex | never above its capacity; no lost wake-up; `pop_until` returns |
| wire format (`include/protocol/udp_packet.hpp`) | none | header of id, index, count, size | 16-bit fields | the count is the number of packets |
| `UdpSender` (`src/sender/udp_sender.cpp`) | `frame_id_`, the loop of `sendFrame` | `sendFrame`, `waitWritable` | retry by `pid--` on an unsigned variable, failures in the middle of a frame, truncated count | each packet once and in order, each byte of the frame sent |
| `FrameReassemblerV2` (`src/common/frame_reassembler_v2.cpp`) | frame id, counts, bitmap, buffer, size | `startNewFrame`, `pushPacket`, queries | any order, duplicates, packets past the buffer | counter = bitmap; bytes at their place, holes zero |
| `FrameReassemblerManager` (`src/common/frame_reassembler_manager.cpp`) | map from id to reassembler and times, counters | `pushPacket`, `pollTimers`, `pollFlush`, `flushAll`, `forceEmitAll` | frames handed over and erased by four different loops, late duplicates, two timeouts | complete frames are what was sent; what is erased is handed over, once; every frame leaves |
| receiver process (`src/receiver/main_receiver.cpp`) | `g_shutdown`, the threads, `last_timer`, `reminder_start` | RX loop, worker loop, signal handler, joins | termination: flag, queue and clock read one after another while packets still come | after a signal the process ends, and leaves nothing behind |
| frame writer (`src/common/frame_writer.cpp`) | three files | `write_frame_to_file` | a crash between two files | the files belong together |
| debug log, trace ring (`src/debug/`) | a ring and its write index | `trace_packet`, `dump_ring` | two writers, lapping | a dumped entry is the one of its number |
| V1 reassembler (`src/common/frame_reassembler.cpp`, not built) | one frame: id, counts, map of payloads | `pushPacket`, `frameComplete`, `popFrame`, `reset` | a count and a map kept apart, a timeout looked at only on a push | what is popped is a frame that was sent |
| encoder, file source (`src/sender/`) | `sender_header.bin` | `encode`, `getNextFrame` | | the file comes out at the other end |
| statistics, log filter, scripts | | | | |

**Interactions.** The RX thread calls `PacketQueue::push`; the worker calls
`pop_until` and, with a packet, `FrameReassemblerManager::pushPacket`; every 5 ms it
calls `pollTimers`, which calls back (`onFrameDone`) into the frame writer. The signal
handler writes `g_shutdown`, which all three threads read. The manager belongs to the
worker alone, so each of its methods is one step; the queue's critical sections are
steps too, with `notify_one` apart, because it comes after the mutex is released.

## 2. The modules

| module | models | how |
|---|---|---|
| `PacketQueue` | `packet_queue.cpp` | one action per critical section; `thread` says where each thread is: idle, about to notify, asleep (`wait`, `timedWait`), or awake and waiting for the mutex (`woken`, `timedWoken`) |
| `UdpPacket` | `udp_packet.hpp`, the cutting in `sendFrame` | packets as records; `PacketCount` truncates to the width of the field |
| `UdpSender` | `udp_sender.cpp` | one action per piece of the loop: `SendFrame` (the call), `LoopTest`, `Writable` (`waitWritable`), `SendTo`, `Retry` (EAGAIN), `GiveUp` (the two `break`s) |
| `FrameReassemblerV2` | `frame_reassembler_v2.cpp` | the object as a record, its methods as operators on it |
| `FrameReassemblerManager` | `frame_reassembler_manager.cpp` | `frames` is `frames_`; one action per method; `done` and `written` are what the last call gave to `onFrameDone` and to `write_frame_to_file`; `Tick` is the clock |
| `FrameAssembly` | what the manager promises | an id holds a set of parts; when it is given up, exactly what was held of it is handed over; no counter, buffer, timer or verdict. `ImplementsAssembly` in `FrameReassemblerManager` is the refinement mapping: the parts are the bits of `packet_received_`, what is handed over is `done` and `written` |
| `Receiver` | `main_receiver.cpp` | composes the queue and the manager by `INSTANCE`, with `rx`, `worker` and `main` as program counters; a thread's step goes from one read of shared state or of the clock to the next. `heard` and `hit` are history. Its `ImplementsAssembly` is the manager's refinement, of the whole process |
| `FrameWriter` | `frame_writer.cpp` | `calls` are the calls still to be made, `kind` the file of the current one; `Open` truncates, `WriteAndClose` writes; either may fail, and the process may die (`Dies`) with some prefix on disk |
| `Transfer` | `main_sender.cpp`, `ccsds_stub_encoder.cpp`, `file_source.cpp`, the end and the restart of `tm_receiver` | composes `UdpSender`, the network, the manager and the writer, end to end, from the raw file to the three files. The threads and the queue are left to `Receiver`: here the worker takes any packet that was put out |
| `TraceRing` | `debug_log.cpp` and its callers in the two threads | the copy of an entry into its slot is two steps; `numbered` is history: what each number was taken for |
| `FrameReassembler` | `frame_reassembler.cpp` | one action per method and outcome: a new frame, a frame that is too old, a duplicate, a packet that is kept |
| `ReassemblerReuse` | a caller of `frame_reassembler_v2.hpp` | one `FrameReassemblerV2` for several frames, by `startNewFrame`, `makeResult` and `reset`, and a `FrameReassembler` that gets the same packets |
| `*Proofs` | | lemmas and theorems, section 5; those about packets, which need no state, are at the head of `FrameReassemblerV2Proofs`, where the sender's proofs take them from |
| `MC*` | | the constants TLC is given |

Abstractions. A byte is an opaque value that says which frame and place it comes
from, so that a byte in a wrong place is seen. Time is counted in ticks and kept as
the age of things; ages stop counting once past the limit they are compared with.
`packet_received_` is the set of indices whose bit is set. `gap_before` and
`packet_corrupted_` are never set by the code and left out. Logging is left out.
The frame header is one opaque value. Loops over the `std::map` hand over frames in ascending id order
within one step, as one thread owns the map. `emitFrame` reports data up to
`frame_size_`.

In `FrameReassemblerManager` the environment may make any call at any time, a
superset of what the worker does: this also covers `pollFlush` and `forceEmitAll`, which
nobody calls today. Packets come from `RxPackets`: those of the frames sent, in any
order, any number of times, or never. `UdpSender` is shown to send only such packets
(`SendsOnlyRxPackets`).

Definitions with a comment that begins with "Faulty" are not part of any
specification. Each is a plausible mistake in the definition that follows it, and is
there to be put in its place: the property named for it in `PROJECT.json` then fails.

## 3. The runs

Passing runs:

| run | instance | checks | shows |
|---|---|---|---|
| `PacketQueue` | 2 producers, 3 consumers, 1 packet, capacity 2, at most 1 drop | `TypeOK`, `NoLostWakeup`, `SleeperIsServed`, `PopUntilReturns` | in all interleavings of all four pop operations the bound holds; while somebody sleeps each queued packet has a notification or a woken consumer on its way; no consumer sleeps on beside a queued packet; `pop_until` always returns |
| `Sender` | 4 frames of 1 to 6 bytes, payload 2, counts below 4 | `TypeOK`, `SentInOrder`, `SendsOnlyRxPackets`, `WholeFrameSent`, `SendReturns` | retries neither skip nor repeat, nothing is left out, `sendFrame` returns |
| `Manager` | 2 frames, of 2 and of 3 packets; the last packet of the second does not fit the buffer | `TypeOK`, `CountMatchesBitmap`, `CompleteFramesIntact`, `BytesInPlace`, `ImplementsAssembly`, `ErasedMeansHandedOver`, `EveryFrameLeaves` | under loss, duplication, reordering, late packets and every order of calls; even a frame kept busy by duplicates leaves; every behaviour is one of `FrameAssembly` |
| `Receiver_safety` | 2 frames, 3 arrivals, queue and socket of one, prompt scheduler | `TypeOK`, `CompleteFramesIntact`, `NothingLeftBehind`, `IdleMeansSilent` | shutdown at any moment drains everything; the idle timeout, which counts from the last push into the manager, never passes judgement on a frame whose packets keep coming unless one of them is in the queue or in the worker's hand |
| `Receiver_live` | 1 frame, 2 arrivals, any delays | `SignalEndsProcess`, `ImplementsAssembly` | after the signal `main` returns; the process hands each frame over as it was collected, also one that became complete after the last poll of the timers |
| `Transfer` | a file of 3 bytes, a header of 2, so a frame of 2 packets; 2 runs of the sender, 2 frames begun by a receiver, 1 fault | `TypeOK`, `FilesAgree`, `FileComesThrough`, `CompleteMeansAllSent`, `ArrivedIsWritten` | end to end: after a call that went through, the three files tell of one frame, even if a crash or a full disk had left them torn; what is written as complete is the file that was sent; a sender that gives up never makes a complete frame; a frame that has arrived is written, also when the receiver is stopped |
| `Reuse` | 4 frames: a long and a short one, one that outgrows the buffer, one whose id is the one for "no frame" | `TypeOK`, `CompleteHasEveryPacket`, `PoppedIsSent`, `TakenIsSent`, `TakenOnlyOnce`, `BothSeeTheFrame` | a reassembler that is used again leaks neither bytes nor a length nor late packets into the next frame; V1's "you shouldn't be coming here" is not reached; V1 and V2 find the same frames complete, with the same bytes |
| `TraceRing` | a ring of 3, 6 packets | `TypeOK`, `DumpTellsTheEnd`, `ArrivalComesFirst` | the dump is the end of the trace, each line whole and at its number, unless a thread was overtaken by a whole round of the ring in the middle of a copy; a packet's arrival is numbered before its way into the manager |

Runs that show where the code and what is said of it differ (each expects a
violation of its one property):

| run | property | what happens |
|---|---|---|
| `Manager_verdict` | `CompleteMeansNoGap` | `frame_reassembler_manager.cpp:293` has the arms of the conditional swapped: a frame that timed out with a hole is reported COMPLETE and overwrites the `received_full_` files. `forceEmitAll` (line 310) has them right. `frame_result.hpp:23`: "모든 패킷 수신 완료 (gap 없음)", all packets received, no gap |
| `Receiver_overflow` | `OverflowIsReported` | `queue_drop_at_start` is read when the frame's first packet is popped; a packet of the frame dropped before that does not show in `queue_pressure`. `frame_result.hpp:41`: "queue overflow 영향 여부", whether affected by queue overflow |
| `Receiver_delayed` | `NothingLeftBehind` | without a prompt scheduler the worker may find the queue empty, be delayed past the grace time, and end while a packet has come in. `main_receiver.cpp:316`: "Queue emptying + partial flush included" |
| `Manager_senders` | `CompleteFramesIntact` | each `tm_sender` numbers its only frame 1; packets of two runs within one idle timeout make up one "complete" frame. It is corrupted if the two send different files, or come from two hosts; `run_send.sh --loop` sends one file again and again, so that its mixtures come out right. `udp_packet.hpp:6`: "Frame identifier (increment)" |

Four more differences are plain enough to be read off the code and have no run: a
frame of more packets than a `uint16_t` counts is announced, and sent, shorter than it
is (`udp_sender.cpp:63`; `WholeFrameSent` is checked and proved for frames below that);
a consumer asleep in `pop` or `pop_or_shutdown` is not woken by the shutdown flag
(`packet_queue.cpp:53`, `main_receiver.cpp:230`; the worker uses `pop_until`, which is);
`flushAll` writes a frame completed since the last poll of the timers as partial
(`frame_reassembler_manager.cpp:165`; `ArrivedIsWritten` holds because it writes it
at all); and `run_test.sh:67-77` compares `received_header.bin` and `received_raw.bin`, which
`frame_writer.cpp` does not write: it writes `received_full_*` and `received_partial_*`, and
these are the files `FileComesThrough` speaks of.

**Bounds and why they are enough.** Every bound of the models is a named constant:
`MaxDropped`, `MaxEntries`, `MaxDrops`, `SocketCapacity`, `MaxArrivals`, `MaxRuns`,
`MaxFrames`, `MaxFaults`, `MaxPackets`. Three consumers
are the fewest with which a notification can be taken by one, and two still sleep; a
capacity of two tells full, partly full and empty apart. Two frames, one with a short
last packet and one that outgrows the buffer, meet every early return of `pushPacket`;
duplicates and late packets need no third frame, as `MaxEntries` 3 lets an id come
back after it was handed over. `CountMod` 4 makes the counters as narrow as the
instance allows. In `Receiver`, timeouts keep the order they have in the code
(5 ms < 30 ms < 100 ms = 100 ms < 8 s); three arrivals through a queue of one give an
overflow while another packet waits. In `Transfer` two runs of the sender put one
frame's packets out twice, so that a run that gave up can be completed by another, and
two frames begun by one receiver let a complete frame be followed by a stump of late
packets; one fault is enough to leave torn files, and the calls after it find them. In
`TraceRing` six packets make twelve entries, four rounds of a ring of three; the code
masks with 4095 where the model takes the remainder, which is the same for a power of
two. The theorems have no such bounds.

**Fairness.** Only what the code and the scheduler provide. `PacketQueue`: a thread that
is awake inside a call goes on, a timed wait expires; callers need not call, nobody is
woken spuriously on demand. `UdpSender`: the loop goes on, the socket becomes
writable, and `sendto` does not answer EAGAIN for ever (strong fairness: it may refuse
any finite number of times in between); without it the loop in `sendFrame` is
unbounded. `FrameReassemblerManager`: the worker keeps calling `pollTimers`
(`pop_until` comes back within 1 ms), and time passes. `Receiver`: each thread keeps
running and time passes; neither datagrams nor the signal need come. `Transfer`: the
worker polls its timers and `write_frame_to_file` comes to its end; senders, packets,
stops, faults and restarts need not happen.

`Prompt` is an assumption about the scheduler and not fairness: no time passes
while the RX thread (SCHED_FIFO 80) has something to do, nor between the worker's look
at the queue and its look at the clock. `NothingLeftBehind` needs it, as
`Receiver_delayed` shows; `SignalEndsProcess` does not.

`Transfer` starts the receiver again after any end, which is more than the service
unit does (`Restart=on-failure`): somebody may also start it by hand.

Deadlock is checked except for the sender, which ends after its last frame;
`Receiver` stutters explicitly once `main` has returned, and `TraceRing` may dump again,
as `main` does at its end and `on_exit_dump` after it.

## 4. Hazards

`PROJECT.json` lists each with the line where it bites and the properties that would
catch it; each is covered by at least one. Two are met only outside the built program
and modelled all the same, since the headers offer it: a reassembler that is reset and
used again, and the V1 reassembler. The packet trace is compiled in by
`DEBUG_LOG_ENABLE` only.

`IdleMeansSilent` excuses a frame of which a packet waits in the queue or in the worker's
hand. This is the case a delayed worker meets most often, and there the code does judge
the frame idle: the age is compared before the waiting packet is pushed. What the property
rules out is such a verdict with nothing on its way. Of the queue's bound, `TypeOK` says
that it is never exceeded; that a packet which fits is not dropped is the guard of `Push`
itself and not stated again.

The trace ring has a data race by design. What the model shows is its extent: if no
copy lasts a whole round of the ring (4096 entries), the dump is right, because it is
taken when both threads have ended.

## 5. The proofs

Proved with TLAPS for all values of the constants that meet the named assumptions of
the modules (finite sets of threads and frames, positive payload size and stride, at
least one byte):

| theorem | states | argument |
|---|---|---|
| `PacketQueueProofs!TypeCorrect` | `[]TypeOK` | inductive by itself |
| `PacketQueueProofs!NoWakeupIsLost` | `[]NoLostWakeup` | inductive with `TypeOK`: a push adds one to the queue and one to the threads about to notify; a notification moves one from them to the woken; a consumer goes to sleep only when the queue is empty, and one that is woken takes a packet with it |
| `UdpSenderProofs!TypeCorrect`, `!PacketsInOrder` | `[]TypeOK`, `[]SentInOrder` | `IInv` adds `LoopInv`: in the body of the loop `pid` is below the count. With it `pid + 1` does not wrap, and the wrap of `pid--` at 0 is undone by `pid++` |
| `UdpSenderProofs!OnlyRxPackets` | `[]SendsOnlyRxPackets` | from `IInv`; `LoopInv` also says the frame at hand is one of those sent |
| `UdpSenderProofs!NoByteLeftOut` | `[]WholeFrameSent` | from `IInv` and division; assumes `CountsFit` |
| `FrameReassemblerManagerProofs!TypeCorrect` | `[]TypeOK` | one lemma per kind of step; no packet is stored outside the buffer |
| `FrameReassemblerManagerProofs!CounterIsBitmap` | `[]CountMatchesBitmap` | inductive with `TypeOK`: a bit is set only once, and there are fewer bits than the counter has values, so it does not wrap |
| `FrameReassemblerManagerProofs!HolesAreZero` | `[]BytesInPlace` | inductive, as every reassembler is new when its frame starts. Assumes `SameStride`, `DistinctIds` |
| `FrameReassemblerManagerProofs!CompleteIsIntact` | `[]CompleteFramesIntact` | strengthened by `FramesCarry`: each reassembler *carries* a frame sent, that is, its kept bytes are the frame's and its size is the largest end of a packet kept. A full count means a full bitmap (`FullCountMeansAllBits`), and then size and bytes are the frame's. Assumes `SameStride`, `DistinctIds`, `CountsFit` |
| `FrameReassemblerManagerProofs!ErasedIsHandedOver` | `ErasedMeansHandedOver` | an action property: the ascending numbering of the map's keys visits each exactly once |
| `FrameReassemblerManagerProofs!ManagerImplementsAssembly` | `Spec => ImplementsAssembly` | the step simulation, under `TypeOK`, `FramesCarry` and `KeyIsFrameId` (the key of an entry is its reassembler's id): `PushPacket` is `Receive`, the four ways out are `GiveUp`, all else is `Quiet`. Assumes `SameStride`, `DistinctIds` |
| `ReceiverProofs!TypeCorrect` | `[]TypeOK` | with `Loaded`: `recvfrom` finds something in the socket, and the worker pushes only when it holds a packet. What the manager's steps preserve is taken from `FrameReassemblerManagerProofs`, instantiated |
| `ReceiverProofs!CompleteIsIntact` | `[]CompleteFramesIntact` | `FramesCarry` again, for the manager inside the worker |
| `ReceiverProofs!ReceiverImplementsAssembly` | `Spec => ImplementsAssembly` | the manager's simulation, step by step through the instance: the worker's `pushPacket`, `pollTimers` and `flushAll` map as there; all other steps stutter. `ManagerInv` adds to `FramesCarry` and `KeyIsFrameId` that only the worker's last call writes without the callback, so that its clearing of `done` at the end of the loop is `Quiet`. Assumes `SameStride`, `DistinctIds`; neither `Prompt` nor anything about the timeouts |
| `ReceiverProofs!NothingIsLeftBehind` | `[]NothingLeftBehind` | `RxOutlived`: while the RX thread lives, the grace time has not run longer than its poll; so when the grace time is over the thread is gone, and what the worker then saw of the queue stays true. Assumes `Prompt` and `PollTimeout <= GraceTime` |
| `ReceiverProofs!IdleFramesAreSilent` | `[]IdleMeansSilent` | inductive with the types: a queued packet is on its way from its push to its pop and its push into the manager, which resets the idle time |
| `TransferProofs!TypeCorrect` | `[]TypeOK` | `TypeInv` adds the sender's `IInv` (instantiated: what is on the network are packets of the frame) and `WritesACall`: a file is open only while there is a call for it, of a frame longer than its header |
| `TransferProofs!FilesTellOfOneFrame` | `[]FilesAgree` | `WriterInv`: only the files of the current call's base are being written; what became of them is not known before the call ends; as long as none failed, those already closed hold the current frame's parts. No assumption |
| `TransferProofs!CompleteWasSent` | `[]CompleteMeansAllSent` | `KeptWasSent`: a bit that is set in a reassembler is that of a packet that was put out, and the counter is the number of bits; so a full count is a whole frame put out. No assumption |
| `TransferProofs!FileIsTheSame` | `[]FileComesThrough` | `FileInv`: `FramesCarry`; a call for a whole frame has all of it (`WholeIsTheFrame`); the sender's header file is written before its first packet goes out (`HeaderComesFirst`); a base whose last call went through holds the header and the file (`WrittenIsTheFile`). Assumes `SameStride`, `CountsFit`; ids are distinct because there is one frame |
| `TraceRingProofs!TypeCorrect` | `[]TypeOK` | inductive by itself |
| `TraceRingProofs!DumpIsFaithful` | `[]DumpTellsTheEnd` | unless a copy was overtaken, each slot holds the entry of the last number that falls on it, or a copy to it is under way; when both threads have ended none is |
| `TraceRingProofs!ArrivalIsFirst` | `[]ArrivalComesFirst` | what is in the queue was traced before; what the worker traces was in the queue |
| `ReassemblerReuseProofs!TypeCorrect` | `[]TypeOK` | with the counter of V2 and `IdIsSent`: what has a packet has the id of a frame sent |
| `ReassemblerReuseProofs!OnlySentIsTaken` | `[]TakenIsSent` | `ObjectInv`: in a frame, the object carries one that was sent *over what the buffer held before*; `Carries` has that rest as a parameter (zeros for the manager's new objects). A full count leaves nothing of the rest below the size. Assumes `SameStride`, `DistinctIds`, `CountsFit` |
| `ReassemblerReuseProofs!NothingIsTakenTwice` | `[]TakenOnlyOnce` | `Rests`: after a frame was taken the id stays and 0 packets are expected, so that a late packet neither starts a frame nor is accepted. No assumption |
| `ReassemblerReuseProofs!EveryPacketIsThere` | `[]CompleteHasEveryPacket` | `V1Inv`: in a frame, the keys of `packets_` are indices of the frame and the count is their number; between frames anything may be kept, since 0 packets are expected. Assumes `DistinctIds` |
| `ReassemblerReuseProofs!OnlySentIsPopped` | `[]PoppedIsSent` | `PayloadInv`: in a frame the payloads kept are those of one frame sent. That the payloads joined are its bytes is an induction over their number: the first n joined are the bytes up to the end of packet n. Assumes `DistinctIds`, `CountsFit` |
| `ReassemblerReuseProofs!BothAgree` | `[]BothSeeTheFrame` | `BesideInv` relates the two objects: they collect the same frame, and what V1 keeps and V2 is not yet through with V2 has stored too, unless it ends past the buffer. With `ObjectInv`, `V1Inv` and `PayloadInv`, V1's full count makes V2's bitmap full. Assumes `SameStride`, `DistinctIds`, `CountsFit` |

The assumptions are what a deployment has to provide, and each is needed:
`SameStride` says that `PAYLOAD_STRIDE` of the receiver equals `MAX_UDP_PAYLOAD` of the
sender (two constants in two files, both 1400); `DistinctIds` that no two frames share an
id (`Manager_senders` shows what happens otherwise); `CountsFit` that frames have fewer
than 65536 packets; `PollTimeout <= GraceTime` that `poll` does not wait longer than the
worker lingers (both 100 ms in `main_receiver.cpp`), and `Prompt` is discussed above.

**Induction.** The induction theorems of the library take an operator as a parameter
and cannot be used with the installed provers, but an induction over a *set* of numbers
can: `InductionInASet` (in `ReassemblerReuseProofs`) follows from the well-foundedness of
the order on the natural numbers, by the library's `WFMin`. `FlattenJoins` uses it to show
that the recursive function of the community modules' `FlattenSeq` exists and joins one
payload after the other, as the loop of `popFrame` does.

**Only model-checked.** All liveness: `SleeperIsServed`, `PopUntilReturns`,
`EveryFrameLeaves`, `SendReturns`, `SignalEndsProcess`, `ArrivedIsWritten`. Liveness under
fairness and `ENABLED` are out of the prover's reach, and so are RECURSIVE operators, of
which the project has none. Every safety property that a passing run checks is also
proved.

## 6. What is not modelled

`FrameStreamStats` (`frame_result.cpp`: not built, its `update` is not declared); the log
filter of `hv_debug` (a level and a mask, set once at start-up) and the byte counters of
`debug_log`, which nothing reads; `hasPacket` and `hasPartialFrame` of
`FrameReassemblerV2`, which are reads: the one is called in a branch the built program does not
reach (the trace of missing packets in `emitFrame`), the other by nobody; packets of other programs
than `tm_sender`, with fields `sendFrame` never writes; the start-up of both programs (arguments,
sockets, `bind`) and `build.sh`, `run_test.sh`.

## 7. Plan

Done: all modules of section 2 and the theorems of section 5. What could be added, in
this order:

1. Where a run shows a difference between code and documentation, the strongest
   statement that does hold, as a theorem: for `CompleteMeansNoGap` that a frame handed
   over as `COMPLETE` with a hole had timed out, for `OverflowIsReported` that a packet
   dropped after the frame was begun is reported.
2. The safety part of the liveness arguments: that a frame's age never falls while it
   stays (for `EveryFrameLeaves`), that the grace time never starts anew (for
   `SignalEndsProcess`).
3. A bound on the worker's delay in `Receiver`, to say when a frame whose packets are on
   their way is judged idle after all.
