----------------------- MODULE FrameReassemblerManager -----------------------
(***************************************************************************)
(* FrameReassemblerManager (frame_reassembler_manager.hpp/.cpp): the frames  *)
(* being reassembled, keyed by frame id, and the timers that decide when a   *)
(* frame is handed over.                                                    *)
(*                                                                          *)
(* One thread owns the manager, so each method is one step.  Time is kept as *)
(* the age of each frame since its first packet and the time since its last  *)
(* one, in ticks; both stop counting once they are past the limit they are   *)
(* compared with.  done and written hold what the last step handed over:      *)
(* FrameResults given to onFrameDone, and direct calls of                    *)
(* write_frame_to_file.                                                     *)
(***************************************************************************)
EXTENDS FrameReassemblerV2, Functions

CONSTANTS
    IdleTimeout,       \* FRAME_IDLE_TIMEOUT, in ticks
    MaxLifetime,       \* MAX_FRAME_LIFETIME, in ticks
    MaxEntries,        \* bound of the model: frames counted by stats_ or live
    MaxDrops           \* bound of the model: packets dropped by the queue

ASSUME ManagerAssumption ==
    /\ IdleTimeout \in Nat
    /\ MaxLifetime \in Nat
    /\ MaxEntries \in Nat
    /\ MaxDrops \in Nat

VARIABLES
    frames,            \* frames_: a function on the ids of the live frames
    stats,             \* stats_
    done,              \* the FrameResults the last step gave to onFrameDone
    written,           \* what the last step gave to write_frame_to_file
    drops              \* PacketQueue::dropped(), which the caller passes in

vars == <<frames, stats, done, written, drops>>

(* FrameEntry.                                                              *)
Entry == [reassembler : Reassembler,
          age         : 0 .. (MaxLifetime + 1),
          idle        : 0 .. (IdleTimeout + 1),
          queue_drop_at_start : Nat]

FrameResult ==
    [frame_id         : Nat,
     state            : {"COMPLETE", "PARTIAL"},
     complete         : BOOLEAN,
     corrupted        : BOOLEAN,
     queue_pressure   : BOOLEAN,
     expected_packets : U16,
     received_packets : U16,
     frame_data       : Seq(Byte)]

Write == [frame_id : Nat, data : Seq(Byte), is_partial : BOOLEAN]

Live == DOMAIN frames

TypeOK ==
    /\ Live \subseteq FrameIds
    /\ frames \in [Live -> Entry]
    /\ stats \in [total : Nat, complete : Nat, partial : Nat]
    /\ done \in Seq(FrameResult)
    /\ written \in Seq(Write)
    /\ drops \in Nat

NoFrames == [id \in {} |-> NewReassembler]

Init ==
    /\ frames = NoFrames
    /\ stats = [total |-> 0, complete |-> 0, partial |-> 0]
    /\ done = <<>>
    /\ written = <<>>
    /\ drops = 0

-----------------------------------------------------------------------------
(* pushPacket: the first packet of an id starts a frame with the packet_count *)
(* it carries; every packet, kept or not, counts as activity.               *)
StartedEntry(pkt) ==
    [reassembler |-> StartNewFrame(NewReassembler, pkt.frame_id, pkt.packet_count),
     age |-> 0,
     idle |-> 0,
     queue_drop_at_start |-> drops]

(* Faulty: a packet that is not kept is no activity.                          *)
TouchedIfKept(entry, pkt) ==
    [entry EXCEPT !.reassembler = PushToFrame(@, pkt),
                  !.idle = IF Accepts(entry.reassembler, pkt) THEN 0 ELSE @]

Touched(entry, pkt) ==
    [entry EXCEPT !.reassembler = PushToFrame(@, pkt), !.idle = 0]

EntryFor(pkt) ==
    IF pkt.frame_id \in Live THEN frames[pkt.frame_id] ELSE StartedEntry(pkt)

PushPacket(pkt) ==
    /\ frames' = [id \in Live \cup {pkt.frame_id} |->
                    IF id = pkt.frame_id THEN Touched(EntryFor(pkt), pkt)
                                         ELSE frames[id]]
    /\ done' = <<>>
    /\ written' = <<>>
    /\ UNCHANGED <<stats, drops>>

-----------------------------------------------------------------------------
AllReceived(entry) ==
    entry.reassembler.received_packets_count = entry.reassembler.expected_packet_count

IsIdle(entry)  == entry.idle > IdleTimeout
IsStale(entry) == entry.age > MaxLifetime

(* frames_ is a std::map: a loop over it visits the ids in ascending order.  *)
InMapOrder(ids, S) ==
    /\ ids \in [1 .. Cardinality(S) -> S]
    /\ \A i, j \in DOMAIN ids : i < j => ids[i] < ids[j]

Without(S) == Restrict(frames, Live \ S)

(* The FrameResult emitFrame builds.                                        *)
ResultOf(entry, final_state) ==
    LET fr == entry.reassembler
    IN  [frame_id         |-> fr.current_frame_id,
         state            |-> final_state,
         complete         |-> AllReceived(entry),
         corrupted        |-> HasGap(fr) \/ HasCorruption(fr),
         queue_pressure   |-> drops > entry.queue_drop_at_start,
         expected_packets |-> fr.expected_packet_count,
         received_packets |-> fr.received_packets_count,
         frame_data       |-> FrameData(fr)]

(* emitFrame and erase for each frame of S, PARTIAL for those of partials and  *)
(* COMPLETE for the others.                                                 *)
EmitFrames(S, partials) ==
    /\ \E ids \in [1 .. Cardinality(S) -> S] :
           /\ InMapOrder(ids, S)
           /\ done' = [i \in DOMAIN ids |->
                         ResultOf(frames[ids[i]],
                                  IF ids[i] \in partials THEN "PARTIAL" ELSE "COMPLETE")]
    /\ stats' = [total    |-> stats.total + Cardinality(S),
                 complete |-> stats.complete + Cardinality(S \ partials),
                 partial  |-> stats.partial + Cardinality(S \cap partials)]
    /\ frames' = Without(S)
    /\ written' = <<>>
    /\ UNCHANGED drops

(* Faulty: without the hard lifetime.                                        *)
DueOrIdle == {id \in Live : AllReceived(frames[id]) \/ IsIdle(frames[id])}

Due == {id \in Live : \/ AllReceived(frames[id])
                      \/ IsIdle(frames[id])
                      \/ IsStale(frames[id])}

(* pollTimers: the verdict on a frame that timed out is the one the code      *)
(* reaches, COMPLETE when the counts differ and PARTIAL when they do not; the  *)
(* latter were handed over before.                                          *)
PollTimers ==
    LET timedOut == {id \in Due : ~AllReceived(frames[id])}
        Differ(fr) == fr.received_packets_count # fr.expected_packet_count
    IN  EmitFrames(Due, {id \in timedOut : ~Differ(frames[id].reassembler)})

ForceEmitAll == EmitFrames(Live, {id \in Live : ~AllReceived(frames[id])})

-----------------------------------------------------------------------------
(* write_frame_to_file and erase, without emitFrame: the counters and the      *)
(* callback are left out.  The frames of S are written, as partial those of    *)
(* partials, and those of removed leave the map.                            *)
WriteFrames(S, partials, removed) ==
    /\ \E ids \in [1 .. Cardinality(S) -> S] :
           /\ InMapOrder(ids, S)
           /\ written' = [i \in DOMAIN ids |->
                            [frame_id   |-> ids[i],
                             data       |-> FrameData(frames[ids[i]].reassembler),
                             is_partial |-> ids[i] \in partials]]
    /\ frames' = Without(removed)
    /\ done' = <<>>
    /\ UNCHANGED <<stats, drops>>

(* Faulty: a complete frame is left to the timers.                           *)
NonemptyPartial ==
    {id \in Live : HasAnyPacket(frames[id].reassembler) /\ ~AllReceived(frames[id])}

Nonempty == {id \in Live : HasAnyPacket(frames[id].reassembler)}

(* Faulty: without the final clear().                                        *)
FlushWithoutClear == WriteFrames(Nonempty, Nonempty, {})

FlushAll == WriteFrames(Nonempty, Nonempty, Live)

(* pollFlush: complete frames as full, and the stale ones as partial.         *)
PollFlush ==
    LET full  == {id \in Live : /\ IsFrameComplete(frames[id].reassembler)
                                /\ ~HasGap(frames[id].reassembler)}
        stale == {id \in Live \ full : IsStale(frames[id])}
    IN  WriteFrames(full \cup stale, stale, full \cup stale)

-----------------------------------------------------------------------------
(* The clock, and the queue that drops packets between two calls.            *)
Older(entry) ==
    [entry EXCEPT !.age  = IF @ > MaxLifetime THEN @ ELSE @ + 1,
                  !.idle = IF @ > IdleTimeout THEN @ ELSE @ + 1]

Tick ==
    /\ frames' = [id \in Live |-> Older(frames[id])]
    /\ done' = <<>>
    /\ written' = <<>>
    /\ UNCHANGED <<stats, drops>>

QueueDrops ==
    /\ drops < MaxDrops
    /\ drops' = drops + 1
    /\ done' = <<>>
    /\ written' = <<>>
    /\ UNCHANGED <<frames, stats>>

(* A caller may make any of the calls at any time.                          *)
MayStart(pkt) ==
    pkt.frame_id \notin Live => stats.total + Cardinality(Live) < MaxEntries

Next ==
    \/ \E pkt \in RxPackets : MayStart(pkt) /\ PushPacket(pkt)
    \/ PollTimers
    \/ ForceEmitAll
    \/ FlushAll
    \/ PollFlush
    \/ Tick
    \/ QueueDrops

Spec == Init /\ [][Next]_vars

(* The worker polls the timers for ever, and time passes.                    *)
FairSpec == Spec /\ WF_vars(PollTimers) /\ WF_vars(Tick)
-----------------------------------------------------------------------------
(* The verdicts compare two counters (frame_reassembler_v2.hpp:41 says       *)
(* "Based on bitmap"): the counter is the number of bits set, whatever       *)
(* duplicates arrive, and does not wrap round.                              *)
CountMatchesBitmap ==
    \A id \in Live :
        LET fr == frames[id].reassembler
        IN  /\ fr.packet_received \subseteq 0 .. (fr.expected_packet_count - 1)
            /\ fr.received_packets_count = Cardinality(fr.packet_received)

(* A frame handed over as complete is, byte for byte and in its whole length, *)
(* a frame sent under its id, although packets arrive in any order, twice, or *)
(* after the frame was handed over.                                         *)
CompleteFramesIntact ==
    \A i \in DOMAIN done :
        done[i].complete =>
            [frame_id |-> done[i].frame_id, data |-> done[i].frame_data] \in SentFrames

(* A frame with holes: each packet kept is at its offset, and a hole is zero, *)
(* never a byte of another frame.                                           *)
BytesInPlace ==
    \A id \in Live : \E f \in SentFrames :
        LET fr == frames[id].reassembler
            Kept(i) == i < Len(f.data) /\ i \div MaxUdpPayload \in fr.packet_received
        IN  /\ f.frame_id = id
            /\ \A i \in Offsets :
                  fr.frame_buffer[i] = IF Kept(i) THEN f.data[i + 1] ELSE ZeroByte

(* What a call hands over is what it erases: no frame that holds a packet is  *)
(* lost on the way out, or handed over twice, or kept to be handed over again. *)
Reported == [i \in DOMAIN done |-> done[i].frame_id]
            \o [i \in DOMAIN written |-> written[i].frame_id]

HandsOverWhatItErases ==
    LET gone == Live \ Live'
    IN  /\ IsInjective(Reported')
        /\ Range(Reported') \subseteq gone
        /\ \A id \in gone : HasAnyPacket(frames[id].reassembler)
                               => id \in Range(Reported')

ErasedMeansHandedOver == [][HandsOverWhatItErases]_vars

(* The manager is a FrameAssembly: whatever is called when, what it hands over *)
(* is what it was given of the frame and nothing else, ends with the last      *)
(* part, and is called complete exactly when every part of it came.           *)
Assembly == INSTANCE FrameAssembly WITH
    held  <- [id \in Live |-> frames[id].reassembler.packet_received],
    out   <- {[frame_id |-> r.frame_id, data |-> r.frame_data] : r \in Range(done)}
             \cup {[frame_id |-> w.frame_id, data |-> w.data] : w \in Range(written)},
    whole <- {r.frame_id : r \in {r \in Range(done) : r.complete}}

ImplementsAssembly == Assembly!Spec

(* frame_result.hpp:23: a frame reported COMPLETE has all its packets.        *)
CompleteMeansNoGap ==
    \A i \in DOMAIN done :
        done[i].state = "COMPLETE" =>
            done[i].received_packets = done[i].expected_packets

(* No frame stays for ever, not even one whose duplicates keep coming: a      *)
(* duplicate restarts the idle timer and only the lifetime gets rid of it.   *)
EveryFrameLeaves ==
    \A id \in FrameIds : (id \in Live) ~> (id \notin Live)
=============================================================================
