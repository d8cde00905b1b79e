------------------------------- MODULE Transfer -------------------------------
(***************************************************************************)
(* A file on its way: tm_sender reads it, puts a header before it and sends   *)
(* the frame (main_sender.cpp, file_source.cpp, ccsds_stub_encoder.cpp), the   *)
(* network loses, repeats and reorders the packets, and tm_receiver puts the   *)
(* frame together and writes it to its files (main_receiver.cpp,              *)
(* frame_writer.cpp).  tm_sender is run again and again on the same file, as   *)
(* run_send.sh --loop does.  tm_receiver may be stopped or die at any point,   *)
(* and is started again, as its service unit says, over the files it left.    *)
(*                                                                          *)
(* The threads and the queue of tm_receiver are in Receiver; here the packets  *)
(* it takes are any of those put out, in any order.                          *)
(***************************************************************************)
EXTENDS Naturals, Sequences, FiniteSets

CONSTANTS
    CountMod, MaxUdpPayload, Byte,                 \* the wire
    MaxFrameSize, PayloadStride, ZeroByte,         \* the receiver's buffer
    IdleTimeout, MaxLifetime,                      \* its timeouts
    NoFile,
    Raw,               \* the bytes of the file tm_sender is given
    Header,            \* the FrameHeader for a file of that size
    MaxRuns,           \* bound of the model: runs of tm_sender
    MaxFrames,         \* bound of the model: frames begun by a tm_receiver
    MaxFaults          \* bound of the model: crashes and failing files

ASSUME TransferAssumption ==
    /\ {CountMod, MaxUdpPayload, PayloadStride} \subseteq Nat \ {0}
    /\ ZeroByte \in Byte
    /\ {MaxFrameSize, IdleTimeout, MaxLifetime} \subseteq Nat
    /\ Raw \in Seq(Byte)
    /\ Header \in Seq(Byte)
    /\ NoFile \notin Seq(Byte)
    /\ {MaxRuns, MaxFrames, MaxFaults} \subseteq Nat

VARIABLES
    frame_id, frame, pid, at, failed, sent,        \* the UdpSender of tm_sender
    tm,                \* where tm_sender is
    runs,              \* how often it was started
    senderHeader,      \* the file sender_header.bin
    net,               \* the packets put out so far, by any of the runs
    frames, stats, done, written, drops,           \* the receiver's manager
    calls, kind, opened, files, verdict,           \* its writer and the files
    rcv,               \* whether tm_receiver runs
    faults

senderVars  == <<frame_id, frame, pid, at, failed, sent>>
sourceVars  == <<tm, runs, senderHeader>>
managerVars == <<frames, stats, done, written, drops>>
writerVars  == <<calls, kind, opened, files, verdict>>

(* CcsdsStubEncoder::encode.                                                 *)
EncodeWithoutHeader(raw) == raw

Encode(raw) == Header \o raw

(* FileSource reads the whole file, and a file that is empty is not sent; the  *)
(* frame is the first of its process.                                       *)
Frames == IF Raw = <<>> THEN {} ELSE {[frame_id |-> 1, data |-> Encode(Raw)]}

Sender == INSTANCE UdpSender WITH SentFrames <- Frames

Manager == INSTANCE FrameReassemblerManager
    WITH SentFrames <- Frames, MaxEntries <- MaxFrames, MaxDrops <- 0

Writer == INSTANCE FrameWriter WITH HeaderSize <- Len(Header)

vars == <<senderVars, sourceVars, net, managerVars, writerVars, rcv, faults>>

TypeOK ==
    /\ Sender!TypeOK
    /\ Manager!TypeOK
    /\ Writer!TypeOK
    /\ tm \in {"off", "read", "sending"}
    /\ runs \in 0 .. MaxRuns
    /\ senderHeader \in {NoFile, Header}
    /\ net \subseteq Manager!RxPackets
    /\ rcv \in {"up", "stopping", "down"}
    /\ faults \in 0 .. MaxFaults

Init ==
    /\ Sender!Init
    /\ tm = "off"
    /\ runs = 0
    /\ senderHeader = NoFile
    /\ net = {}
    /\ Manager!Init
    /\ Writer!Init
    /\ rcv = "up"
    /\ faults = 0

-----------------------------------------------------------------------------
(* tm_sender: a process with a new UdpSender, which ends at once without a     *)
(* frame, ...                                                               *)
StartSender ==
    /\ tm = "off"
    /\ runs < MaxRuns
    /\ runs' = runs + 1
    /\ frame_id' = 0 /\ frame' = <<>> /\ pid' = 0
    /\ at' = "idle" /\ failed' = FALSE /\ sent' = <<>>
    /\ tm' = IF Frames = {} THEN "off" ELSE "read"
    /\ UNCHANGED <<senderHeader, net, managerVars, writerVars, rcv, faults>>

(* ... sender_header.bin and the call of sendFrame, ...                       *)
SendTheFrame ==
    /\ tm = "read"
    /\ \E f \in Frames : /\ Sender!SendFrame(f)
                         /\ senderHeader' = SubSeq(f.data, 1, Len(Header))
    /\ tm' = "sending"
    /\ UNCHANGED <<runs, net, managerVars, writerVars, rcv, faults>>

(* ... and sendFrame, after which the process ends.                          *)
SenderStep ==
    /\ tm = "sending"
    /\ \/ /\ \/ Sender!LoopTest \/ Sender!Writable \/ Sender!Retry \/ Sender!GiveUp
          /\ UNCHANGED net
       \/ /\ Sender!SendTo
          /\ net' = net \cup {sent'[Len(sent')]}
    /\ tm' = IF at' = "idle" THEN "off" ELSE "sending"
    /\ UNCHANGED <<runs, senderHeader, managerVars, writerVars, rcv, faults>>

-----------------------------------------------------------------------------
(* tm_receiver: the worker calls the manager when it is not writing.          *)
Working == rcv = "up" /\ Writer!Idle

TakePacket ==
    /\ Working
    /\ \E pkt \in net : Manager!MayStart(pkt) /\ Manager!PushPacket(pkt)
    /\ UNCHANGED <<senderVars, sourceVars, net, writerVars, rcv, faults>>

(* What is handed over becomes calls of write_frame_to_file: by onFrameDone    *)
(* with the verdict, and by flushAll.                                       *)
OfResult(r) ==
    [base |-> IF r.state = "PARTIAL" THEN "partial" ELSE "full",
     data |-> r.frame_data, whole |-> r.complete]

OfWrite(w) ==
    [base |-> IF w.is_partial THEN "partial" ELSE "full",
     data |-> w.data, whole |-> Manager!AllReceived(frames[w.frame_id])]

CallsMade ==
    /\ calls' = [i \in DOMAIN done' |-> OfResult(done'[i])]
                \o [i \in DOMAIN written' |-> OfWrite(written'[i])]
    /\ UNCHANGED <<kind, opened, files, verdict>>

PollTimers ==
    /\ Working
    /\ Manager!PollTimers
    /\ CallsMade
    /\ UNCHANGED <<senderVars, sourceVars, net, rcv, faults>>

(* The signal: the loop is left and the rest is flushed.                      *)
Stop ==
    /\ Working
    /\ Manager!FlushAll
    /\ CallsMade
    /\ rcv' = "stopping"
    /\ UNCHANGED <<senderVars, sourceVars, net, faults>>

Exit ==
    /\ rcv = "stopping"
    /\ Writer!Idle
    /\ rcv' = "down"
    /\ UNCHANGED <<senderVars, sourceVars, net, managerVars, writerVars, faults>>

(* The calls have been made out by now: what was handed over is forgotten.     *)
Write ==
    /\ Writer!Refuse \/ Writer!Open \/ Writer!WriteAndClose
    /\ done' = <<>> /\ written' = <<>>
    /\ UNCHANGED <<senderVars, sourceVars, net, frames, stats, drops, rcv, faults>>

Fault == faults < MaxFaults /\ faults' = faults + 1

FileFails ==
    /\ Fault
    /\ Writer!OpenFails \/ Writer!WriteFails
    /\ UNCHANGED <<senderVars, sourceVars, net, managerVars, rcv>>

(* The process dies: the frames it held are gone.                            *)
Crash ==
    /\ rcv # "down"
    /\ Fault
    /\ Writer!Dies
    /\ rcv' = "down"
    /\ UNCHANGED <<senderVars, sourceVars, net, managerVars>>

(* A new process: an empty manager, and the files as they are.                *)
Restart ==
    /\ rcv = "down"
    /\ rcv' = "up"
    /\ frames' = Manager!NoFrames
    /\ stats' = [total |-> 0, complete |-> 0, partial |-> 0]
    /\ done' = <<>> /\ written' = <<>> /\ drops' = 0
    /\ UNCHANGED <<senderVars, sourceVars, net, writerVars, faults>>

Tick ==
    /\ rcv = "up"
    /\ Manager!Tick
    /\ UNCHANGED <<senderVars, sourceVars, net, writerVars, rcv, faults>>

Next ==
    \/ StartSender \/ SendTheFrame \/ SenderStep
    \/ TakePacket \/ PollTimers \/ Stop \/ Exit
    \/ Write \/ FileFails
    \/ Crash \/ Restart
    \/ Tick

Spec == Init /\ [][Next]_vars

(* The worker polls and writes; nothing else need ever happen.                *)
FairSpec == Spec /\ WF_vars(PollTimers) /\ WF_vars(Write)
-----------------------------------------------------------------------------
(* The files the receiver leaves tell of one frame each, see FrameWriter.      *)
FilesAgree == Writer!FilesAgree

(* After a complete frame was written and no file failed, the header file is    *)
(* sender_header.bin and the raw file is the file given to tm_sender, whatever *)
(* was lost or repeated on the way, and whatever crash left behind in the     *)
(* files.  run_test.sh:67-77 makes this comparison, though of file names the   *)
(* receiver does not write.                                                 *)
FileComesThrough ==
    \A base \in Writer!Bases :
        verdict[base] = "whole" =>
            files[base][2] = senderHeader /\ files[base][3] = Raw

(* A frame the sender gave up in the middle is never taken for complete, not   *)
(* even together with duplicates, or with the packets of the run before, as    *)
(* long as one of its packets never went out.                               *)
CompleteMeansAllSent ==
    \A i \in DOMAIN done : done[i].complete => net = Manager!RxPackets

(* A frame of which everything arrived ends up in one of the raw files, if the *)
(* receiver is not killed and the disk works; a stop signal does not lose it.  *)
ArrivedIsWritten ==
    (rcv = "up" /\ \E id \in Manager!Live : Manager!AllReceived(frames[id]))
        ~> (faults > 0 \/ \E base \in Writer!Bases : files[base][3] = Raw)
=============================================================================
