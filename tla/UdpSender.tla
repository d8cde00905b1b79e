------------------------------ MODULE UdpSender ------------------------------
(***************************************************************************)
(* UdpSender (udp_sender.hpp/.cpp): sendFrame numbers a frame, cuts it into  *)
(* packets and gives them one by one to a non-blocking socket, waiting until  *)
(* the socket is writable and trying again when it is not after all.         *)
(*                                                                          *)
(* SentFrames is what the callers send: the n-th call sends a frame numbered  *)
(* n.  The packets of the last call that went out are kept in sent.           *)
(***************************************************************************)
EXTENDS UdpPacket, Functions

VARIABLES
    frame_id,          \* frame_id_
    frame,             \* the frame of the last call of sendFrame
    pid,               \* the loop variable, a uint16_t
    at,                \* where sendFrame is
    failed,            \* whether the last call gave the frame up
    sent               \* history: the packets sendto took, in order

vars == <<frame_id, frame, pid, at, failed, sent>>

TypeOK ==
    /\ frame_id \in Nat
    /\ frame \in Seq(Byte)
    /\ pid \in 0 .. PacketCount(frame)
    /\ at \in {"idle", "loop", "wait", "send"}
    /\ failed \in BOOLEAN
    /\ sent \in Seq(RxPacket)

Init ==
    /\ frame_id = 0
    /\ frame = <<>>
    /\ pid = 0
    /\ at = "idle"
    /\ failed = FALSE
    /\ sent = <<>>

(* The call: the id is counted up first.                                     *)
SendFrame(f) ==
    /\ at = "idle"
    /\ f.frame_id = frame_id + 1
    /\ frame_id' = f.frame_id
    /\ frame' = f.data
    /\ pid' = 0
    /\ at' = "loop"
    /\ failed' = FALSE
    /\ sent' = <<>>

(* Faulty: <= for <.                                                         *)
LoopTestOneMore ==
    /\ at = "loop"
    /\ at' = IF pid <= PacketCount(frame) THEN "wait" ELSE "idle"
    /\ UNCHANGED <<frame_id, frame, pid, failed, sent>>

LoopTest ==
    /\ at = "loop"
    /\ at' = IF pid < PacketCount(frame) THEN "wait" ELSE "idle"
    /\ UNCHANGED <<frame_id, frame, pid, failed, sent>>

Writable ==
    /\ at = "wait"
    /\ at' = "send"
    /\ UNCHANGED <<frame_id, frame, pid, failed, sent>>

(* poll or sendto fails: the loop is left and the caller is not told.        *)
GiveUp ==
    /\ at \in {"wait", "send"}
    /\ at' = "idle"
    /\ failed' = TRUE
    /\ UNCHANGED <<frame_id, frame, pid, sent>>

SendTo ==
    /\ at = "send"
    /\ sent' = Append(sent, PacketAt(frame_id, frame, pid))
    /\ pid' = (pid + 1) % CountMod
    /\ at' = "loop"
    /\ UNCHANGED <<frame_id, frame, failed>>

(* Faulty variants: no pid--, and a retry of the whole frame.                *)
SkipInsteadOfRetry ==
    /\ at = "send"
    /\ pid' = (pid + 1) % CountMod
    /\ at' = "loop"
    /\ UNCHANGED <<frame_id, frame, failed, sent>>

RetryWholeFrame ==
    /\ at = "send"
    /\ pid' = 0
    /\ at' = "loop"
    /\ sent' = <<>>
    /\ UNCHANGED <<frame_id, frame, failed>>

(* EAGAIN: pid-- in the body, which wraps round at 0, and pid++ of the loop.  *)
Retry ==
    /\ at = "send"
    /\ pid' = (((pid + CountMod - 1) % CountMod) + 1) % CountMod
    /\ at' = "loop"
    /\ UNCHANGED <<frame_id, frame, failed, sent>>

Next ==
    \/ \E f \in SentFrames : SendFrame(f)
    \/ LoopTest
    \/ Writable
    \/ GiveUp
    \/ SendTo
    \/ Retry

Spec == Init /\ [][Next]_vars

(* sendFrame keeps running, the socket becomes writable, and sendto does not  *)
(* answer EAGAIN for ever.                                                   *)
FairSpec == Spec /\ WF_vars(LoopTest) /\ WF_vars(Writable) /\ SF_vars(SendTo)

-----------------------------------------------------------------------------
(* A retry neither skips a packet nor sends one twice, also when it is the    *)
(* first that is retried: what went out is the packets 0 .. pid - 1, in order. *)
SentInOrder ==
    sent = [i \in 1 .. pid |-> PacketAt(frame_id, frame, i - 1)]

(* What goes out is what the receiver is modelled to receive.                *)
SendsOnlyRxPackets == Range(sent) \subseteq RxPackets

(* packet_count is the "Total number of packets" (udp_packet.hpp:8): when     *)
(* sendFrame comes to its end, each byte of the frame went out at its place.   *)
(* It does if the frame has fewer packets than a uint16_t has values.          *)
WholeFrameSent ==
    (at = "idle" /\ ~failed) =>
        \A i \in DOMAIN frame : \E k \in DOMAIN sent :
            LET place == i - sent[k].packet_id * MaxUdpPayload
            IN  place \in DOMAIN sent[k].payload /\ sent[k].payload[place] = frame[i]

(* sendFrame returns, however often single packets are tried again.          *)
SendReturns == (at # "idle") ~> (at = "idle")
=============================================================================
