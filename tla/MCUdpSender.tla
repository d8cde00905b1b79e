----------------------------- MODULE MCUdpSender -----------------------------
(* A small instance of UdpSender for TLC.                                    *)
EXTENDS UdpSender

MCByte == {<<id, i>> : id \in 1 .. 4, i \in 1 .. 6}

FrameOf(id, length) ==
    [frame_id |-> id, data |-> [i \in 1 .. length |-> <<id, i>>]]

(* Frames of one to three packets, the last one full or not.                 *)
MCSentFrames == {FrameOf(id, length) : id \in 1 .. 4, length \in 1 .. 6}
=============================================================================
