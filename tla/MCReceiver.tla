------------------------------ MODULE MCReceiver ------------------------------
(* Small instances of Receiver for TLC.                                      *)
EXTENDS Receiver

MCZeroByte == <<0, 0>>

MCByte == {<<id, i>> : id \in 0 .. 2, i \in 0 .. 3}

FrameOf(id, length) ==
    [frame_id |-> id, data |-> [i \in 1 .. length |-> <<id, i>>]]

(* A frame of two packets and one of one packet.                            *)
TwoFrames == {FrameOf(1, 3), FrameOf(2, 2)}

(* A frame of two packets.                                                  *)
OneFrame == {FrameOf(1, 3)}
=============================================================================
