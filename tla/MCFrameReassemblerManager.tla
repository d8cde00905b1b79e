---------------------- MODULE MCFrameReassemblerManager ----------------------
(* Small instances of FrameReassemblerManager for TLC.  A byte is named after *)
(* its file and its place, so that two bytes of two files never look alike.   *)
EXTENDS FrameReassemblerManager

MCZeroByte == <<0, 0>>

MCByte == {<<file, i>> : file \in 0 .. 2, i \in 0 .. 5}

FrameOf(id, file, length) ==
    [frame_id |-> id, data |-> [i \in 1 .. length |-> <<file, i>>]]

(* A frame of two packets, and one whose third packet is past the buffer.    *)
MCSentFrames == {FrameOf(1, 1, 3), FrameOf(2, 2, 5)}

(* What two runs of tm_sender send: each numbers its only frame 1.           *)
TwoSenderRuns == {FrameOf(1, 1, 3), FrameOf(1, 2, 3)}
=============================================================================
