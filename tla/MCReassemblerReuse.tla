--------------------------- MODULE MCReassemblerReuse ---------------------------
(* A small instance of ReassemblerReuse for TLC.                             *)
EXTENDS ReassemblerReuse

MCZeroByte == <<0, 0>>

MCByte == {<<id, i>> : id \in 0 .. 4, i \in 0 .. 5}

FrameOf(id, length) ==
    [frame_id |-> id, data |-> [i \in 1 .. length |-> <<id, i>>]]

(* A long and a short frame, one that outgrows the buffer, and one whose id is  *)
(* NoFrameId.                                                               *)
MCSentFrames == {FrameOf(1, 4), FrameOf(2, 1), FrameOf(3, 5), FrameOf(4, 3)}
=============================================================================
