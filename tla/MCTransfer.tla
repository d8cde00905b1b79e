------------------------------ MODULE MCTransfer ------------------------------
(* A small instance of Transfer for TLC.                                     *)
EXTENDS Transfer

MCByte == {<<origin, i>> : origin \in 0 .. 2, i \in 0 .. 3}

MCZeroByte == <<0, 0>>

(* A header of two bytes and a file of three make a frame of two packets.     *)
MCHeader == << <<1, 1>>, <<1, 2>> >>

MCRaw == << <<2, 1>>, <<2, 2>>, <<2, 3>> >>
=============================================================================
