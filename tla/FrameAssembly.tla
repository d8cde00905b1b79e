---------------------------- MODULE FrameAssembly ----------------------------
(***************************************************************************)
(* What a FrameReassemblerManager promises, without timers, counters, buffers *)
(* or verdicts: it collects, under each frame id, the parts of that frame      *)
(* that arrive and fit, and whenever it gives frames up it hands over what it  *)
(* has of them, each part at its place and zeros between them.                *)
(***************************************************************************)
EXTENDS UdpPacket

CONSTANTS
    MaxFrameSize,      \* the longest frame that is collected
    ZeroByte           \* what a part that never came is replaced with

VARIABLES
    held,              \* the parts collected, a function on the ids begun
    out,               \* what the last step handed over
    whole              \* the ids the last step announced as complete

vars == <<held, out, whole>>

FrameWithId(id) == CHOOSE f \in SentFrames : f.frame_id = id

Parts(f) == {n \in U16 : n < PacketCount(f.data)}

HeldOf(id) == IF id \in DOMAIN held THEN held[id] ELSE {}

(* The frame ends where the last part held ends.                             *)
SizeOf(f, parts) ==
    CHOOSE n \in {0} \cup {EndIn(f.data, pid) : pid \in parts} :
        \A pid \in parts : EndIn(f.data, pid) <= n

Assembled(f, parts) ==
    [i \in 1 .. SizeOf(f, parts) |->
        IF (i - 1) \div MaxUdpPayload \in parts THEN f.data[i] ELSE ZeroByte]

HandedOver(id) ==
    [frame_id |-> id, data |-> Assembled(FrameWithId(id), held[id])]

Init == held = [id \in {} |-> {}] /\ out = {} /\ whole = {}

(* A part arrives: new, again, or too far behind to fit.                     *)
Receive(f, pid) ==
    /\ held' = [id \in DOMAIN held \cup {f.frame_id} |->
                  IF id # f.frame_id THEN held[id]
                  ELSE HeldOf(id) \cup {n \in {pid} : EndIn(f.data, n) <= MaxFrameSize}]
    /\ out' = {}
    /\ whole' = {}

(* The frames of gone are given up.  Those of shown are handed over: all of    *)
(* which something was held are.  The complete ones may be announced.         *)
GiveUp(gone, shown) ==
    /\ shown \subseteq gone
    /\ \A id \in gone : held[id] # {} => id \in shown
    /\ held' = [id \in DOMAIN held \ gone |-> held[id]]
    /\ out' = {HandedOver(id) : id \in shown}
    /\ whole' \in {{}, {id \in shown : held[id] = Parts(FrameWithId(id))}}

Quiet == out' = {} /\ whole' = {} /\ UNCHANGED held

Next ==
    \/ \E f \in SentFrames : \E pid \in Parts(f) : Receive(f, pid)
    \/ \E gone \in SUBSET DOMAIN held : \E shown \in SUBSET gone : GiveUp(gone, shown)
    \/ Quiet

Spec == Init /\ [][Next]_vars
=============================================================================
