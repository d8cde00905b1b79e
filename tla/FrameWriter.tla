------------------------------ MODULE FrameWriter ------------------------------
(***************************************************************************)
(* write_frame_to_file (frame_writer.cpp): a frame goes to three files, which  *)
(* are opened, written and closed one after the other.  Nothing is checked:   *)
(* a file that cannot be opened is left out, and what fwrite returns is not    *)
(* looked at.                                                               *)
(*                                                                          *)
(* The caller waits until the call returns; calls holds the one being made and *)
(* those the caller makes after it.  The files outlive the process.           *)
(***************************************************************************)
EXTENDS Naturals, Sequences

CONSTANTS
    Byte,
    HeaderSize,        \* sizeof(FrameHeader)
    NoFile             \* the content of a file that does not exist

VARIABLES
    calls,             \* the calls of write_frame_to_file still to be made
    kind,              \* which of the three files the first of them is at
    opened,            \* whether fopen has truncated that file
    files,             \* the content of the files
    verdict            \* history: how the last call for a base went

vars == <<calls, kind, opened, files, verdict>>

Bases == {"full", "partial"}
Kinds == 1 .. 3        \* _frame.bin, _header.bin and _raw.bin, in this order

Call == [base : Bases, data : Seq(Byte), whole : BOOLEAN]

TypeOK ==
    /\ calls \in Seq(Call)
    /\ kind \in Kinds
    /\ opened \in BOOLEAN
    /\ files \in [Bases -> [Kinds -> Seq(Byte) \cup {NoFile}]]
    /\ verdict \in [Bases -> {"none", "writing", "torn", "partly", "whole"}]

Init ==
    /\ calls = <<>>
    /\ kind = 1
    /\ opened = FALSE
    /\ files = [base \in Bases |-> [k \in Kinds |-> NoFile]]
    /\ verdict = [base \in Bases |-> "none"]

Idle == calls = <<>>

Prefixes(content) == {SubSeq(content, 1, n) : n \in 0 .. Len(content)}

(* Faulty: the raw part is taken from the start of the frame.                  *)
ContentWithoutOffset(data) ==
    <<data, SubSeq(data, 1, HeaderSize), SubSeq(data, 1, Len(data) - HeaderSize)>>

(* What goes to the three files.                                             *)
Content(data) ==
    <<data, SubSeq(data, 1, HeaderSize), SubSeq(data, HeaderSize + 1, Len(data))>>

Accepted(call) == Len(call.data) >= HeaderSize

(* The early return: the frame is shorter than its header.                    *)
Refuse ==
    /\ ~Idle
    /\ ~Accepted(Head(calls))
    /\ calls' = Tail(calls)
    /\ UNCHANGED <<kind, opened, files, verdict>>

Writing(content, outcome) ==
    /\ files' = [files EXCEPT ![Head(calls).base][kind] = content]
    /\ verdict' = [verdict EXCEPT ![Head(calls).base] = outcome]

Open ==
    /\ ~Idle
    /\ Accepted(Head(calls))
    /\ ~opened
    /\ opened' = TRUE
    /\ Writing(<<>>, IF kind = 1 THEN "writing" ELSE verdict[Head(calls).base])
    /\ UNCHANGED <<calls, kind>>

(* On to the next file, or back to the caller.                               *)
NextFile ==
    /\ opened' = FALSE
    /\ kind' = IF kind = 3 THEN 1 ELSE kind + 1
    /\ calls' = IF kind = 3 THEN Tail(calls) ELSE calls

OpenFails ==
    /\ ~Idle
    /\ Accepted(Head(calls))
    /\ ~opened
    /\ Writing(files[Head(calls).base][kind], "torn")
    /\ NextFile

WriteAndClose ==
    /\ opened
    /\ LET call == Head(calls)
           sofar == verdict[call.base]
       IN  Writing(Content(call.data)[kind],
                   IF kind < 3 \/ sofar = "torn" THEN sofar
                   ELSE IF call.whole THEN "whole" ELSE "partly")
    /\ NextFile

(* The disk is full, or the like: some of it is written.                      *)
WriteFails ==
    /\ opened
    /\ \E some \in Prefixes(Content(Head(calls).data)[kind]) : Writing(some, "torn")
    /\ NextFile

(* The process is gone: what was buffered of the file may be on disk or not.   *)
Dies ==
    /\ calls' = <<>>
    /\ kind' = 1
    /\ opened' = FALSE
    /\ \/ /\ opened
          /\ \E some \in Prefixes(Content(Head(calls).data)[kind]) : Writing(some, "torn")
       \/ /\ ~opened
          /\ files' = files
          /\ verdict' = [base \in Bases |->
                           IF verdict[base] = "writing" THEN "torn" ELSE verdict[base]]

-----------------------------------------------------------------------------
(* The three files of a base tell of the same frame, although they are         *)
(* rewritten one by one and may be torn by a crash or a failing disk: after    *)
(* a call that went through, whatever became of the ones before, the frame     *)
(* file is the header file and the raw file, and nothing of an older and        *)
(* longer frame is left at the end of one of them.                          *)
FilesAgree ==
    \A base \in Bases :
        verdict[base] \in {"partly", "whole"} =>
            /\ files[base][1] = files[base][2] \o files[base][3]
            /\ Len(files[base][2]) = HeaderSize
=============================================================================
