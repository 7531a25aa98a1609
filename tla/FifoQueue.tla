----------------------------- MODULE FifoQueue -----------------------------
(***************************************************************************)
(* What the hand-over of a message between two threads promises: every     *)
(* value that was sent is received exactly once and in the order of        *)
(* sending.  `written' and `read' are the two ends of one channel.         *)
(***************************************************************************)
EXTENDS Naturals, Sequences

CONSTANT Value

VARIABLES written, read

vars == <<written, read>>

Init == written = <<>> /\ read = <<>>

Send == /\ \E v \in Value : written' = Append(written, v)
        /\ UNCHANGED read

Recv == /\ Len(read) < Len(written)
        /\ read' = Append(read, written[Len(read) + 1])
        /\ UNCHANGED written

Next == Send \/ Recv

Spec == Init /\ [][Next]_vars

(* The receiver never stops while something is queued.                     *)
FairSpec == Spec /\ WF_vars(Recv)
=============================================================================
