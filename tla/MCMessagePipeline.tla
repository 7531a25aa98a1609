------------------------- MODULE MCMessagePipeline -------------------------
(* Two streams, each on an RtcWorker of its own.                           *)
EXTENDS MessagePipeline, TLC

CONSTANTS w1, w2, s1, s2, r1, r2

OneEach == s1 :> r1 @@ s2 :> r2

Req(w, s, k) == [worker |-> w, stream |-> s, kind |-> k]

Requests == {Req(w1, s1, "OFFER"), Req(w2, s1, "COMMAND"), Req(w2, s2, "COMMAND")}
=============================================================================
