-------------------------- MODULE MCPeerConnection --------------------------
(* Answers and sessions for the runs of PeerConnection.                    *)
EXTENDS PeerConnection

CONSTANTS f1, f2, b1, b2, t1, t2

MCSession == ((1 .. MaxPcs) \X Media \X Direction) \cup {<<0, "audio", "send">>}

M(media) == <<[kind |-> "m", media |-> media]>>
F(f) == <<[kind |-> "fingerprint", f |-> f]>>
S(id, track) == <<[kind |-> "ssrc", id |-> id, track |-> track]>>
G(ids) == <<[kind |-> "group", ids |-> ids]>>
Other == <<[kind |-> "other"]>>
Bad1(of) == <<[kind |-> "bad", of |-> of]>>

(* A full answer of a publisher whose video has two tracks, one of them    *)
(* with a retransmission SSRC, for which the msid comes late.              *)
Full(f) == M("audio") \o F(f) \o S(1, t1) \o G(<<1>>)
           \o M("video") \o F(f) \o G(<<2, 3>>) \o S(2, NULL) \o S(3, t1) \o S(2, t1) \o S(4, t2)

MCSdp == {<<>>,
          Full(f1),
          M("audio") \o F(f2) \o S(1, t1) \o M("video") \o F(f2) \o S(2, t1) \o S(2, t2) \o S(3, NULL),
          M("audio") \o F(b1) \o Bad1("group") \o M("data") \o Bad1("attribute") \o M("video") \o F(b2),
          M("audio") \o F(f1) \o S(1, t1) \o M("video") \o F(f1) \o S(2, t1) \o Bad1("group"),
          Other \o F(f1) \o M("audio") \o Other \o S(1, t1)}
=============================================================================
