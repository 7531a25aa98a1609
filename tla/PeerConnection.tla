--------------------------- MODULE PeerConnection ---------------------------
(***************************************************************************)
(* The PeerConnections a worker creates one after the other: the offer,    *)
(* the answers, the transports between them (TransportController) and the  *)
(* SRTP sessions, whose library (SrtpSession) is shared with the other     *)
(* workers of the process.                                                 *)
(*                                                                         *)
(* An answer is the sequence of its lines, empty ones left out:            *)
(*   [kind |-> "m", media]          an m= line                             *)
(*   [kind |-> "fingerprint", f]    a=fingerprint                          *)
(*   [kind |-> "ssrc", id, track]   a=ssrc with an msid, or, if track is   *)
(*                                  NULL, with any other attribute         *)
(*   [kind |-> "group", ids]        a=ssrc-group                           *)
(*   [kind |-> "bad", of]           one that cannot be parsed: an m= line  *)
(*                                  ("m"), an a=ssrc-group ("group") or    *)
(*                                  another attribute ("attribute")        *)
(*   [kind |-> "other"]             one that is not looked at, or that is  *)
(*                                  kept and never read (m=group:BUNDLE)   *)
(* Of a track only its identifier, its SSRCs and, in no order, its groups  *)
(* are kept, of an offer its contents.                                     *)
(***************************************************************************)
EXTENDS TransportController, SrtpSession, Sequences, SequencesExt

CONSTANTS Sdp,          \* the answers that may come
          Ssrc, Track,  \* what their lines name
          Mux,          \* the values of RTCOfferAnswerOptions::use_rtp_mux
          MaxPcs        \* bound on the number of PeerConnections

Media == {"audio", "video"}

Line == [kind : {"m"}, media : STRING]
        \cup [kind : {"fingerprint"}, f : Good \cup Bad]
        \cup [kind : {"ssrc"}, id : Ssrc, track : Track \cup {NULL}]
        \cup [kind : {"group"}, ids : Seq(Ssrc) \ {<<>>}]
        \cup [kind : {"bad"}, of : {"m", "group", "attribute"}]
        \cup [kind : {"other"}]

StreamParams == [id : Track \cup {NULL}, ssrcs : Seq(Ssrc), groups : SUBSET Seq(Ssrc)]

SessionDescription == [contents : SUBSET Media, streams : [Media -> Seq(StreamParams)]]

ASSUME SdpAssumption == Sdp \subseteq Seq(Line)
ASSUME DescriptionAssumption == NULL \notin Media /\ NULL \notin SessionDescription
ASSUME MuxAssumption == Mux \subseteq BOOLEAN
ASSUME MediaAssumption == Transport = Media
ASSUME PcsAssumption == MaxPcs \in Nat
ASSUME OfferAssumption == \A media \in SUBSET Media : media # NULL
ASSUME OwnSessionsAssumption == (1 .. MaxPcs) \X Media \X {"send", "recv"} \subseteq Session

VARIABLES pc,       \* the number of the PeerConnection
          offer,    \* the media of _local_desc, NULL before create_offer()
          answer,   \* history: the last answer that had lines
          remote,   \* _remote_desc
          crashed   \* a null fingerprint was dereferenced

vars == <<transportVars, lib, pc, offer, answer, remote, crashed>>

Direction == {"send", "recv"}

(* The SRTP sessions of a transport; those of number 0 are other workers'. *)
Own(t) == {<<pc, t, d>> : d \in Direction}
Others == {s \in Session : s[1] = 0}

Init == /\ TransportInit /\ LibInit
        /\ pc = 1 /\ offer = NULL /\ answer = NULL /\ remote = NULL /\ crashed = FALSE

Running == pc <= MaxPcs /\ ~crashed

-----------------------------------------------------------------------------
(* With a BUNDLE group one transport serves all contents, and it has the   *)
(* name of the first.                                                      *)
TransportMids(media, mux) == IF mux /\ "audio" \in media THEN {"audio"} ELSE media

(* create_offer(), called once.                                            *)
create_offer(media, mux) ==
    /\ Running /\ offer = NULL
    /\ offer' = media
    /\ set_local_description(TransportMids(media, mux))
    /\ UNCHANGED <<lib, pc, answer, remote, crashed>>

(* parse_ssrc_info(): an SSRC is listed by its first line; the last msid   *)
(* says which track it belongs to.                                         *)
AddSsrc(infos, l) ==
    IF \A i \in DOMAIN infos : infos[i].id # l.id
    THEN Append(infos, [id |-> l.id, track |-> l.track])
    ELSE [i \in DOMAIN infos |-> IF infos[i].id = l.id /\ l.track # NULL
                                 THEN [infos[i] EXCEPT !.track = l.track] ELSE infos[i]]

(* The rest of a line's effect inside a section of a known medium.         *)
Attribute(p, l) ==
    CASE l.kind = "bad" -> [p EXCEPT !.ok = FALSE]
      [] l.kind = "fingerprint" -> [p EXCEPT !.fingerprint[p.media] = l.f]
      [] l.kind = "ssrc" -> [p EXCEPT !.ssrcs[p.media] = AddSsrc(@, l)]
      [] l.kind = "group" -> [p EXCEPT !.groups = @ \cup {l.ids}]
      [] l.kind = "other" -> p

GroupLine(l) == l.kind = "group" \/ l = [kind |-> "bad", of |-> "group"]

(* One round of the loop over the lines: what precedes the first m= line   *)
(* or belongs to another medium is skipped, as is an ssrc-group of audio.  *)
ReadLine(p, l) ==
    IF ~p.ok THEN p
    ELSE IF l = [kind |-> "bad", of |-> "m"] THEN [p EXCEPT !.ok = FALSE]
    ELSE IF l.kind = "m"
    THEN [p EXCEPT !.media = l.media, !.contents = @ \cup ({l.media} \cap Media)]
    ELSE IF p.media \notin Media \/ (p.media = "audio" /\ GroupLine(l)) THEN p
    ELSE Attribute(p, l)

Blank == [ok |-> TRUE, media |-> NULL, contents |-> {}, fingerprint |-> [m \in Media |-> NULL],
          ssrcs |-> [m \in Media |-> <<>>], groups |-> {}]

Parse(sdp) ==
    LET read[n \in 0 .. Len(sdp)] == IF n = 0 THEN Blank ELSE ReadLine(read[n - 1], sdp[n])
    IN read[Len(sdp)]

(* Mutant: the SSRC of a known track starts another one.                   *)
CreateTrackEach(infos) == [i \in DOMAIN infos |-> [id |-> infos[i].track, ssrcs |-> <<infos[i].id>>]]

(* create_track_from_ssrc_info(): tracks in the order of their first SSRC. *)
AddTrack(tracks, info) ==
    IF \A k \in DOMAIN tracks : tracks[k].id # info.track
    THEN Append(tracks, [id |-> info.track, ssrcs |-> <<info.id>>])
    ELSE [k \in DOMAIN tracks |->
             IF tracks[k].id = info.track THEN [tracks[k] EXCEPT !.ssrcs = Append(@, info.id)]
             ELSE tracks[k]]

create_track_from_ssrc_info(infos) ==
    LET tracks[n \in 0 .. Len(infos)] ==
            IF n = 0 THEN <<>> ELSE AddTrack(tracks[n - 1], infos[n])
    IN tracks[Len(infos)]

(* The streams of the contents.  A group goes to the track of its first    *)
(* SSRC, wherever in the section it stood.                                 *)
Streams(p) ==
    LET Led(track) == {g \in p.groups : Head(g) \in ToSet(track.ssrcs)}
        tracks == [m \in Media |-> create_track_from_ssrc_info(p.ssrcs[m])]
    IN [m \in Media |-> [k \in DOMAIN tracks[m] |->
           [id |-> tracks[m][k].id, ssrcs |-> tracks[m][k].ssrcs,
            groups |-> IF m = "video" THEN Led(tracks[m][k]) ELSE {}]]]

(* SrtpTransport::reset_params()                                           *)
reset_params(l, t) == Delete(Delete(l, <<pc, t, "send">>), <<pc, t, "recv">>)

(* The DtlsSrtpTransports that lose their keys in a step reset theirs.     *)
ResetLost(l) ==
    LET Lost(t) == t \in Created /\ transport[t].keys # NoKeys /\ transport'[t].keys = NoKeys
        Step(m, t) == IF Lost(t) THEN reset_params(m, t) ELSE m
    IN Step(Step(l, "audio"), "video")

(* An error in a line: _remote_desc is the new one already, with the       *)
(* contents met so far and no streams.                                     *)
Refuse(p) ==
    /\ remote' = [contents |-> p.contents, streams |-> [m \in Media |-> <<>>]]
    /\ UNCHANGED <<transportVars, lib, crashed>>

Accept(p) ==
    /\ remote' = [contents |-> p.contents, streams |-> Streams(p)]
    /\ IF \E t \in p.contents \cap Created : p.fingerprint[t] = NULL
       THEN crashed' = TRUE /\ UNCHANGED <<transportVars, lib>>
       ELSE /\ set_remote_description([t \in p.contents |-> p.fingerprint[t]])
            /\ lib' = ResetLost(lib)
            /\ UNCHANGED crashed

(* set_remote_sdp(): of any answer, at any time after the offer, again and *)
(* again.  One without lines, as when a client's message lacks the field,  *)
(* is refused before anything is touched.                                  *)
set_remote_sdp(sdp) ==
    /\ Running /\ offer # NULL
    /\ IF sdp = <<>> THEN UNCHANGED <<transportVars, lib, answer, remote, crashed>>
       ELSE /\ answer' = sdp
            /\ LET p == Parse(sdp) IN IF p.ok THEN Accept(p) ELSE Refuse(p)
    /\ UNCHANGED <<pc, offer>>

(* PushStream::_get_source(): what viewers are offered of this publisher.  *)
_get_source(m) ==
    IF remote = NULL THEN <<>> ELSE IF m \in remote.contents THEN remote.streams[m] ELSE <<>>

-----------------------------------------------------------------------------
(* SrtpTransport::set_rtp_params(): a and b are the outcomes for the two   *)
(* sessions; if either fails both are deleted.                             *)
set_rtp_params(l, t, a, b) ==
    LET l1 == SetKey(l, <<pc, t, "send">>, a)
        l2 == SetKey(l1, <<pc, t, "recv">>, b)
    IN CASE ~Succeeds(l, a) -> [ok |-> FALSE, lib |-> reset_params(l1, t)]
         [] Succeeds(l, a) /\ ~Succeeds(l1, b) -> [ok |-> FALSE, lib |-> reset_params(l2, t)]
         [] OTHER -> [ok |-> TRUE, lib |-> l2]

(* The handshake of a transport completes, and its SRTP is set up.         *)
Connected(t) ==
    \/ Open(t, FALSE) /\ UNCHANGED lib    \* no usable SRTP suite was negotiated
    \/ \E a, b \in Outcome :
          LET r == set_rtp_params(lib, t, a, b) IN Open(t, r.ok) /\ lib' = r.lib

(* The other events of a transport.                                        *)
Event(t) ==
    /\ \/ \E s \in IceState : IceChange(t, s)
       \/ ClientHello(t)
       \/ \E state \in {"closed", "failed"} : Close(t, state)
    /\ lib' = ResetLost(lib)

TransportStep ==
    /\ Running
    /\ \E t \in Created : Connected(t) \/ Event(t)
    /\ UNCHANGED <<pc, offer, answer, remote, crashed>>

(* ~PeerConnection() and the next one.  ~TransportController() deletes the *)
(* agent and the DtlsTransports; the DtlsSrtpTransports are leaked with    *)
(* the sessions they have.                                                 *)
Destroy ==
    /\ Running /\ pc' = pc + 1
    /\ transport' = [t \in {} |-> NewTransport] /\ ice_state' = "new" /\ pc_state' = "new"
    /\ offer' = NULL /\ answer' = NULL /\ remote' = NULL
    /\ UNCHANGED <<lib, crashed>>

(* Another worker thread sets up or deletes a session of its own.          *)
OtherWorker ==
    /\ ~crashed
    /\ \E s \in Others : \/ \E o \in Outcome : lib.session[s] = "none" /\ lib' = SetKey(lib, s, o)
                         \/ lib.session[s] # "none" /\ lib' = Delete(lib, s)
    /\ UNCHANGED <<transportVars, pc, offer, answer, remote, crashed>>

Next == \/ \E media \in SUBSET Media, mux \in Mux : create_offer(media, mux)
        \/ \E sdp \in Sdp : set_remote_sdp(sdp)
        \/ TransportStep
        \/ Destroy
        \/ OtherWorker

Spec == Init /\ [][Next]_vars

-----------------------------------------------------------------------------
(* When the PeerConnection is signalled as connected, which stops the      *)
(* stream's timeout, every transport takes in media and the server can     *)
(* send, unless the peer has closed the transport or SRTP did not accept   *)
(* its keys.  A stream without audio is excepted: send_rtp() and           *)
(* send_rtcp() know only the transport "audio".                            *)
ConnectedCarriesMedia ==
    LET Dead(t) == transport[t].dtls = "closed" \/ ~transport[t].installed
    IN pc_state = "connected" =>
           /\ \A t \in Created : Received(transport[t]) \/ Dead(t)
           /\ "audio" \in offer => /\ "audio" \in Created
                                   /\ Sent(transport["audio"]) \/ Dead("audio")

(* libsrtp is up and counts every session, whatever failed while one was   *)
(* set up; the sessions of the living PeerConnection are those of the      *)
(* transports with keys.  Those of a dead one stay for ever, so the        *)
(* library may outlive all streams, but never goes before a session.       *)
LibraryAccounted ==
    /\ Sound(lib)
    /\ \A t \in Created : \A s \in Own(t) :
          lib.session[s] = IF transport[t].keys # NoKeys THEN "created" ELSE "none"

(* The medium of the last m= line at or before line i.                     *)
MediaAt(sdp, i) ==
    LET ms == {j \in 1 .. i : sdp[j].kind = "m"}
    IN IF ms = {} THEN NULL ELSE sdp[Max(ms)].media

(* The a=ssrc lines of a medium among the first n, those of them that give *)
(* the msid of an SSRC, its track, and the groups of the video.            *)
SsrcLines(sdp, n, m) == {i \in 1 .. n : sdp[i].kind = "ssrc" /\ MediaAt(sdp, i) = m}

MsidLines(sdp, n, m, id) ==
    {i \in SsrcLines(sdp, n, m) : sdp[i].id = id /\ sdp[i].track # NULL}

TrackAt(sdp, n, m, id) ==
    LET msids == MsidLines(sdp, n, m, id) IN IF msids = {} THEN NULL ELSE sdp[Max(msids)].track

GroupsAt(sdp, n) ==
    {sdp[i].ids : i \in {j \in 1 .. n : sdp[j].kind = "group" /\ MediaAt(sdp, j) = "video"}}

(* Viewers are offered exactly the tracks of the last answer that had      *)
(* lines: every SSRC once, under the track of its last msid, with the      *)
(* groups it leads.  If a line of it was refused they are offered none at  *)
(* all, though the publisher's media may go on; an answer without lines    *)
(* leaves what they are offered as it was.                                 *)
OfferedAsPublished ==
    answer # NULL => \A m \in Media :
        LET n == Len(answer)
            ids == {answer[i].id : i \in SsrcLines(answer, n, m)}
            track(id) == TrackAt(answer, n, m, id)
            groups == IF m = "video" THEN GroupsAt(answer, n) ELSE {}
            offered == _get_source(m)
        IN IF ~Parse(answer).ok THEN offered = <<>>
           ELSE /\ {offered[k].id : k \in DOMAIN offered} = {track(id) : id \in ids}
                /\ IsInjective([k \in DOMAIN offered |-> offered[k].id])
                /\ \A k \in DOMAIN offered :
                      /\ IsInjective(offered[k].ssrcs)
                      /\ ToSet(offered[k].ssrcs) = {id \in ids : track(id) = offered[k].id}
                      /\ offered[k].groups = {g \in groups : Head(g) \in ToSet(offered[k].ssrcs)}
=============================================================================
