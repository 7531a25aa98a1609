------------------------ MODULE TransportController ------------------------
(***************************************************************************)
(* The transports of one PeerConnection: for each an IceTransportChannel,  *)
(* a DtlsTransport and a DtlsSrtpTransport; over them IceAgent and         *)
(* TransportController, which aggregate the states.  PeerConnection drives *)
(* these handlers and says when they may run.                              *)
(*                                                                         *)
(* The ICE channel is known by what IceTransport promises, which IceChannel*)
(* is shown to keep.  The SSL stream is an environment: it opens, or it is *)
(* closed by the peer or by an error.  A StartSSL() or a packet that fails *)
(* is an error that comes at once.                                         *)
(*                                                                         *)
(* Slots run in the order in which they were connected: on an ICE signal   *)
(* IceAgent before DtlsTransport, on a DTLS one TransportController before *)
(* DtlsSrtpTransport.                                                      *)
(***************************************************************************)
EXTENDS Naturals, FiniteSetsExt

CONSTANTS Transport,     \* the mids a transport may be created for
          NULL,
          Good, Bad,     \* fingerprints the SSL stream accepts and does not
          Odd,           \* those of the latter whose digest has an odd length
          MaxSessions    \* bound on the SSL streams of one transport

ASSUME SessionsAssumption == MaxSessions \in Nat \ {0}
ASSUME FingerprintAssumption == NULL \notin Good \cup Bad /\ Good \cap Bad = {} /\ Odd \subseteq Bad
ASSUME NullAssumption == NULL \notin {"new", "connecting", "connected", "disconnected", "failed"}

VARIABLES transport,   \* the transports created so far, by mid
          ice_state,   \* _ice_state of IceAgent
          pc_state     \* _pc_state of TransportController

transportVars == <<transport, ice_state, pc_state>>

IceState == {"new", "checking", "connected", "disconnected", "failed"}
DtlsState == {"new", "connecting", "connected", "closed", "failed"}
PcState == {"new", "connecting", "connected", "disconnected", "failed"}

(* ice, ice_writable and been belong to the channel.  The SSL streams of a *)
(* transport are numbered: session is the number of the last one, ssl says *)
(* whether it exists, keys is the session whose keys SRTP uses, and        *)
(* installed whether SRTP accepted those of the last handshake.            *)
Record == [ice : IceState, ice_writable : BOOLEAN, been : BOOLEAN,
           dtls : DtlsState, ssl : BOOLEAN, session : 0 .. MaxSessions,
           fingerprint : Good \cup Bad \cup {NULL}, hello : BOOLEAN,
           writable : BOOLEAN, keys : 0 .. MaxSessions, installed : BOOLEAN]

NoKeys == 0

NewTransport ==
    [ice |-> "new", ice_writable |-> FALSE, been |-> FALSE, dtls |-> "new", ssl |-> FALSE,
     session |-> 0, fingerprint |-> NULL, hello |-> FALSE, writable |-> FALSE,
     keys |-> NoKeys, installed |-> FALSE]

Created == DOMAIN transport

TransportInit ==
    /\ transport = [t \in {} |-> NewTransport]
    /\ ice_state = "new" /\ pc_state = "new"

(* set_local_description(): mids are those of the contents that are not    *)
(* bundled, and the first of those that are.                               *)
set_local_description(mids) ==
    /\ transport' = [t \in mids |-> NewTransport]
    /\ UNCHANGED <<ice_state, pc_state>>

(* What the handlers below may assume of the channel.                      *)
Ice(t) == INSTANCE IceTransport WITH
              state <- transport[t].ice, writable <- transport[t].ice_writable,
              been <- transport[t].been, answered <- transport[t].fingerprint # NULL

-----------------------------------------------------------------------------
(* IceAgent::_update_state(), a function of the channels' states.          *)
IceAggregate(ts) ==
    LET S == {ts[t].ice : t \in DOMAIN ts}
    IN IF "failed" \in S THEN "failed"
       ELSE IF "disconnected" \in S THEN "disconnected"
       ELSE IF S \subseteq {"new"} THEN "new"
       ELSE IF S \cap {"new", "checking"} # {} THEN "checking"
       ELSE "connected"

(* TransportController::_update_state(): the counts of the code compare    *)
(* the states of all channels and all DTLS transports together.            *)
PcAggregate(ts) ==
    LET S == {ts[t].ice : t \in DOMAIN ts} \cup {ts[t].dtls : t \in DOMAIN ts}
    IN IF "failed" \in S THEN "failed"
       ELSE IF "disconnected" \in S THEN "disconnected"
       ELSE IF S \subseteq {"new", "closed"} THEN "new"
       ELSE IF S \cap {"checking", "connecting", "new"} # {} THEN "connecting"
       ELSE "connected"

(* The operators below describe a handler while it runs: w holds the       *)
(* transports and the controller's state at that point.                    *)
Now == [ts |-> transport, pc |-> pc_state]

With(w, t, x) == [w EXCEPT !.ts = [@ EXCEPT ![t] = x]]

Updated(w) == [w EXCEPT !.pc = PcAggregate(w.ts)]

(* _set_writable_state() signals to the controller.                        *)
SetWritable(w, t, writable) ==
    IF w.ts[t].writable = writable THEN w
    ELSE Updated(With(w, t, [w.ts[t] EXCEPT !.writable = writable]))

(* _maybe_setup_dtls_srtp(): the sessions get the keys of the SSL stream.  *)
(* If that fails both sessions are reset, and it is not tried again.       *)
MaybeSetup(x) ==
    IF x.keys = NoKeys /\ x.writable /\ x.installed THEN [x EXCEPT !.keys = x.session] ELSE x

(* Mutant: the SRTP sessions stay when DTLS is not connected any more.     *)
SrtpKept(x) == IF x.dtls = "connected" THEN MaybeSetup(x) ELSE x

(* DtlsSrtpTransport::_on_dtls_state()                                     *)
Srtp(x) == IF x.dtls = "connected" THEN MaybeSetup(x) ELSE [x EXCEPT !.keys = NoKeys]

(* A packet from the peer is passed on by DtlsTransport while connected,   *)
(* by DtlsSrtpTransport while SRTP is active.                              *)
Received(x) == x.dtls = "connected" /\ x.keys # NoKeys

(* send_rtp() and send_rtcp() need SRTP, and the channel a selected        *)
(* connection, which a writable channel has.                               *)
Sent(x) == x.keys # NoKeys /\ x.ice_writable

(* Mutant: the change is not signalled to the controller.                  *)
SetDtlsQuietly(w, t, state) ==
    With(w, t, Srtp([w.ts[t] EXCEPT !.dtls = state]))

(* _set_dtls_state()                                                       *)
SetDtls(w, t, state) ==
    IF w.ts[t].dtls = state THEN w
    ELSE LET v == Updated(With(w, t, [w.ts[t] EXCEPT !.dtls = state]))
         IN With(v, t, Srtp(v.ts[t]))

(* Mutant: only a cached ClientHello starts the handshake.                 *)
MaybeStartOnHello(w, t) ==
    IF w.ts[t].ssl /\ w.ts[t].ice_writable /\ w.ts[t].hello
    THEN SetDtls(With(w, t, [w.ts[t] EXCEPT !.hello = FALSE]), t, "connecting")
    ELSE w

(* _maybe_start_dtls(): a cached ClientHello goes to the stream.           *)
MaybeStart(w, t) ==
    IF w.ts[t].ssl /\ w.ts[t].ice_writable
    THEN LET v == SetDtls(w, t, "connecting")
         IN With(v, t, [v.ts[t] EXCEPT !.hello = FALSE])
    ELSE w

(* _setup_dtls(), and the failure in set_remote_fingerprint() if it does.  *)
(* The code takes the bitwise and of the digest's length with the negated  *)
(* result of giving the stream the digest: one that the stream does not    *)
(* accept is noticed only if its length is odd.                            *)
Setup(w, t) ==
    LET v == With(w, t, [w.ts[t] EXCEPT !.ssl = TRUE, !.session = @ + 1])
    IN IF w.ts[t].fingerprint \in Odd THEN SetDtls(v, t, "failed") ELSE MaybeStart(v, t)

Finish(w) == transport' = w.ts /\ pc_state' = w.pc

-----------------------------------------------------------------------------
(* DtlsTransport::_on_writable_state(): a change is ignored while the      *)
(* handshake is under way and once the transport is closed or failed.      *)
OnWritable(w, t) ==
    CASE w.ts[t].dtls = "new" -> MaybeStart(w, t)
      [] w.ts[t].dtls = "connected" -> SetWritable(w, t, w.ts[t].ice_writable)
      [] OTHER -> w

(* Mutant: IceAgent does not pass on that a channel is lost.               *)
IceChangeUnlessLost(t, s) ==
    /\ s \in Ice(t)!After(transport[t].ice, transport[t].been)
    /\ s = "connected" => transport[t].fingerprint # NULL
    /\ LET v == With(Now, t, [transport[t] EXCEPT !.ice_writable = (s = "connected"),
                                                  !.been = @ \/ s = "connected"])
           w1 == IF transport[t].ice_writable = (s = "connected") THEN v ELSE OnWritable(v, t)
           w2 == With(w1, t, [w1.ts[t] EXCEPT !.ice = s])
       IN /\ ice_state' = IceAggregate(w2.ts)
          /\ Finish(IF s # "disconnected" THEN Updated(w2) ELSE w2)

(* IceTransportChannel::_update_state() with its two signals: first that   *)
(* of the writable state, while the state is still the old one, then that  *)
(* of the state, which reaches the controller only if IceAgent's own state *)
(* changes.                                                                *)
IceChange(t, s) ==
    /\ s \in Ice(t)!After(transport[t].ice, transport[t].been)
    /\ s = "connected" => transport[t].fingerprint # NULL
    /\ LET v == With(Now, t, [transport[t] EXCEPT !.ice_writable = (s = "connected"),
                                                  !.been = @ \/ s = "connected"])
           w1 == IF transport[t].ice_writable = (s = "connected") THEN v ELSE OnWritable(v, t)
           w2 == With(w1, t, [w1.ts[t] EXCEPT !.ice = s])
       IN /\ ice_state' = IceAggregate(w2.ts)
          /\ Finish(IF ice_state' # ice_state THEN Updated(w2) ELSE w2)

(* _on_read_packet() with a ClientHello: before the handshake has started  *)
(* it is cached and makes the transport set up its stream; afterwards it   *)
(* is the stream's.                                                        *)
ClientHello(t) ==
    /\ transport[t].dtls = "new"
    /\ ~transport[t].ssl => transport[t].session < MaxSessions
    /\ LET w == With(Now, t, [transport[t] EXCEPT !.hello = TRUE])
       IN Finish(IF transport[t].ssl THEN w ELSE Setup(w, t))
    /\ UNCHANGED ice_state

(* set_remote_fingerprint() with a new fingerprint drops the stream.       *)
Reset(w, t) ==
    SetWritable(SetDtls(With(w, t, [w.ts[t] EXCEPT !.ssl = FALSE]), t, "new"), t, FALSE)

(* set_remote_fingerprint(): the first fingerprint is given to a stream    *)
(* that a ClientHello has set up, another one replaces the stream.         *)
SetFingerprint(w, t, f) ==
    LET x == w.ts[t]
        v == With(w, t, [x EXCEPT !.fingerprint = f])
    IN IF x.fingerprint = f THEN w
       ELSE IF ~x.ssl THEN Setup(v, t)
       ELSE IF x.fingerprint # NULL THEN Setup(Reset(v, t), t)
       ELSE IF f \in Bad THEN SetDtls(v, t, "failed")
       ELSE v

(* set_remote_description(): f is the fingerprint of each content of the   *)
(* answer.  A content without a transport is skipped; one transport does   *)
(* not see the others, and the state that the controller computes for the  *)
(* last of those that signal is the one that stays.                        *)
set_remote_description(f) ==
    LET mids == DOMAIN f \cap Created
        Alone(t) == SetFingerprint([Now EXCEPT !.pc = NULL], t, f[t])
        Signals(t) == Alone(t).pc # NULL
        ts == [t \in Created |-> IF t \in mids THEN Alone(t).ts[t] ELSE transport[t]]
    IN /\ \A t \in mids : transport[t].session < MaxSessions \/ f[t] = transport[t].fingerprint
       /\ Finish([ts |-> ts, pc |-> IF \E t \in mids : Signals(t) THEN PcAggregate(ts) ELSE pc_state])
       /\ UNCHANGED ice_state

(* _on_dtls_event(SE_OPEN): the handshake is complete and the peer's       *)
(* certificate has the digest of the fingerprint.  It may have negotiated  *)
(* no SRTP suite, or SRTP may refuse the keys.                             *)
Open(t, installed) ==
    /\ transport[t].dtls = "connecting" /\ transport[t].fingerprint \in Good
    /\ LET v == With(Now, t, [transport[t] EXCEPT !.installed = installed])
       IN Finish(SetDtls(SetWritable(v, t, TRUE), t, "connected"))
    /\ UNCHANGED ice_state

(* _on_dtls_event(SE_READ) at the end of the stream or after an error, and *)
(* SE_CLOSE.                                                               *)
Close(t, state) ==
    /\ transport[t].dtls \in {"connecting", "connected"}
    /\ Finish(SetDtls(SetWritable(Now, t, FALSE), t, state))
    /\ UNCHANGED ice_state

-----------------------------------------------------------------------------
(* The types of the transports and of the aggregated states.               *)
TransportTypeOK ==
    /\ Created \subseteq Transport
    /\ transport \in [Created -> Record]
    /\ ice_state \in IceState /\ pc_state \in PcState

(* What was last signalled for the PeerConnection is the aggregate of what *)
(* its transports are now, though a channel's change reaches the           *)
(* controller only through IceAgent's and DtlsTransport's own changes.     *)
PcStateCurrent == TransportTypeOK /\ pc_state = PcAggregate(transport)

(* SRTP never uses the keys of an earlier handshake, and has those of the  *)
(* current one exactly while DTLS is connected and SRTP accepted them.     *)
KeysCurrent ==
    \A t \in Created :
        transport[t].keys = IF transport[t].dtls = "connected" /\ transport[t].installed
                            THEN transport[t].session
                            ELSE NoKeys

(* Whatever the order of ClientHello, answer and ICE connectivity, the     *)
(* transport has a stream once one of the first two is there, and starts   *)
(* the handshake once the channel is writable as well.                     *)
HandshakeStarts ==
    \A t \in Created :
        LET x == transport[t]
        IN /\ x.hello \/ x.fingerprint # NULL => x.ssl
           /\ x.ssl /\ x.ice_writable => x.dtls # "new"
=============================================================================
