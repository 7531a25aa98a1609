----------------------------- MODULE IceChannel -----------------------------
(***************************************************************************)
(* One IceTransportChannel with its IceController and IceConnections.      *)
(*                                                                         *)
(* A connection is known by the remote address it was created for: the     *)
(* port has at most one per address, and none is removed before the        *)
(* channel is.  Time is a set of expired timers for each connection, and a *)
(* timer may take any time to expire, so the model stands for every value  *)
(* of the constants of ice_def.cpp.                                        *)
(*                                                                         *)
(*   round     a check has been made since the connection's last ping      *)
(*   interval  the connection is past its ping interval                    *)
(*   lost      the answer to unanswered ping number Fails is late, and     *)
(*             CONNECTION_WRITE_CONNECT_TIMEOUT since the first of them    *)
(*   write     CONNECTION_WRITE_TIMEOUT since the first unanswered ping    *)
(*   receive   WEAK_CONNECTION_RECEIVE_TIMEOUT since the last response     *)
(*                                                                         *)
(* Round-trip times are in units of k_min_improvement.                     *)
(***************************************************************************)
EXTENDS Naturals, Sequences, FiniteSets, SequencesExt

CONSTANTS Conn, NULL,
          Priority,   \* priorities of the peer's candidates
          Rtt,        \* round-trip times that are measured
          InitialRtt, \* _rtt before the first response
          Fails,      \* CONNECTION_WRITE_CONNECT_FAILS
          MinPings    \* MIN_PINGS_AT_WEAK_PING_INTERVAL

ASSUME RttAssumption ==
    Rtt \subseteq Nat /\ InitialRtt \in Nat /\ \A r \in Rtt : r < InitialRtt
ASSUME FailsAssumption == Fails \in Nat \ {0} /\ MinPings \in Nat
ASSUME PriorityAssumption == Priority \subseteq Nat /\ NULL \notin Conn

VARIABLES conns,     \* the connections: remote address -> connection
          channel,   \* the channel and its controller
          due,       \* the ping timer has fired
          last,      \* pinged connections, by _last_ping_sent
          answered,  \* the remote ICE parameters are set
          gone       \* the peer has fallen silent

vars == <<conns, channel, due, last, answered, gone>>

Timer == {"interval", "lost", "write", "receive"}

Connection == [write : {"WRITABLE", "UNRELIABLE", "INIT", "TIMEOUT"},
               receiving : BOOLEAN,
               ufrag : {"answer", "other"},   \* whose the binding request was
               pwd : BOOLEAN,                 \* the remote password is known
               priority : Priority,
               rtt : Rtt \cup {InitialRtt},
               unanswered : 0 .. Fails,       \* pings since the last response, capped
               open : 0 .. Fails,             \* requests that may be answered, capped
               pings : 0 .. MinPings,         \* _num_pings_sent, capped
               expired : SUBSET (Timer \cup {"round"})]

ASSUME NullAssumption == NULL \notin Connection

State == {"new", "checking", "connected", "disconnected", "failed"}

Channel == [list : Seq(Conn), selected : Conn \cup {NULL}, pinged : SUBSET Conn,
            writable : BOOLEAN, receiving : BOOLEAN, been : BOOLEAN, state : State,
            pinging : BOOLEAN]

Init ==
    /\ conns = [c \in Conn |-> NULL]
    /\ channel = [list |-> <<>>, selected |-> NULL, pinged |-> {}, writable |-> FALSE,
                  receiving |-> FALSE, been |-> FALSE, state |-> "new", pinging |-> FALSE]
    /\ due = FALSE /\ last = <<>> /\ answered = FALSE /\ gone = FALSE

Capped(n, cap) == IF n < cap THEN n ELSE cap

-----------------------------------------------------------------------------
(* The operators below describe a handler while it runs: cs stands for the *)
(* connections and ch for the channel at that point.                       *)

Rank(state) == CASE state = "WRITABLE" -> 0 [] state = "UNRELIABLE" -> 1
                 [] state = "INIT" -> 2 [] state = "TIMEOUT" -> 3

(* _compare_connections(): a is better than b.                             *)
Better(a, b) ==
    \/ Rank(a.write) < Rank(b.write)
    \/ /\ a.write = b.write
       /\ \/ a.receiving /\ ~b.receiving
          \/ a.receiving = b.receiving /\ a.priority > b.priority

Precedes(a, b) == Better(a, b) \/ (~Better(b, a) /\ a.rtt < b.rtt)

(* The stable sort of sort_and_switch_connection(): each connection in     *)
(* turn goes before the first that it precedes.                            *)
Insert(sorted, c, cs) ==
    LET behind == {i \in 1 .. Len(sorted) : Precedes(cs[c], cs[sorted[i]])}
    IN InsertAt(sorted, Min(behind \cup {Len(sorted) + 1}), c)

Sort(list, cs) ==
    LET sorted[n \in 0 .. Len(list)] ==
            IF n = 0 THEN <<>> ELSE Insert(sorted[n - 1], list[n], cs)
    IN sorted[Len(list)]

ready_to_send(c, cs) == c # NULL /\ cs[c].write \in {"WRITABLE", "UNRELIABLE"}

(* Mutant: the first selection, too, has to be an improvement.             *)
SwitchIfFaster(list, selected, cs) ==
    IF list # <<>> /\ ready_to_send(Head(list), cs) /\ selected # NULL
       /\ cs[Head(list)].rtt < cs[selected].rtt
    THEN Head(list)
    ELSE selected

(* sort_and_switch_connection(): the head of the list is selected if       *)
(* nothing is, and replaces a selected one only if it is faster by         *)
(* k_min_improvement, whatever the state of the selected one.              *)
Switch(list, selected, cs) ==
    IF /\ list # <<>> /\ ready_to_send(Head(list), cs)
       /\ selected = NULL \/ cs[Head(list)].rtt < cs[selected].rtt
    THEN Head(list)
    ELSE selected

(* Mutant: a channel without a writable connection is checking.            *)
ComputeForgetful(list, been, writable, cs) ==
    IF list # <<>> /\ (\A c \in ToSet(list) : cs[c].write = "TIMEOUT") THEN "failed"
    ELSE IF list = <<>> THEN "new"
    ELSE IF ~writable THEN "checking"
    ELSE "connected"

(* _compute_ice_transport_state()                                          *)
Compute(list, been, writable, cs) ==
    IF list # <<>> /\ (\A c \in ToSet(list) : cs[c].write = "TIMEOUT") THEN "failed"
    ELSE IF been /\ ~writable THEN "disconnected"
    ELSE IF list = <<>> THEN "new"
    ELSE IF ~writable THEN "checking"
    ELSE "connected"

Weak(selected, cs) ==
    selected = NULL \/ cs[selected].write # "WRITABLE" \/ ~cs[selected].receiving

(* _is_pingable()                                                          *)
Pingable(c, selected, cs) ==
    cs[c].pwd /\ (Weak(selected, cs) \/ "interval" \in cs[c].expired)

(* _update_state() and _maybe_start_pinging(), with the list sorted and the *)
(* connection selected.                                                    *)
_update_state(ch, list, selected, cs) ==
    LET writable == selected # NULL /\ cs[selected].write = "WRITABLE"
        been == ch.been \/ writable
    IN [ch EXCEPT !.list = list, !.selected = selected,
                  !.writable = writable, !.been = been,
                  !.receiving = \E c \in ToSet(list) : cs[c].receiving,
                  !.state = Compute(list, been, writable, cs),
                  !.pinging = @ \/ \E c \in ToSet(list) : Pingable(c, selected, cs)]

(* _sort_connections_and_update_state(): everything is looked at afresh.   *)
SortAndUpdate(ch, cs) ==
    LET list == Sort(ch.list, cs)
    IN _update_state(ch, list, Switch(list, ch.selected, cs), cs)

(* set_write_state() and the end of update_receiving(): a change is        *)
(* signalled to the channel.                                               *)
SetWrite(w, c, state) ==
    IF w.cs[c].write = state THEN w
    ELSE LET cs == [w.cs EXCEPT ![c].write = state]
         IN [cs |-> cs, ch |-> SortAndUpdate(w.ch, cs)]

SetReceiving(w, c, receiving) ==
    IF w.cs[c].receiving = receiving THEN w
    ELSE LET cs == [w.cs EXCEPT ![c].receiving = receiving]
         IN [cs |-> cs, ch |-> SortAndUpdate(w.ch, cs)]

(* update_receiving(): received_ping_response() is the only one to note    *)
(* when something was received.                                            *)
UpdateReceiving(w, c) ==
    LET x == w.cs[c]
    IN SetReceiving(w, c, x.rtt # InitialRtt
                          /\ (x.unanswered = 0 \/ "receive" \notin x.expired))

(* Mutant: a connection that never became writable is not timed out.       *)
UpdateStateNoInit(w, c) ==
    LET Lost(x) == x.write = "WRITABLE" /\ "lost" \in x.expired
        Dead(x) == x.write = "UNRELIABLE" /\ "write" \in x.expired
        w1 == IF Lost(w.cs[c]) THEN SetWrite(w, c, "UNRELIABLE") ELSE w
        w2 == IF Dead(w1.cs[c]) THEN SetWrite(w1, c, "TIMEOUT") ELSE w1
    IN UpdateReceiving(w2, c)

(* IceConnection::update_state()                                           *)
UpdateState(w, c) ==
    LET Lost(x) == x.write = "WRITABLE" /\ "lost" \in x.expired
        Dead(x) == x.write \in {"UNRELIABLE", "INIT"} /\ "write" \in x.expired
        w1 == IF Lost(w.cs[c]) THEN SetWrite(w, c, "UNRELIABLE") ELSE w
        w2 == IF Dead(w1.cs[c]) THEN SetWrite(w1, c, "TIMEOUT") ELSE w1
    IN UpdateReceiving(w2, c)

(* _update_connection_states(): in the order that the list has before.     *)
_update_connection_states(w) ==
    LET after[n \in 0 .. Len(w.ch.list)] ==
            IF n = 0 THEN w ELSE UpdateState(after[n - 1], w.ch.list[n])
    IN after[Len(w.ch.list)]

-----------------------------------------------------------------------------
(* UDPPort::_on_read_packet(): what comes from a known address is the      *)
(* connection's.  From any other only a binding request that               *)
(* get_stun_message() accepts has an effect; a bad one is answered with an *)
(* error and forgotten.                                                    *)
Unknown(c) == ~gone /\ conns[c] = NULL

(* create_connection(): a connection under its remote address.  The        *)
(* password is the empty string until the answer has come.                 *)
create_connection(c, ufrag, priority) ==
    [conns EXCEPT ![c] =
        [write |-> "INIT", receiving |-> FALSE, ufrag |-> ufrag, pwd |-> answered,
         priority |-> priority, rtt |-> InitialRtt, unanswered |-> 0, open |-> 0,
         pings |-> 0, expired |-> {"interval"}]]

(* A binding request from an address the port does not know.               *)
_on_unknown_address(c, ufrag, priority) ==
    /\ Unknown(c)
    /\ conns' = create_connection(c, ufrag, priority)
    /\ channel' = SortAndUpdate([channel EXCEPT !.list = Append(@, c)], conns')
    /\ UNCHANGED <<due, last, answered, gone>>

(* maybe_set_remote_ice_params(): only connections that were created for   *)
(* the answer's user fragment learn its password.                          *)
WithPassword(cs) ==
    [c \in Conn |-> IF cs[c] # NULL /\ cs[c].ufrag = "answer" THEN [cs[c] EXCEPT !.pwd = TRUE]
                    ELSE cs[c]]

(* Mutant: pinging is left to the next event.                              *)
set_remote_ice_params_only ==
    /\ answered' = TRUE /\ conns' = WithPassword(conns)
    /\ UNCHANGED <<channel, due, last, gone>>

set_remote_ice_params ==
    /\ answered' = TRUE /\ conns' = WithPassword(conns)
    /\ channel' = SortAndUpdate(channel, conns')
    /\ UNCHANGED <<due, last, gone>>

(* The moving average moves from old towards r; the first sample is taken  *)
(* as it is.                                                               *)
Average(old, r) ==
    IF old = InitialRtt THEN {r}
    ELSE {x \in Rtt : (old <= x /\ x <= r) \/ (r <= x /\ x <= old)}

(* IceConnection::on_read_packet(): a response counts if its integrity     *)
(* holds under the remote password, which a peer of another user fragment  *)
(* does not have, and if its request is open.                              *)
Acceptable(c) ==
    ~gone /\ conns[c] # NULL /\ conns[c].ufrag = "answer" /\ conns[c].open > 0

(* check_response(): the request is removed.  Requests are never given up, *)
(* so at the cap there may have been more of them.                         *)
check_response(open) == {open - 1} \cup ({Fails} \cap {open})

(* received_ping_response(), for any request that is still open, also one  *)
(* from before the last response.                                          *)
received_ping_response(c, r) ==
    /\ Acceptable(c)
    /\ \E rtt \in Average(conns[c].rtt, r), open \in check_response(conns[c].open) :
          LET cs == [conns EXCEPT ![c].rtt = rtt, ![c].open = open, ![c].unanswered = 0,
                                  ![c].expired = @ \cap {"round", "interval"}]
              w == SetWrite(UpdateReceiving([cs |-> cs, ch |-> channel], c), c, "WRITABLE")
          IN conns' = w.cs /\ channel' = w.ch
    /\ UNCHANGED <<due, last, answered, gone>>

-----------------------------------------------------------------------------
(* Mutant: the pinged connections never return to the unpinged ones.       *)
FindNextNoMerge(w) ==
    LET Next(c) == c \in ToSet(w.ch.list) \ w.ch.pinged /\ Pingable(c, w.ch.selected, w.cs)
    IN [pinged |-> w.ch.pinged, next |-> {c \in Conn : Next(c)}]

(* _find_next_pingable_connection(): the selected connection first, then   *)
(* the unpinged one that was pinged the longest time ago; when none of     *)
(* these is pingable everybody is unpinged again.  Among those that were   *)
(* never pinged the order is that of their addresses in memory.            *)
FindNext(w) ==
    LET sel == w.ch.selected
        pingable == {c \in ToSet(w.ch.list) : Pingable(c, sel, w.cs)}
        pinged == IF pingable \subseteq w.ch.pinged THEN {} ELSE w.ch.pinged
        Older(c, d) == \/ c \notin ToSet(last)
                       \/ \E i, j \in 1 .. Len(last) : i <= j /\ last[i] = c /\ last[j] = d
        never == (pingable \ pinged) \ ToSet(last)
    IN IF sel # NULL /\ w.cs[sel].write = "WRITABLE" /\ "interval" \in w.cs[sel].expired
       THEN [pinged |-> w.ch.pinged, next |-> {sel}]
       ELSE [pinged |-> pinged,
             next |-> {c \in pingable \ pinged : \A d \in pingable \ pinged :
                           Older(c, d) \/ {c, d} \subseteq never}]

(* IceConnection::ping()                                                   *)
Pinged(x) ==
    [x EXCEPT !.unanswered = Capped(@ + 1, Fails), !.open = Capped(@ + 1, Fails),
              !.pings = Capped(@ + 1, MinPings), !.expired = @ \ {"round", "interval"}]

(* _on_check_and_ping() when the ping interval has passed.                 *)
_on_check_and_ping ==
    /\ due /\ due' = FALSE
    /\ LET w == _update_connection_states([cs |-> conns, ch |-> channel])
           found == FindNext(w)
           Rounds(cs) == [c \in Conn |-> IF cs[c] = NULL THEN NULL
                                         ELSE [cs[c] EXCEPT !.expired = @ \cup {"round"}]]
       IN IF found.next = {}
          THEN /\ conns' = Rounds(w.cs)
               /\ channel' = [w.ch EXCEPT !.pinged = found.pinged]
               /\ UNCHANGED last
          ELSE \E c \in found.next :
               /\ conns' = [Rounds(w.cs) EXCEPT ![c] = Pinged(@)]
               /\ channel' = [w.ch EXCEPT !.pinged = found.pinged \cup {c}]
               /\ last' = Append(RemoveFirst(last, c), c)
    /\ UNCHANGED <<answered, gone>>

(* _on_check_and_ping() when it has not, after the interval was raised:    *)
(* the timer will fire again.                                              *)
CheckOnly ==
    /\ due
    /\ LET w == _update_connection_states([cs |-> conns, ch |-> channel])
       IN conns' = w.cs /\ channel' = w.ch
    /\ UNCHANGED <<due, last, answered, gone>>

(* The timer that _maybe_start_pinging() started.                          *)
PingTimer ==
    /\ channel.pinging /\ ~due /\ due' = TRUE
    /\ UNCHANGED <<conns, channel, last, answered, gone>>

(* When a timer may expire.  The first MinPings pings follow each other at *)
(* WEAK_PING_INTERVAL, the later ones at intervals longer than the one     *)
(* between two checks.  Expiries that nothing looks at are left out.       *)
Running(x, t) ==
    CASE t = "interval" -> "round" \in x.expired \/ x.pings < MinPings
      [] t = "lost" -> x.unanswered = Fails /\ x.write = "WRITABLE"
      [] t = "write" -> /\ x.unanswered > 0 /\ x.write # "TIMEOUT"
                        /\ x.write = "WRITABLE" => "lost" \in x.expired
      [] t = "receive" -> x.unanswered > 0 /\ x.receiving

Expire(c, t) ==
    /\ conns[c] # NULL /\ t \notin conns[c].expired /\ Running(conns[c], t)
    /\ conns' = [conns EXCEPT ![c].expired = @ \cup {t}]
    /\ UNCHANGED <<channel, due, last, answered, gone>>

(* The peer disappears: nothing more arrives.                              *)
PeerGone == ~gone /\ gone' = TRUE /\ UNCHANGED <<conns, channel, due, last, answered>>

-----------------------------------------------------------------------------
Next ==
    \/ \E c \in Conn : \/ \E u \in {"answer", "other"}, p \in Priority :
                             _on_unknown_address(c, u, p)
                       \/ \E r \in Rtt : received_ping_response(c, r)
                       \/ \E t \in Timer : Expire(c, t)
    \/ set_remote_ice_params
    \/ PingTimer \/ _on_check_and_ping \/ CheckOnly
    \/ PeerGone

Spec == Init /\ [][Next]_vars

(* The ping timer fires and is served in the end with its interval past,   *)
(* and time passes: `lost' and `write' never run at once.                  *)
Served == due /\ due' = FALSE

FairSpec ==
    /\ Spec /\ WF_vars(PingTimer) /\ WF_due(Served)
    /\ \A c \in Conn : /\ WF_vars(Expire(c, "interval"))
                       /\ WF_vars(Expire(c, "lost") \/ Expire(c, "write"))

-----------------------------------------------------------------------------
(* The types of the channel and of its connections.                        *)
TypeOK ==
    /\ conns \in [Conn -> Connection \cup {NULL}]
    /\ channel \in Channel
    /\ due \in BOOLEAN /\ last \in Seq(Conn) /\ answered \in BOOLEAN /\ gone \in BOOLEAN

Created == {c \in Conn : conns[c] # NULL}

(* What the channel keeps and has signalled is never stale: its list holds *)
(* every connection once, best first, and the writable, receiving and      *)
(* overall states are those of its connections, whichever of them changed, *)
(* in whatever order, inside one handler.  As soon as any connection is    *)
(* usable one is selected.                                                 *)
UpToDate ==
    /\ TypeOK
    /\ ToSet(channel.list) = Created /\ Len(channel.list) = Cardinality(Created)
    /\ \A i, j \in 1 .. Len(channel.list) :
          i < j => ~Better(conns[channel.list[j]], conns[channel.list[i]])
    /\ channel.writable = (channel.selected # NULL /\ conns[channel.selected].write = "WRITABLE")
    /\ channel.receiving = \E c \in Created : conns[c].receiving
    /\ channel.state = Compute(channel.list, channel.been, channel.writable, conns)
    /\ (\E c \in Created : ready_to_send(c, conns)) => channel.selected # NULL

(* The channel is pinging as soon as there is a connection whose password  *)
(* is known, whichever of answer and binding request came first.           *)
PingingStarts == (\E c \in Created : conns[c].pwd) => channel.pinging

(* The channel keeps what IceTransport promises: it is writable exactly    *)
(* while connected, is connected only to a peer that knows the answer's    *)
(* password, and once connected never falls back to checking.              *)
Promise == INSTANCE IceTransport WITH
               state <- channel.state, writable <- channel.writable,
               been <- channel.been, answered <- answered
KeepsPromise == Promise!Spec

(* When the peer falls silent the channel fails, provided its connections  *)
(* can be pinged; it does not if one of them belongs to another user       *)
(* fragment and came before the answer.  The premise stays true.           *)
SilentPeerFails ==
    []<>(gone /\ Created # {} /\ (\A c \in Created : conns[c].pwd)
            => channel.state = "failed")

(* Every connection that can be pinged is pinged again and again: neither  *)
(* the selected connection nor any other starves it.                       *)
DueForPing(c) == conns[c] # NULL /\ conns[c].pwd /\ "interval" \in conns[c].expired

PingedAgain == \A c \in Conn : []<>~DueForPing(c)
=============================================================================
