------------------------------ MODULE StunPort ------------------------------
(***************************************************************************)
(* The connectivity checks of one UDPPort: get_stun_message() and the      *)
(* error responses (ice/udp_port.cpp), the connection made for an unknown  *)
(* address (ice/ice_transport_channel.cpp), the connection's own checks    *)
(* (ice/ice_connection.cpp) and the requests that wait for an answer       *)
(* (ice/stun_request.cpp).                                                 *)
(*                                                                         *)
(* A client is the holder of one pair of ICE credentials; it stands for    *)
(* its user fragment and for its password.  A client that starts again     *)
(* with new credentials is another client, and any client may be at any    *)
(* address, as behind a NAT.  Datagrams are lost, delayed, reordered and   *)
(* repeated: whatever a client can send may arrive at any time.            *)
(***************************************************************************)
EXTENDS StunMessage, FiniteSets

CONSTANTS Client, Addr,
          Tid,    \* transaction ids: bounds the number of pings
          NULL    \* no connection; the empty string

ASSUME NullAssumption == NULL \notin Client \cup Addr \cup Tid

(* The port's own credentials, and those of another session.               *)
Local == "local"
Other == "other"

VARIABLES
    conns,      \* _connections: remote address -> IceConnection
    remote,     \* _remote_ice_params
    pings,      \* the pings sent
    last,       \* the datagram handled last, its author, and what was sent
    settled,    \* history: transaction ids of the pings that were answered
    undefined   \* the program has deleted an object twice

vars == <<conns, remote, pings, last, settled, undefined>>

IceConnection == [username : Client, password : Client \cup {NULL},
                  requests : SUBSET Tid, samples : Nat]

ASSUME ConnectionAssumption == NULL \notin IceConnection

Datagram(addr, msg) == [addr |-> addr, msg |-> msg]

Nothing == [got |-> NULL, by |-> NULL, sent |-> {}]

Init ==
    /\ conns = [a \in Addr |-> NULL] /\ remote = NULL
    /\ pings = {} /\ last = Nothing /\ settled = {} /\ undefined = FALSE

-----------------------------------------------------------------------------
Username(first, second) == Attribute("USERNAME", 9, <<"user", first, second>>)
Priority == Attribute("PRIORITY", 4, <<"priority">>)

(* What clients send: requests as they should be, with and without an      *)
(* attribute the server does not know, and requests with one thing amiss.  *)
Shape == {"plain", "unknown attribute", "no username", "other session", "no integrity",
          "wrong password", "no priority", "no fingerprint"}

BindingRequest(c, shape) ==
    LET user == Username(IF shape = "other session" THEN Other ELSE Local, c)
        attrs == (IF shape = "no username" THEN <<>> ELSE <<user>>)
                 \o (IF shape = "no priority" THEN <<>> ELSE <<Priority>>)
                 \o (IF shape = "unknown attribute"
                     THEN <<Attribute("SOFTWARE", 5, <<"software">>)>> ELSE <<>>)
        m == Build("REQUEST", c, attrs)
        password == IF shape \in {"other session", "wrong password"} THEN Other ELSE Local
        whole == IF shape = "no integrity" THEN m ELSE add_message_integrity(m, password)
    IN IF shape = "no fingerprint" THEN whole ELSE add_fingerprint(whole)

(* The answers of client c to a ping: if it can authenticate it, success   *)
(* or an error such as a role conflict, and else an error it cannot sign.  *)
Authentic(c, ping) ==
    /\ validate_fingerprint(ping) /\ read(ping) /\ integrity_ok(ping, c)
    /\ ValueOf(ping, "USERNAME") = <<"user", c, Local>>

ErrorCode(code) == Attribute("ERROR_CODE", 15, <<"code", code>>)

XorMappedAddress(addr) == Attribute("XOR_MAPPED_ADDRESS", 8, <<"addr", addr>>)

ClientAnswer(c, ping, addr) ==
    LET Made(type, attr) == Build(type, ping.tid, <<attr>>)
    IN IF Authentic(c, ping)
       THEN {add_fingerprint(add_message_integrity(m, c)) :
                m \in {Made("RESPONSE", XorMappedAddress(addr)), Made("ERROR", ErrorCode(487))}}
       ELSE {add_fingerprint(Made("ERROR", ErrorCode(401)))}

-----------------------------------------------------------------------------
(* Mutant: the signature of a request is not looked at.                    *)
get_stun_message_unsigned(m) ==
    IF ~validate_fingerprint(m) \/ ~read(m) THEN "not STUN"
    ELSE IF m.type # "REQUEST" THEN "accepted"
    ELSE IF ~Has(m, "USERNAME") \/ ~Has(m, "MESSAGE_INTEGRITY") THEN "bad request"
    ELSE IF ValueOf(m, "USERNAME")[2] # Local THEN "unauthorized"
    ELSE "accepted"

(* get_stun_message(): requests are refused with an error response.        *)
get_stun_message(m) ==
    IF ~validate_fingerprint(m) \/ ~read(m) THEN "not STUN"
    ELSE IF m.type # "REQUEST" THEN "accepted"
    ELSE IF ~Has(m, "USERNAME") \/ ~Has(m, "MESSAGE_INTEGRITY") THEN "bad request"
    ELSE IF ValueOf(m, "USERNAME")[2] # Local \/ ~integrity_ok(m, Local) THEN "unauthorized"
    ELSE "accepted"

(* send_binding_error_response(): neither of these two errors is signed.   *)
send_binding_error_response(addr, m, code) ==
    LET e == Build("ERROR", m.tid, <<ErrorCode(code)>>)
    IN {Datagram(addr, add_fingerprint(IF code \in {400, 401} THEN e
                                       ELSE add_message_integrity(e, Local)))}

Refused(addr, m) ==
    send_binding_error_response(addr, m, IF get_stun_message(m) = "bad request" THEN 400 ELSE 401)

(* handle_stun_binding_request()                                           *)
handle_stun_binding_request(addr, m) ==
    LET r == Build("RESPONSE", m.tid, <<XorMappedAddress(addr)>>)
    IN {Datagram(addr, add_fingerprint(add_message_integrity(r, Local)))}

RemoteUfrag(m) == ValueOf(m, "USERNAME")[3]

(* A request from an address that has a connection: on_read_packet().      *)
RequestKnown(a, m) ==
    CASE get_stun_message(m) = "not STUN" -> {}
      [] get_stun_message(m) \in {"bad request", "unauthorized"} -> Refused(a, m)
      [] RemoteUfrag(m) # conns[a].username -> send_binding_error_response(a, m, 401)
      [] OTHER -> handle_stun_binding_request(a, m)

(* A request from any other address: _on_read_packet() of the port and     *)
(* _on_unknown_address().  The connection is made for the request's user   *)
(* fragment and with the password of the answer, whosever that is.         *)
Creates(m) == get_stun_message(m) = "accepted" /\ Has(m, "PRIORITY")

create_connection(m) ==
    [username |-> RemoteUfrag(m), password |-> remote, requests |-> {}, samples |-> 0]

RequestUnknown(a, m) ==
    CASE get_stun_message(m) \in {"bad request", "unauthorized"} -> Refused(a, m)
      [] Creates(m) -> handle_stun_binding_request(a, m)
      [] OTHER -> {}

ReceiveRequest(a, c, shape) ==
    LET m == BindingRequest(c, shape)
    IN /\ last' = [got |-> Datagram(a, m), by |-> c,
                   sent |-> IF conns[a] # NULL THEN RequestKnown(a, m) ELSE RequestUnknown(a, m)]
       /\ conns' = IF conns[a] = NULL /\ Creates(m)
                   THEN [conns EXCEPT ![a] = create_connection(m)] ELSE conns
    /\ UNCHANGED <<remote, pings, settled, undefined>>

(* maybe_set_remote_ice_params() of every connection.                      *)
maybe_set_remote_ice_params(c) ==
    [a \in Addr |-> IF conns[a] # NULL /\ conns[a].username = c /\ conns[a].password = NULL
                    THEN [conns[a] EXCEPT !.password = c]
                    ELSE conns[a]]

set_remote_ice_params(c) ==
    /\ remote' = c
    /\ conns' = maybe_set_remote_ice_params(c)
    /\ last' = Nothing
    /\ UNCHANGED <<pings, settled, undefined>>

(* ConnectionRequest::prepare()                                            *)
prepare(conn, t) ==
    LET attrs == <<Username(conn.username, Local), Attribute("ICE_CONTROLLING", 8, <<"0">>),
                   Attribute("USE_CANDIDATE", 0, <<>>), Priority>>
        m == Build("REQUEST", t, attrs)
    IN add_fingerprint(add_message_integrity(m, conn.password))

(* ping() and StunRequestManager::send(), for a connection _is_pingable()  *)
(* lets through.  The transaction id is random.                            *)
ping(a) ==
    /\ conns[a] # NULL /\ conns[a].password # NULL
    /\ \E t \in Tid \ {p.msg.tid : p \in pings} :
          LET p == Datagram(a, prepare(conns[a], t))
          IN /\ pings' = pings \cup {p}
             /\ last' = [Nothing EXCEPT !.sent = {p}]
             /\ conns' = [conns EXCEPT ![a].requests = @ \cup {t}]
    /\ UNCHANGED <<remote, settled, undefined>>

(* Mutant: the request is kept when it has been answered.                  *)
answered_keeps_request(conn, m) == [conn EXCEPT !.samples = @ + 1]

(* check_response() and received_ping_response()                           *)
answered(conn, m) == [conn EXCEPT !.requests = @ \ {m.tid}, !.samples = @ + 1]

(* check_response() and on_connection_request_error_response(): the codes  *)
(* that "maybe recover" cost the request only.                             *)
recovers(conn, m) == [conn EXCEPT !.requests = @ \ {m.tid}]

Recoverable(m) == get_error_code_value(m) \in {401, 420, 500}

(* Mutant: error responses need not be signed.                             *)
counts_unsigned(conn, m) ==
    /\ m.type = "ERROR" \/ integrity_ok(m, conn.password)
    /\ m.tid \in conn.requests

(* on_read_packet(): a response counts if its signature is right and its   *)
(* request is waiting.                                                     *)
counts(conn, m) == integrity_ok(m, conn.password) /\ m.tid \in conn.requests

(* A response.  For any other error the connection deletes itself and with *)
(* it the request that check_response() then deletes once more.            *)
ReceiveResponse(a, c, m) ==
    /\ conns[a] # NULL /\ get_stun_message(m) = "accepted"
    /\ last' = [got |-> Datagram(a, m), by |-> c, sent |-> {}]
    /\ LET conn == conns[a]
       IN IF ~counts(conn, m) THEN UNCHANGED <<conns, settled, undefined>>
          ELSE IF m.type = "RESPONSE"
          THEN /\ conns' = [conns EXCEPT ![a] = answered(@, m)]
               /\ settled' = settled \cup {m.tid}
               /\ UNCHANGED undefined
          ELSE IF Recoverable(m)
          THEN conns' = [conns EXCEPT ![a] = recovers(@, m)] /\ UNCHANGED <<settled, undefined>>
          ELSE undefined' = TRUE /\ UNCHANGED <<conns, settled>>
    /\ UNCHANGED <<remote, pings>>

-----------------------------------------------------------------------------
(* Any client may get any ping, and its answer may come from an address    *)
(* that is no longer the one it was sent to.                               *)
Next ==
    /\ ~undefined
    /\ \E a \in Addr, c \in Client :
          \/ \E shape \in Shape : ReceiveRequest(a, c, shape)
          \/ \E p \in pings : \E m \in ClientAnswer(c, p.msg, a) : ReceiveResponse(a, c, m)
          \/ set_remote_ice_params(c)
          \/ ping(a)

Spec == Init /\ [][Next]_vars

-----------------------------------------------------------------------------
(* The types of the port's state.                                          *)
TypeOK ==
    /\ conns \in [Addr -> IceConnection \cup {NULL}]
    /\ remote \in Client \cup {NULL}
    /\ settled \subseteq {p.msg.tid : p \in pings} /\ undefined \in BOOLEAN

(* What the writer puts on the wire the reader accepts, whatever lengths   *)
(* and paddings the attributes have: the fingerprint and the length field  *)
(* are right, requests are signed with the connection's password,          *)
(* responses with the port's, and a reply goes where the request came from *)
(* under its transaction id.                                               *)
OwnMessagesValid ==
    /\ TypeOK
    /\ \A d \in last.sent :
          /\ validate_fingerprint(d.msg) /\ read(d.msg)
          /\ CASE d.msg.type = "REQUEST" -> integrity_ok(d.msg, conns[d.addr].password)
               [] d.msg.type = "RESPONSE" -> integrity_ok(d.msg, Local)
               [] d.msg.type = "ERROR" -> ~Has(d.msg, "MESSAGE_INTEGRITY")
          /\ d.msg.type # "REQUEST" => d.addr = last.got.addr /\ d.msg.tid = last.got.msg.tid

(* A request is answered with success if and only if it is a whole request *)
(* of this session, from the client the address belongs to; one that has   *)
(* no priority is good enough only where the connection exists.            *)
RequestsServed ==
    last.got # NULL /\ last.got.msg.type = "REQUEST" =>
        LET Is(shapes) == last.got.msg \in {BindingRequest(last.by, shape) : shape \in shapes}
            owner == conns[last.got.addr]
        IN /\ (\E d \in last.sent : d.msg.type = "RESPONSE")
                 <=> /\ owner # NULL /\ owner.username = last.by
                     /\ Is({"plain", "unknown attribute", "no priority"})
           /\ owner = NULL => ~Is({"plain", "unknown attribute"})

(* An answer to a ping has an effect only if it comes from the client      *)
(* whose user fragment and password the connection has, although it may    *)
(* have been made with the fragment of one and the password of another:    *)
(* only then does it count, and only that client's error response destroys *)
(* the connection, with what follows.                                      *)
Agreement ==
    /\ \A a \in Addr : conns[a] # NULL /\ conns[a].samples > 0
                        => conns[a].username = conns[a].password
    /\ undefined => /\ last.got.msg.type = "ERROR"
                    /\ conns[last.got.addr].username = last.by
                    /\ conns[last.got.addr].password = last.by

(* Each ping is settled at most once, at its own connection, however often *)
(* and in whatever order the answers come; until then its request waits.   *)
SettledOnce ==
    \A a \in Addr : conns[a] # NULL =>
        LET own == {p.msg.tid : p \in {q \in pings : q.addr = a}}
        IN /\ conns[a].requests = own \ settled
           /\ conns[a].samples = Cardinality(own \cap settled)
=============================================================================
