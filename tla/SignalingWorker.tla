-------------------------- MODULE SignalingWorker --------------------------
(***************************************************************************)
(* One SignalingWorker thread with its TCP connections                     *)
(* (server/signaling_worker.cpp, server/tcp_connection.h), the part of     *)
(* SignalingServer that hands it new sockets, the clients, and the rtc     *)
(* part of the program reduced to what it does to a worker: it takes a     *)
(* message and, for PUSH and PULL, returns it later or (no certificate)    *)
(* never.                                                                  *)
(*                                                                         *)
(* Data are counted in units of half a request header.  A client is one    *)
(* TCP connection and makes one request; `owner' and `from' record for the *)
(* properties whose connection and whose request something is.             *)
(***************************************************************************)
EXTENDS Naturals, Sequences, FiniteSets

CONSTANTS Client,     \* connections made to the server
          Fd,         \* file descriptors the kernel hands out
          Addr,       \* addresses `new TcpConnection' may return
          NULL,
          Kind,       \* requests the clients make, a subset of AllKinds
          BodyLen,    \* the lengths of their bodies
          MaxSend,    \* bound on the units a client sends
          Processed,  \* bytes_processed after a request (65535)
          ReplyLen,   \* length of a reply
          SockBuf,    \* room in a socket's send buffer
          Timeouts,   \* FALSE: no connection is idle for connection_timeout
          CertFails,  \* TRUE: RtcServer may drop a message
          FreshAddr   \* TRUE: the allocator does not reuse the address of a
                      \* connection that a message in flight still points to

AllKinds == {"PUSH", "STOP", "UNKNOWN", "BADBODY", "BADMAGIC"}

ASSUME KindAssumption == Kind \subseteq AllKinds
ASSUME LengthAssumption == /\ BodyLen \subseteq Nat /\ MaxSend \in Nat /\ Processed \in Nat
                           /\ ReplyLen \in Nat \ {0} /\ SockBuf \in Nat \ {0}
ASSUME FlagAssumption == {Timeouts, CertFails, FreshAddr} \subseteq BOOLEAN

XHEAD_SIZE == 2

VARIABLES
    request,   \* client -> its request, NULL before it connects
    gone,      \* clients that closed their end
    nsent,     \* client -> units it sent
    unread,    \* client -> units in the server socket's receive buffer
    sock,      \* fd -> the client at the other end, NULL if closed
    outbuf,    \* client -> units in the server socket's send buffer
    q_conn, q_msg, pipe,     \* _q_conn, _q_msg and the notify pipe
    conns,     \* _conns
    heap,      \* address -> TcpConnection, NULL if free
    at,        \* what the thread is doing
    backend,   \* messages in the rtc part of the program
    handled,   \* history: client -> number of times its request was handled
    received,  \* history: client -> units it has read
    dropped    \* history: clients whose message the rtc part dropped

clientVars == <<request, gone, nsent>>
queueVars == <<q_conn, q_msg, pipe>>
histVars == <<handled, received, dropped>>
vars == <<clientVars, unread, sock, outbuf, queueVars, conns, heap, at, backend, histVars>>

Idle == [in |-> "loop"]

Request == [kind : Kind, body : BodyLen]

Message == [conn : Addr, fd : Fd, from : Client]

Reply == [for : Client, header : BOOLEAN]

TcpConnection == [fd : Fd, owner : Client, state : {"HEAD", "BODY"}, qlen : Nat,
                  processed : Nat, replies : Seq(Reply), pos : Nat,
                  mask : SUBSET {"READ", "WRITE"}, stale : BOOLEAN]

ASSUME NullAssumption == NULL \notin Client \cup Addr \cup Fd \cup Request \cup TcpConnection

Init ==
    /\ request = [c \in Client |-> NULL] /\ gone = {}
    /\ nsent = [c \in Client |-> 0] /\ unread = [c \in Client |-> 0]
    /\ sock = [f \in Fd |-> NULL] /\ outbuf = [c \in Client |-> 0]
    /\ q_conn = <<>> /\ q_msg = <<>> /\ pipe = <<>>
    /\ conns = [f \in Fd |-> NULL] /\ heap = [a \in Addr |-> NULL]
    /\ at = Idle /\ backend = {}
    /\ handled = [c \in Client |-> 0] /\ received = [c \in Client |-> 0]
    /\ dropped = {}

Live == {a \in Addr : heap[a] # NULL}

(* Addresses of connections some message in flight refers to.              *)
Referenced == {m.conn : m \in backend} \cup {q_msg[i].conn : i \in 1 .. Len(q_msg)}

-----------------------------------------------------------------------------
(* The clients.                                                            *)

(* _dispatch_new_conn() to this worker: notify_new_conn().                 *)
_dispatch_new_conn(f) ==
    /\ q_conn' = Append(q_conn, f)
    /\ pipe' = Append(pipe, "NEW_CONN")

(* A client connects and the SignalingServer thread accepts.               *)
accept_new_conn(c) ==
    /\ request[c] = NULL
    /\ \E r \in Request, f \in Fd :
          /\ sock[f] = NULL
          /\ request' = [request EXCEPT ![c] = r]
          /\ sock' = [sock EXCEPT ![f] = c]
          /\ _dispatch_new_conn(f)
    /\ UNCHANGED <<gone, nsent, unread, outbuf, q_msg, conns, heap, at, backend, histVars>>

Connected(c) == \E f \in Fd : sock[f] = c

ClientSend(c) ==
    /\ Connected(c) /\ c \notin gone /\ nsent[c] < MaxSend
    /\ nsent' = [nsent EXCEPT ![c] = @ + 1]
    /\ unread' = [unread EXCEPT ![c] = @ + 1]
    /\ UNCHANGED <<request, gone, sock, outbuf, queueVars, conns, heap, at, backend, histVars>>

ClientClose(c) ==
    /\ Connected(c) /\ c \notin gone
    /\ gone' = gone \cup {c}
    /\ UNCHANGED <<request, nsent, unread, sock, outbuf, queueVars, conns, heap, at,
                   backend, histVars>>

ClientRead(c) ==
    /\ outbuf[c] > 0
    /\ outbuf' = [outbuf EXCEPT ![c] = @ - 1]
    /\ received' = [received EXCEPT ![c] = @ + 1]
    /\ UNCHANGED <<clientVars, unread, sock, queueVars, conns, heap, at, backend, handled, dropped>>

-----------------------------------------------------------------------------
(* The rtc part.                                                           *)

(* RtcWorker::_process_push/_process_pull: the message comes back.         *)
RtcAnswer ==
    /\ \E m \in backend : /\ backend' = backend \ {m}
                          /\ q_msg' = Append(q_msg, m)
    /\ pipe' = Append(pipe, "RTC_MSG")
    /\ UNCHANGED <<clientVars, unread, sock, outbuf, q_conn, conns, heap, at, histVars>>

(* RtcServer::_process_rtc_msg without a certificate.                      *)
RtcDrop ==
    /\ CertFails
    /\ \E m \in backend : /\ backend' = backend \ {m}
                          /\ dropped' = dropped \cup {m.from}
    /\ UNCHANGED <<clientVars, unread, sock, outbuf, queueVars, conns, heap, at,
                   handled, received>>

-----------------------------------------------------------------------------
(* Mutant: the slot of the closed descriptor is not cleared.               *)
CloseConnKeepsSlot(a) ==
    /\ sock' = [sock EXCEPT ![heap[a].fd] = NULL]
    /\ heap' = [heap EXCEPT ![a] = NULL]
    /\ at' = Idle
    /\ UNCHANGED conns

(* _close_conn(): close, cancel timer and watcher, clear the slot, delete. *)
CloseConn(a) ==
    /\ sock' = [sock EXCEPT ![heap[a].fd] = NULL]
    /\ conns' = [conns EXCEPT ![heap[a].fd] = NULL]
    /\ heap' = [heap EXCEPT ![a] = NULL]
    /\ at' = Idle

NewConnection(f) ==
    [fd |-> f, owner |-> sock[f], state |-> "HEAD", qlen |-> 0, processed |-> 0,
     replies |-> <<>>, pos |-> 0, mask |-> {"READ"}, stale |-> FALSE]

(* NEW_CONN: _new_conn().                                                  *)
NewConn ==
    /\ at = Idle /\ pipe # <<>> /\ Head(pipe) = "NEW_CONN"
    /\ pipe' = Tail(pipe)
    /\ q_conn # <<>> /\ q_conn' = Tail(q_conn)
    /\ \E a \in Addr \ Live :
          /\ FreshAddr => a \notin Referenced
          /\ heap' = [heap EXCEPT ![a] = NewConnection(Head(q_conn))]
          /\ conns' = [conns EXCEPT ![Head(q_conn)] = a]
    /\ UNCHANGED <<clientVars, unread, sock, outbuf, q_msg, at, backend, histVars>>

(* Mutant: the WRITE event is not requested.                               *)
WithReplyUnannounced(conn, client) ==
    [conn EXCEPT !.replies = Append(@, [for |-> client, header |-> conn.qlen >= XHEAD_SIZE])]

(* _add_reply(): queue it and ask for the WRITE event.                     *)
WithReply(conn, client) ==
    [conn EXCEPT !.replies = Append(@, [for |-> client, header |-> conn.qlen >= XHEAD_SIZE]),
                 !.mask = @ \cup {"WRITE"}]

(* Mutant: any connection in the slot gets the reply.                      *)
RtcMsgToSlot ==
    /\ at = Idle /\ pipe # <<>> /\ Head(pipe) = "RTC_MSG"
    /\ pipe' = Tail(pipe)
    /\ q_msg # <<>> /\ q_msg' = Tail(q_msg)
    /\ LET m == Head(q_msg)
       IN heap' = IF conns[m.fd] # NULL
                  THEN [heap EXCEPT ![conns[m.fd]] = WithReply(@, m.from)]
                  ELSE heap
    /\ UNCHANGED <<clientVars, unread, sock, outbuf, q_conn, conns, at, backend, histVars>>

(* RTC_MSG: _response_server_offer().  The slot must still hold the        *)
(* connection the request came from; the reply's header is copied out of   *)
(* that connection's querybuf.                                             *)
RtcMsg ==
    /\ at = Idle /\ pipe # <<>> /\ Head(pipe) = "RTC_MSG"
    /\ pipe' = Tail(pipe)
    /\ q_msg # <<>> /\ q_msg' = Tail(q_msg)
    /\ LET m == Head(q_msg)
       IN heap' = IF conns[m.fd] = m.conn
                  THEN [heap EXCEPT ![m.conn] = WithReply(@, m.from)]
                  ELSE heap
    /\ UNCHANGED <<clientVars, unread, sock, outbuf, q_conn, conns, at, backend, histVars>>

(* sock_read_data(): what has arrived, up to bytes_expected bytes.         *)
sock_read_data(c) == IF unread[c] < XHEAD_SIZE THEN unread[c] ELSE XHEAD_SIZE

(* _read_query(): end of file or an error closes the connection.           *)
ReadQuery(a) ==
    /\ at = Idle /\ a \in Live /\ "READ" \in heap[a].mask
    /\ LET c == heap[a].owner
           n == sock_read_data(c)
       IN \/ /\ n > 0
             /\ unread' = [unread EXCEPT ![c] = @ - n]
             /\ heap' = [heap EXCEPT ![a].qlen = @ + n, ![a].stale = FALSE]
             /\ at' = [in |-> "parse", conn |-> a]
             /\ UNCHANGED <<sock, conns>>
          \/ /\ n = 0 /\ c \in gone
             /\ CloseConn(a)
             /\ UNCHANGED unread
    /\ UNCHANGED <<clientVars, outbuf, queueVars, backend, histVars>>

(* One round of the loop of _process_query_buffer().  bytes_expected stays *)
(* XHEAD_SIZE, so a request is complete at body_len + XHEAD_SIZE bytes;    *)
(* after it bytes_processed is set so high that no second one is found.    *)
MoreToProcess(conn) == conn.qlen >= conn.processed + XHEAD_SIZE

ProcessHead(a) ==
    /\ at = [in |-> "parse", conn |-> a]
    /\ MoreToProcess(heap[a]) /\ heap[a].state = "HEAD"
    /\ LET r == request[heap[a].owner]
       IN IF r.kind = "BADMAGIC"
          THEN CloseConn(a)
          ELSE /\ heap' = [heap EXCEPT ![a].state = "BODY", ![a].processed = r.body]
               /\ UNCHANGED <<sock, conns, at>>
    /\ UNCHANGED <<clientVars, unread, outbuf, queueVars, backend, histVars>>

(* What _process_query_buffer() does after a request.                      *)
AfterRequest(conn) == [conn EXCEPT !.processed = Processed]

(* _process_request(): PUSH and PULL wait for the rtc part's answer; the   *)
(* other commands are acknowledged at once, unknown ones with an error; a  *)
(* body that does not parse closes the connection.                         *)
ProcessRequest(a) ==
    /\ at = [in |-> "parse", conn |-> a]
    /\ MoreToProcess(heap[a]) /\ heap[a].state = "BODY"
    /\ LET conn == heap[a]
           c == conn.owner
           done == AfterRequest(conn)
       IN /\ handled' = [handled EXCEPT ![c] = @ + 1]
          /\ CASE request[c].kind = "BADBODY" ->
                    CloseConn(a) /\ UNCHANGED backend
               [] request[c].kind = "PUSH" ->
                    /\ backend' = backend \cup {[conn |-> a, fd |-> conn.fd, from |-> c]}
                    /\ heap' = [heap EXCEPT ![a] = done]
                    /\ UNCHANGED <<sock, conns, at>>
               [] OTHER ->
                    /\ heap' = [heap EXCEPT ![a] = WithReply(done, c)]
                    /\ UNCHANGED <<sock, conns, at, backend>>
    /\ UNCHANGED <<clientVars, unread, outbuf, queueVars, received, dropped>>

ProcessDone(a) ==
    /\ at = [in |-> "parse", conn |-> a]
    /\ ~MoreToProcess(heap[a])
    /\ at' = Idle
    /\ UNCHANGED <<clientVars, unread, sock, outbuf, queueVars, conns, heap, backend, histVars>>

(* _write_reply(): the WRITE event enters a loop that ends when the list   *)
(* is empty or a write fails.  On EAGAIN (nothing fits) it tries again.    *)
WriteReply(a) ==
    /\ at = Idle /\ a \in Live /\ "WRITE" \in heap[a].mask
    /\ outbuf[heap[a].owner] < SockBuf \/ heap[a].owner \in gone
    /\ at' = [in |-> "write", conn |-> a]
    /\ UNCHANGED <<clientVars, unread, sock, outbuf, queueVars, conns, heap, backend, histVars>>

(* sock_write_data(): as much as there is room for.                        *)
sock_write_data(c, len) ==
    LET room == SockBuf - outbuf[c] IN IF len < room THEN len ELSE room

(* Mutant: a partial write does not advance cur_resp_pos.                  *)
WriteFromStart(a) ==
    /\ at = [in |-> "write", conn |-> a] /\ heap[a].replies # <<>>
    /\ LET c == heap[a].owner
           n == sock_write_data(c, ReplyLen)
       IN /\ outbuf' = [outbuf EXCEPT ![c] = @ + n]
          /\ heap' = IF n = ReplyLen THEN [heap EXCEPT ![a].replies = Tail(@)] ELSE heap
    /\ UNCHANGED <<clientVars, unread, sock, conns, at, queueVars, backend, histVars>>

(* One round of the loop: what fits is written; the error of a connection  *)
(* reset by the client closes it.                                          *)
WriteSome(a) ==
    /\ at = [in |-> "write", conn |-> a] /\ heap[a].replies # <<>>
    /\ LET c == heap[a].owner
           left == ReplyLen - heap[a].pos
           n == sock_write_data(c, left)
       IN \/ /\ outbuf' = [outbuf EXCEPT ![c] = @ + n]
             /\ heap' = IF n = left
                        THEN [heap EXCEPT ![a].replies = Tail(@), ![a].pos = 0]
                        ELSE [heap EXCEPT ![a].pos = @ + n]
             /\ UNCHANGED <<sock, conns, at>>
          \/ /\ c \in gone
             /\ CloseConn(a)
             /\ UNCHANGED outbuf
    /\ UNCHANGED <<clientVars, unread, queueVars, backend, histVars>>

WriteDone(a) ==
    /\ at = [in |-> "write", conn |-> a] /\ heap[a].replies = <<>>
    /\ heap' = [heap EXCEPT ![a].mask = @ \ {"WRITE"}, ![a].stale = FALSE]
    /\ at' = Idle
    /\ UNCHANGED <<clientVars, unread, sock, outbuf, queueVars, conns, backend, histVars>>

(* connection_timeout passes without a read or a completed write, and the  *)
(* next tick of the connection's timer calls _process_timeout().           *)
Elapse(a) ==
    /\ Timeouts /\ a \in Live /\ ~heap[a].stale
    /\ heap' = [heap EXCEPT ![a].stale = TRUE]
    /\ UNCHANGED <<clientVars, unread, sock, outbuf, queueVars, conns, at, backend, histVars>>

(* Mutant: every tick of the timer closes the connection.                  *)
TimeoutEveryTick(a) ==
    /\ at = Idle /\ a \in Live /\ Timeouts
    /\ CloseConn(a)
    /\ UNCHANGED <<clientVars, unread, outbuf, queueVars, backend, histVars>>

ProcessTimeout(a) ==
    /\ at = Idle /\ a \in Live /\ heap[a].stale
    /\ CloseConn(a)
    /\ UNCHANGED <<clientVars, unread, outbuf, queueVars, backend, histVars>>

-----------------------------------------------------------------------------
ClientNext == \E c \in Client : \/ accept_new_conn(c) \/ ClientSend(c)
                                \/ ClientClose(c) \/ ClientRead(c)

HandlerStep(a) == \/ ProcessHead(a) \/ ProcessRequest(a) \/ ProcessDone(a)
                  \/ WriteSome(a) \/ WriteDone(a)

WorkerNext == \/ NewConn \/ RtcMsg
              \/ \E a \in Addr : \/ ReadQuery(a) \/ WriteReply(a) \/ HandlerStep(a)
                                 \/ ProcessTimeout(a)

(* Every client has come and gone.                                         *)
Done == /\ \A c \in Client : request[c] # NULL /\ ~Connected(c)
        /\ at = Idle /\ pipe = <<>> /\ backend = {}
        /\ UNCHANGED vars

Next == ClientNext \/ RtcAnswer \/ RtcDrop \/ WorkerNext \/ (\E a \in Addr : Elapse(a)) \/ Done

Spec == Init /\ [][Next]_vars

-----------------------------------------------------------------------------
(* The types of the worker's state and of its environment.                 *)
TypeOK ==
    /\ request \in [Client -> Request \cup {NULL}]
    /\ gone \subseteq Client
    /\ nsent \in [Client -> 0 .. MaxSend] /\ unread \in [Client -> 0 .. MaxSend]
    /\ sock \in [Fd -> Client \cup {NULL}]
    /\ outbuf \in [Client -> 0 .. SockBuf]
    /\ q_conn \in Seq(Fd) /\ q_msg \in Seq(Message)
    /\ pipe \in Seq({"NEW_CONN", "RTC_MSG"})
    /\ conns \in [Fd -> Addr \cup {NULL}]
    /\ heap \in [Addr -> TcpConnection \cup {NULL}]
    /\ at \in {Idle} \cup [in : {"parse", "write"}, conn : Addr]
    /\ backend \subseteq Message
    /\ handled \in [Client -> Nat] /\ received \in [Client -> Nat] /\ dropped \subseteq Client

Waiting == {q_conn[i] : i \in 1 .. Len(q_conn)}

(* Every open descriptor has exactly one owner, the hand-over queue or one *)
(* live connection; no slot of _conns points to a deleted connection or to *)
(* one of another descriptor; and the handler in progress works on a live  *)
(* connection.  So nothing is leaked, closed twice or used after delete.   *)
FdOwnership ==
    /\ TypeOK
    /\ {f \in Fd : sock[f] # NULL} = Waiting \cup {f \in Fd : conns[f] # NULL}
    /\ \A f \in Waiting : conns[f] = NULL
    /\ Cardinality(Waiting) = Len(q_conn)
    /\ \A f \in Fd : conns[f] # NULL =>
          /\ conns[f] \in Live /\ heap[conns[f]].fd = f
          /\ heap[conns[f]].owner = sock[f]
    /\ \A a \in Live : conns[heap[a].fd] = a
    /\ at # Idle => at.conn \in Live

(* A reply is only ever queued on the connection of the client whose       *)
(* request it answers, with the header of that request, though the         *)
(* connection may be closed and its descriptor be in use again by the time *)
(* the rtc part answers.                                                   *)
ReplyToRequester ==
    \A a \in Live : \A i \in 1 .. Len(heap[a].replies) :
        heap[a].replies[i].for = heap[a].owner /\ heap[a].replies[i].header

(* However its bytes are cut up, a request is handled at most once.        *)
HandledOnce == \A c \in Client : handled[c] <= 1

(* Partial writes neither lose nor repeat a byte of the reply.             *)
BytesExact ==
    \A a \in Live :
        LET written == received[heap[a].owner] + outbuf[heap[a].owner]
        IN IF heap[a].replies = <<>>
           THEN heap[a].pos = 0 /\ written \in {0, ReplyLen}
           ELSE heap[a].pos < ReplyLen /\ written = heap[a].pos

(* The worker closes a connection only when the client is gone, the        *)
(* request is malformed or the timeout has passed since the last           *)
(* interaction.                                                            *)
ClosedForCause ==
    [][\A f \in Fd : sock[f] # NULL /\ sock'[f] = NULL =>
          LET c == sock[f]
          IN \/ c \in gone
             \/ request[c].kind \in {"BADBODY", "BADMAGIC"}
             \/ heap[conns[f]].stale]_vars

(* No request is forgotten: while its connection is open, a handled one    *)
(* that the rtc part did not drop is with the rtc part or in the queue,    *)
(* still finding its connection, or its reply waits for the WRITE event,   *)
(* or all of it has been written; and whatever is in the two queues has    *)
(* its notification in the pipe.                                           *)
OnItsWay ==
    LET Tokens(t) == Cardinality({i \in 1 .. Len(pipe) : pipe[i] = t})
        Sent == backend \cup {q_msg[i] : i \in 1 .. Len(q_msg)}
    IN /\ Tokens("NEW_CONN") = Len(q_conn) /\ Tokens("RTC_MSG") = Len(q_msg)
       /\ \A a \in Live :
             LET c == heap[a].owner
             IN handled[c] > 0 /\ c \notin dropped =>
                   \/ \E m \in Sent : m.from = c /\ conns[m.fd] = m.conn
                   \/ heap[a].replies # <<>> /\ "WRITE" \in heap[a].mask
                   \/ received[c] + outbuf[c] = ReplyLen

(* Every request is answered once.                                         *)
AnsweredOnce == HandledOnce /\ OnItsWay
=============================================================================
