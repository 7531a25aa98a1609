----------------------- MODULE SignalingWorker_proofs -----------------------
(***************************************************************************)
(* Who owns the descriptors, why they are closed, whose replies a          *)
(* connection carries, and that every request is answered once and with    *)
(* every byte, for any numbers of clients, descriptors and addresses and   *)
(* any lengths; at the end, that the idle timer of ConnectionTimer closes  *)
(* connections in time.                                                    *)
(***************************************************************************)
EXTENDS SignalingWorker, ConnectionTimer, FiniteSetTheorems, TLAPS

(* The slots of _conns and the live connections are a bijection, and the   *)
(* handler in progress works on a live connection.                         *)
Slots ==
    /\ \A f \in Fd : conns[f] # NULL =>
          conns[f] \in Live /\ heap[conns[f]].fd = f /\ heap[conns[f]].owner = sock[f]
    /\ \A a \in Live : conns[heap[a].fd] = a
    /\ at # Idle => at.conn \in Live

(* An open descriptor is either handed over or in a slot.                  *)
Sockets ==
    \A f \in Fd : /\ sock[f] # NULL <=> f \in Waiting \/ conns[f] # NULL
                  /\ f \in Waiting => conns[f] = NULL

(* No descriptor is handed over twice.                                     *)
HandedOnce == \A i, j \in 1 .. Len(q_conn) : i # j => q_conn[i] # q_conn[j]

(* cur_resp_pos stays inside the reply.                                    *)
PosInside ==
    \A a \in Live : IF heap[a].replies = <<>> THEN heap[a].pos = 0 ELSE heap[a].pos < ReplyLen

(* Nothing arrives that was not sent, and who is connected has a request.  *)
Clients ==
    /\ \A c \in Client : unread[c] <= nsent[c]
    /\ \A f \in Fd : sock[f] # NULL => request[sock[f]] # NULL

Ownership == TypeOK /\ Clients /\ Slots /\ Sockets /\ HandedOnce /\ PosInside

-----------------------------------------------------------------------------
(* Injective sequences have as many entries as elements.                   *)
LEMMA CountWaiting ==
    ASSUME q_conn \in Seq(Fd), HandedOnce
    PROVE  Cardinality(Waiting) = Len(q_conn)
  <1> DEFINE n == Len(q_conn)
             f == [i \in 1 .. n |-> q_conn[i]]
  <1>1. n \in Nat
    OBVIOUS
  <1>2. f \in Bijection(1 .. n, Waiting)
    <2>1. f \in [1 .. n -> Waiting]
      BY DEF Waiting
    <2>2. \A i, j \in 1 .. n : f[i] = f[j] => i = j
      BY DEF HandedOnce
    <2>3. \A x \in Waiting : \E i \in 1 .. n : f[i] = x
      BY DEF Waiting
    <2> QED BY <2>1, <2>2, <2>3 DEF Bijection, Injection, Surjection, IsInjective
  <1>3. ExistsBijection(1 .. n, Waiting)
    BY <1>2 DEF ExistsBijection
  <1> QED BY <1>1, <1>3, FS_CountingElements

LEMMA Owned == Ownership => FdOwnership
  <1> SUFFICES ASSUME Ownership PROVE FdOwnership
    OBVIOUS
  <1>1. Cardinality(Waiting) = Len(q_conn)
    BY CountWaiting DEF Ownership, TypeOK
  <1>2. Waiting \subseteq Fd
    BY DEF Ownership, TypeOK, Waiting
  <1>3. {f \in Fd : sock[f] # NULL} = Waiting \cup {f \in Fd : conns[f] # NULL}
    BY <1>2 DEF Ownership, Sockets
  <1>4. \A f \in Waiting : conns[f] = NULL
    BY <1>2 DEF Ownership, Sockets
  <1> QED BY <1>1, <1>3, <1>4 DEF Ownership, Slots, FdOwnership

(* A live connection and its type.                                         *)
LEMMA LiveTypes ==
    ASSUME TypeOK, NEW a \in Live
    PROVE  /\ a \in Addr /\ a # NULL /\ heap[a] \in TcpConnection
           /\ heap[a].fd \in Fd /\ heap[a].owner \in Client
           /\ heap[a].qlen \in Nat /\ heap[a].processed \in Nat /\ heap[a].pos \in Nat
           /\ heap[a].replies \in Seq(Reply)
  BY NullAssumption DEF TypeOK, Live, TcpConnection

LEMMA InitOwned == Init => Ownership
  <1> SUFFICES ASSUME Init PROVE Ownership
    OBVIOUS
  <1>1. TypeOK
    BY LengthAssumption DEF Init, TypeOK, Idle
  <1>2. Live = {} /\ Waiting = {}
    BY DEF Init, Live, Waiting
  <1>3. Clients /\ Slots /\ Sockets /\ HandedOnce /\ PosInside
    BY <1>2 DEF Init, Clients, Slots, Sockets, HandedOnce, PosInside
  <1> QED BY <1>1, <1>3 DEF Ownership

(* Nothing of this changes while clients and the rtc part work.            *)
LEMMA Aside ==
    ASSUME Ownership, TypeOK', Clients', UNCHANGED <<sock, q_conn, conns, heap, at>>
    PROVE  Ownership'
  BY DEF Ownership, Slots, Sockets, HandedOnce, PosInside, Live, Waiting

(* A connection changes, but not its descriptor or its client.             *)
LEMMA Updated ==
    ASSUME Ownership, TypeOK', Clients', NEW a \in Live, UNCHANGED <<sock, q_conn, conns>>,
           \A b \in Addr \ {a} : heap'[b] = heap[b], heap'[a] \in TcpConnection,
           heap'[a].fd = heap[a].fd, heap'[a].owner = heap[a].owner,
           IF heap'[a].replies = <<>> THEN heap'[a].pos = 0 ELSE heap'[a].pos < ReplyLen,
           at' = at \/ at' = Idle \/ at'.conn = a
    PROVE  Ownership'
  <1>1. Live' = Live
    BY NullAssumption DEF Live
  <1>2. \A b \in Live : heap'[b].fd = heap[b].fd /\ heap'[b].owner = heap[b].owner
    BY DEF Live
  <1>3. Slots'
    BY <1>1, <1>2 DEF Ownership, Slots
  <1>4. Sockets' /\ HandedOnce'
    BY DEF Ownership, Sockets, HandedOnce, Waiting
  <1>5. PosInside'
    BY <1>1 DEF Ownership, PosInside, Live
  <1> QED BY <1>3, <1>4, <1>5 DEF Ownership

(* A connection is closed.                                                 *)
LEMMA Closing ==
    ASSUME Ownership, NEW a \in Live, CloseConn(a), q_conn' = q_conn
    PROVE  /\ sock' \in [Fd -> Client \cup {NULL}] /\ conns' \in [Fd -> Addr \cup {NULL}]
           /\ heap' \in [Addr -> TcpConnection \cup {NULL}] /\ at' = Idle
           /\ \A g \in Fd : sock'[g] \in {sock[g], NULL}
           /\ Slots' /\ Sockets' /\ HandedOnce' /\ PosInside'
  <1> DEFINE f == heap[a].fd
  <1>1. TypeOK /\ a \in Addr /\ f \in Fd /\ conns[f] = a /\ a # NULL
    BY LiveTypes DEF Ownership, Slots
  <1>2. /\ sock' = [sock EXCEPT ![f] = NULL] /\ conns' = [conns EXCEPT ![f] = NULL]
        /\ heap' = [heap EXCEPT ![a] = NULL] /\ at' = Idle
    BY DEF CloseConn
  <1>3. /\ sock' \in [Fd -> Client \cup {NULL}] /\ conns' \in [Fd -> Addr \cup {NULL}]
        /\ heap' \in [Addr -> TcpConnection \cup {NULL}]
        /\ sock'[f] = NULL /\ conns'[f] = NULL /\ heap'[a] = NULL
        /\ \A g \in Fd \ {f} : sock'[g] = sock[g] /\ conns'[g] = conns[g]
        /\ \A b \in Addr \ {a} : heap'[b] = heap[b]
    BY <1>1, <1>2 DEF TypeOK
  <1>4. Live' = Live \ {a}
    BY <1>3 DEF Live
  <1>5. \A b \in Live' : heap'[b] = heap[b] /\ heap[b].fd # f /\ heap[b].fd \in Fd /\ b # a
    BY <1>1, <1>3, <1>4, LiveTypes DEF Ownership, Slots, Live
  <1>6. \A g \in Fd \ {f} : conns[g] # NULL => conns[g] # a
    BY <1>1 DEF Ownership, Slots
  <1>7. Slots'
    <2>1. ASSUME NEW g \in Fd, conns'[g] # NULL
          PROVE  conns'[g] \in Live' /\ heap'[conns'[g]].fd = g /\ heap'[conns'[g]].owner = sock'[g]
      <3>1. g # f /\ conns'[g] = conns[g] /\ sock'[g] = sock[g]
        BY <1>3, <2>1
      <3>2. conns[g] \in Live /\ heap[conns[g]].fd = g /\ heap[conns[g]].owner = sock[g]
        BY <2>1, <3>1 DEF Ownership, Slots
      <3>3. conns[g] \in Live'
        BY <1>4, <1>6, <2>1, <3>1, <3>2
      <3> QED BY <1>5, <3>1, <3>2, <3>3
    <2>2. \A b \in Live' : conns'[heap'[b].fd] = b
      BY <1>3, <1>4, <1>5 DEF Ownership, Slots
    <2> QED BY <1>2, <2>1, <2>2 DEF Slots
  <1>8. Sockets' /\ HandedOnce'
    <2>1. Waiting' = Waiting /\ f \notin Waiting
      BY <1>1 DEF Waiting, Ownership, Sockets
    <2>2. Sockets'
      BY <1>3, <2>1 DEF Ownership, Sockets
    <2> QED BY <2>2 DEF Ownership, HandedOnce
  <1>9. PosInside'
    BY <1>4, <1>5 DEF Ownership, PosInside
  <1> QED BY <1>2, <1>3, <1>7, <1>8, <1>9

-----------------------------------------------------------------------------
LEMMA ClientOwned ==
    ASSUME Ownership, NEW c \in Client, ClientSend(c) \/ ClientClose(c) \/ ClientRead(c)
    PROVE  Ownership'
  <1>1. TypeOK /\ Clients
    BY DEF Ownership
  <1>2. TypeOK' /\ Clients'
    <2>1. CASE ClientSend(c)
      <3>1. /\ nsent' = [nsent EXCEPT ![c] = @ + 1] /\ unread' = [unread EXCEPT ![c] = @ + 1]
            /\ nsent[c] < MaxSend /\ unread[c] <= nsent[c]
        BY <1>1, <2>1 DEF ClientSend, Clients
      <3>2. nsent' \in [Client -> 0 .. MaxSend] /\ unread' \in [Client -> 0 .. MaxSend]
        BY <1>1, <3>1, LengthAssumption DEF TypeOK, Clients
      <3>3. TypeOK'
        BY <1>1, <2>1, <3>2 DEF TypeOK, ClientSend, queueVars, histVars
      <3>4. ASSUME NEW d \in Client PROVE unread'[d] <= nsent'[d]
        <4>1. unread[d] \in 0 .. MaxSend /\ nsent[d] \in 0 .. MaxSend /\ unread[d] <= nsent[d]
          BY <1>1 DEF TypeOK, Clients
        <4>2. CASE d = c
          BY <1>1, <3>1, <4>1, <4>2 DEF TypeOK
        <4>3. CASE d # c
          BY <1>1, <3>1, <4>1, <4>3 DEF TypeOK
        <4> QED BY <4>2, <4>3
      <3> QED BY <1>1, <2>1, <3>3, <3>4 DEF Clients, ClientSend
    <2>2. CASE ClientClose(c)
      BY <1>1, <2>2 DEF TypeOK, Clients, ClientClose, queueVars, histVars
    <2>3. CASE ClientRead(c)
      <3>1. outbuf' \in [Client -> 0 .. SockBuf] /\ received' \in [Client -> Nat]
        BY <1>1, <2>3, LengthAssumption DEF TypeOK, ClientRead
      <3> QED BY <1>1, <2>3, <3>1 DEF TypeOK, Clients, ClientRead, clientVars, queueVars
    <2> QED BY <2>1, <2>2, <2>3
  <1> QED BY <1>2, Aside DEF ClientSend, ClientClose, ClientRead, queueVars

LEMMA RtcOwned ==
    ASSUME Ownership, RtcAnswer \/ RtcDrop
    PROVE  Ownership'
  <1>1. TypeOK /\ Clients
    BY DEF Ownership
  <1>2. CASE RtcAnswer
    <2>1. PICK m \in backend : backend' = backend \ {m} /\ q_msg' = Append(q_msg, m)
      BY <1>2 DEF RtcAnswer
    <2>2. backend' \subseteq Message /\ q_msg' \in Seq(Message)
      BY <1>1, <2>1 DEF TypeOK
    <2>3. pipe' \in Seq({"NEW_CONN", "RTC_MSG"})
      BY <1>1, <1>2 DEF TypeOK, RtcAnswer
    <2>4. TypeOK' /\ Clients'
      BY <1>1, <1>2, <2>2, <2>3 DEF TypeOK, Clients, RtcAnswer, clientVars, histVars
    <2> QED BY <1>2, <2>4, Aside DEF RtcAnswer
  <1>3. CASE RtcDrop
    <2>1. PICK m \in backend : backend' = backend \ {m} /\ dropped' = dropped \cup {m.from}
      BY <1>3 DEF RtcDrop
    <2>2. backend' \subseteq Message /\ dropped' \subseteq Client
      BY <1>1, <2>1 DEF TypeOK, Message
    <2>3. TypeOK' /\ Clients'
      BY <1>1, <1>3, <2>2 DEF TypeOK, Clients, RtcDrop, clientVars, queueVars
    <2> QED BY <1>3, <2>3, Aside DEF RtcDrop, queueVars
  <1> QED BY <1>2, <1>3

(* accept(): a descriptor that nobody has goes to the worker's queue.      *)
LEMMA AcceptOwned ==
    ASSUME Ownership, NEW c \in Client, accept_new_conn(c)
    PROVE  Ownership'
  <1>1. PICK r \in Request, f \in Fd :
            /\ sock[f] = NULL /\ request' = [request EXCEPT ![c] = r]
            /\ sock' = [sock EXCEPT ![f] = c] /\ _dispatch_new_conn(f)
    BY DEF accept_new_conn
  <1>2. TypeOK /\ Clients /\ Slots /\ Sockets /\ HandedOnce /\ PosInside
    BY DEF Ownership
  <1>3. conns[f] = NULL /\ f \notin Waiting
    BY <1>1, <1>2 DEF Sockets
  <1>4. q_conn' = Append(q_conn, f) /\ pipe' = Append(pipe, "NEW_CONN")
    BY <1>1 DEF _dispatch_new_conn
  <1>5. /\ q_conn' \in Seq(Fd) /\ Len(q_conn') = Len(q_conn) + 1 /\ Len(q_conn) \in Nat
        /\ q_conn'[Len(q_conn) + 1] = f /\ \A i \in 1 .. Len(q_conn) : q_conn'[i] = q_conn[i]
    BY <1>2, <1>4 DEF TypeOK
  <1>6. Waiting' = Waiting \cup {f}
    <2>1. ASSUME NEW x \in Waiting' PROVE x \in Waiting \cup {f}
      BY <1>5 DEF Waiting
    <2>2. ASSUME NEW x \in Waiting PROVE x \in Waiting'
      BY <1>5 DEF Waiting
    <2>3. f \in Waiting'
      BY <1>5 DEF Waiting
    <2> QED BY <2>1, <2>2, <2>3
  <1>7. UNCHANGED <<gone, nsent, unread, outbuf, q_msg, conns, heap, at, backend, handled, received, dropped>>
    BY DEF accept_new_conn, histVars
  <1>8. TypeOK' /\ Clients'
    <2>1. /\ request' \in [Client -> Request \cup {NULL}] /\ sock' \in [Fd -> Client \cup {NULL}]
          /\ pipe' \in Seq({"NEW_CONN", "RTC_MSG"})
      BY <1>1, <1>2, <1>4 DEF TypeOK
    <2>2. TypeOK'
      BY <1>2, <1>5, <1>7, <2>1 DEF TypeOK
    <2>3. r # NULL
      BY NullAssumption
    <2>4. ASSUME NEW g \in Fd, sock'[g] # NULL PROVE request'[sock'[g]] # NULL
      <3>1. sock'[g] = c \/ sock'[g] = sock[g]
        BY <1>1, <1>2 DEF TypeOK
      <3>2. \A d \in Client : request'[d] = IF d = c THEN r ELSE request[d]
        BY <1>1, <1>2 DEF TypeOK
      <3>3. sock'[g] \in Client
        BY <2>1, <2>4
      <3> QED BY <1>2, <2>3, <2>4, <3>1, <3>2, <3>3 DEF Clients
    <2> QED BY <1>2, <1>7, <2>2, <2>4 DEF Clients
  <1>9. /\ sock'[f] = c /\ c # NULL /\ \A g \in Fd \ {f} : sock'[g] = sock[g]
    BY <1>1, <1>2, NullAssumption DEF TypeOK
  <1>10. Slots' /\ PosInside'
    BY <1>2, <1>3, <1>7, <1>9 DEF Slots, PosInside, Live
  <1>11. Sockets'
    BY <1>2, <1>3, <1>6, <1>7, <1>9 DEF Sockets
  <1>12. HandedOnce'
    <2> SUFFICES ASSUME NEW i \in 1 .. Len(q_conn'), NEW j \in 1 .. Len(q_conn'), i < j
                 PROVE  q_conn'[i] # q_conn'[j]
      BY <1>5 DEF HandedOnce
    <2>1. i \in 1 .. Len(q_conn) /\ q_conn'[i] = q_conn[i] /\ q_conn[i] \in Waiting
      BY <1>5 DEF Waiting
    <2>2. CASE j = Len(q_conn) + 1
      BY <1>3, <1>5, <2>1, <2>2
    <2>3. CASE j # Len(q_conn) + 1
      BY <1>2, <1>5, <2>1, <2>3 DEF HandedOnce
    <2> QED BY <2>2, <2>3
  <1> QED BY <1>8, <1>10, <1>11, <1>12 DEF Ownership

(* _new_conn(): the descriptor at the head of the queue gets a slot.       *)
LEMMA NewConnOwned ==
    ASSUME Ownership, NewConn
    PROVE  Ownership'
  <1>1. PICK a \in Addr \ Live :
            /\ heap' = [heap EXCEPT ![a] = NewConnection(Head(q_conn))]
            /\ conns' = [conns EXCEPT ![Head(q_conn)] = a]
    BY DEF NewConn
  <1>2. PICK f : f = Head(q_conn)
    OBVIOUS
  <1>3. TypeOK /\ Clients /\ Slots /\ Sockets /\ HandedOnce /\ PosInside
    BY DEF Ownership
  <1>4. /\ q_conn' = Tail(q_conn) /\ q_conn # <<>> /\ pipe' = Tail(pipe) /\ pipe # <<>>
        /\ UNCHANGED <<request, gone, nsent, unread, sock, outbuf, q_msg, at, backend,
                       handled, received, dropped>>
    BY DEF NewConn, clientVars, histVars
  <1>5. /\ f \in Fd /\ f = q_conn[1] /\ q_conn' \in Seq(Fd)
        /\ Len(q_conn) \in Nat \ {0} /\ Len(q_conn') = Len(q_conn) - 1
        /\ \A i \in 1 .. Len(q_conn) - 1 : q_conn'[i] = q_conn[i + 1]
    BY <1>2, <1>3, <1>4 DEF TypeOK
  <1>6. Waiting' = Waiting \ {f} /\ f \in Waiting
    <2>1. ASSUME NEW x \in Waiting' PROVE x \in Waiting \ {f}
      BY <1>3, <1>5 DEF Waiting, HandedOnce
    <2>2. ASSUME NEW x \in Waiting, x # f PROVE x \in Waiting'
      <3>1. PICK i \in 1 .. Len(q_conn) : q_conn[i] = x
        BY DEF Waiting
      <3>2. i - 1 \in 1 .. Len(q_conn') /\ q_conn'[i - 1] = x
        BY <1>5, <2>2, <3>1
      <3> QED BY <3>2 DEF Waiting
    <2>3. f \in Waiting
      BY <1>5 DEF Waiting
    <2> QED BY <2>1, <2>2, <2>3
  <1>7. sock[f] # NULL /\ sock[f] \in Client /\ conns[f] = NULL
    BY <1>3, <1>5, <1>6 DEF Sockets, TypeOK
  <1>8. /\ NewConnection(f) \in TcpConnection /\ NewConnection(f) # NULL
        /\ NewConnection(f).fd = f /\ NewConnection(f).owner = sock[f]
        /\ NewConnection(f).replies = <<>> /\ NewConnection(f).pos = 0
    <2>1. <<>> \in Seq(Reply) /\ {"READ"} \in SUBSET {"READ", "WRITE"}
      OBVIOUS
    <2>2. NewConnection(f) \in TcpConnection
      BY <1>5, <1>7, <2>1 DEF NewConnection, TcpConnection
    <2>3. NULL \notin TcpConnection
      BY NullAssumption
    <2> QED BY <2>2, <2>3 DEF NewConnection
  <1>9. /\ heap' \in [Addr -> TcpConnection \cup {NULL}] /\ heap'[a] = NewConnection(f)
        /\ \A b \in Addr \ {a} : heap'[b] = heap[b]
        /\ conns' \in [Fd -> Addr \cup {NULL}] /\ conns'[f] = a
        /\ \A g \in Fd \ {f} : conns'[g] = conns[g]
    BY <1>1, <1>2, <1>3, <1>5, <1>8 DEF TypeOK
  <1>10. Live' = Live \cup {a} /\ a \notin Live /\ a # NULL
    BY <1>8, <1>9, NullAssumption DEF Live
  <1>11. TypeOK' /\ Clients'
    <2>1. pipe' \in Seq({"NEW_CONN", "RTC_MSG"})
      BY <1>3, <1>4 DEF TypeOK
    <2> QED BY <1>3, <1>4, <1>5, <1>9, <2>1 DEF TypeOK, Clients
  <1>12. ASSUME NEW b \in Live PROVE heap'[b] = heap[b] /\ heap[b].fd \in Fd /\ heap[b].fd # f
    <2>1. b \in Addr /\ b # NULL /\ heap[b].fd \in Fd /\ conns[heap[b].fd] = b
      BY <1>3, LiveTypes DEF Slots
    <2> QED BY <1>7, <1>9, <1>10, <2>1
  <1>13. Slots'
    <2>1. ASSUME NEW g \in Fd, conns'[g] # NULL
          PROVE  conns'[g] \in Live' /\ heap'[conns'[g]].fd = g /\ heap'[conns'[g]].owner = sock'[g]
      <3>1. CASE g = f
        BY <1>4, <1>8, <1>9, <1>10, <3>1
      <3>2. CASE g # f
        <4>1. conns'[g] = conns[g] /\ conns[g] \in Live
          BY <1>3, <1>9, <2>1, <3>2 DEF Slots
        <4> QED BY <1>3, <1>4, <1>10, <1>12, <2>1, <4>1 DEF Slots
      <3> QED BY <3>1, <3>2
    <2>2. \A b \in Live' : conns'[heap'[b].fd] = b
      BY <1>3, <1>8, <1>9, <1>10, <1>12 DEF Slots
    <2>3. at' # Idle => at'.conn \in Live'
      BY <1>3, <1>4, <1>10 DEF Slots
    <2> QED BY <2>1, <2>2, <2>3 DEF Slots
  <1>14. Sockets'
    BY <1>3, <1>4, <1>6, <1>7, <1>9, <1>10 DEF Sockets
  <1>15. HandedOnce'
    BY <1>3, <1>5 DEF HandedOnce
  <1>16. PosInside'
    BY <1>3, <1>8, <1>9, <1>10, <1>12 DEF PosInside
  <1> QED BY <1>11, <1>13, <1>14, <1>15, <1>16 DEF Ownership

(* A reply is queued.                                                      *)
RepliedTo(x, conn, c) ==
    /\ x \in TcpConnection /\ x.fd = conn.fd /\ x.owner = conn.owner
    /\ x.pos = conn.pos /\ x.qlen = conn.qlen /\ x.state = conn.state
    /\ x.processed = conn.processed /\ x.replies # <<>> /\ "WRITE" \in x.mask
    /\ x.replies = Append(conn.replies, [for |-> c, header |-> conn.qlen >= XHEAD_SIZE])

LEMMA Replied ==
    ASSUME NEW conn \in TcpConnection, NEW c \in Client
    PROVE  RepliedTo(WithReply(conn, c), conn, c)
  <1> DEFINE r == [for |-> c, header |-> conn.qlen >= XHEAD_SIZE]
  <1>1. r \in Reply
    BY DEF Reply
  <1>2. conn.replies \in Seq(Reply) /\ Append(conn.replies, r) \in Seq(Reply)
        /\ Append(conn.replies, r) # <<>>
    BY <1>1 DEF TcpConnection
  <1> QED BY <1>2 DEF RepliedTo, WithReply, TcpConnection

LEMMA RtcMsgOwned ==
    ASSUME Ownership, RtcMsg
    PROVE  Ownership'
  <1>1. PICK m : m = Head(q_msg)
    OBVIOUS
  <1>2. TypeOK /\ Clients /\ Slots /\ Sockets /\ HandedOnce /\ PosInside
    BY DEF Ownership
  <1>3. /\ q_msg' = Tail(q_msg) /\ q_msg # <<>> /\ pipe' = Tail(pipe) /\ pipe # <<>>
        /\ UNCHANGED <<request, gone, nsent, unread, sock, outbuf, q_conn, conns, at, backend,
                       handled, received, dropped>>
    BY DEF RtcMsg, clientVars, histVars
  <1>4. m \in Message /\ q_msg' \in Seq(Message) /\ pipe' \in Seq({"NEW_CONN", "RTC_MSG"})
    BY <1>1, <1>2, <1>3 DEF TypeOK
  <1>5. m.conn \in Addr /\ m.fd \in Fd /\ m.from \in Client
    BY <1>4 DEF Message
  <1>6. CASE conns[m.fd] = m.conn
    <2>1. heap' = [heap EXCEPT ![m.conn] = WithReply(@, m.from)]
      BY <1>1, <1>6 DEF RtcMsg
    <2>2. m.conn \in Live /\ heap[m.conn] \in TcpConnection
      BY <1>2, <1>5, <1>6, LiveTypes, NullAssumption DEF Slots
    <2>3. /\ heap'[m.conn] = WithReply(heap[m.conn], m.from)
          /\ \A b \in Addr \ {m.conn} : heap'[b] = heap[b]
      BY <1>2, <1>5, <2>1 DEF TypeOK
    <2>4. /\ heap'[m.conn] \in TcpConnection /\ heap'[m.conn].fd = heap[m.conn].fd
          /\ heap'[m.conn].owner = heap[m.conn].owner /\ heap'[m.conn].pos = heap[m.conn].pos
          /\ heap'[m.conn].replies # <<>>
      <3>1. RepliedTo(heap'[m.conn], heap[m.conn], m.from)
        BY <1>5, <2>2, <2>3, Replied
      <3> QED BY <3>1 DEF RepliedTo
    <2>5. heap' \in [Addr -> TcpConnection \cup {NULL}]
      BY <1>2, <2>1, <2>3, <2>4 DEF TypeOK
    <2>6. TypeOK' /\ Clients'
      BY <1>2, <1>3, <1>4, <2>5 DEF TypeOK, Clients
    <2>7. heap[m.conn].pos < ReplyLen
      <3>1. ReplyLen \in Nat /\ 0 < ReplyLen
        BY LengthAssumption
      <3>2. heap[m.conn].pos = 0 \/ heap[m.conn].pos < ReplyLen
        BY <1>2, <2>2, Zenon DEF PosInside
      <3> QED BY <3>1, <3>2
    <2> QED BY <1>3, <2>2, <2>3, <2>4, <2>6, <2>7, Updated
  <1>7. CASE conns[m.fd] # m.conn
    <2>1. heap' = heap
      BY <1>1, <1>7 DEF RtcMsg
    <2>2. TypeOK' /\ Clients'
      BY <1>2, <1>3, <1>4, <2>1 DEF TypeOK, Clients
    <2> QED BY <1>3, <2>1, <2>2, Aside
  <1> QED BY <1>6, <1>7

-----------------------------------------------------------------------------
(* A connection is closed and nothing else of these changes.               *)
LEMMA ClosedOwned ==
    ASSUME Ownership, NEW a \in Live, CloseConn(a), handled' \in [Client -> Nat],
           UNCHANGED <<request, gone, nsent, unread, outbuf, q_conn, q_msg, pipe, backend,
                       received, dropped>>
    PROVE  Ownership'
  <1>1. TypeOK /\ Clients
    BY DEF Ownership
  <1>2. /\ sock' \in [Fd -> Client \cup {NULL}] /\ conns' \in [Fd -> Addr \cup {NULL}]
        /\ heap' \in [Addr -> TcpConnection \cup {NULL}] /\ at' = Idle
        /\ \A g \in Fd : sock'[g] \in {sock[g], NULL}
        /\ Slots' /\ Sockets' /\ HandedOnce' /\ PosInside'
    BY Closing
  <1>3. TypeOK' /\ Clients'
    BY <1>1, <1>2 DEF TypeOK, Clients
  <1> QED BY <1>2, <1>3 DEF Ownership

LEMMA ReadOwned ==
    ASSUME Ownership, NEW a \in Addr, ReadQuery(a)
    PROVE  Ownership'
  <1>1. /\ TypeOK /\ Clients /\ Slots /\ PosInside /\ a \in Live
        /\ UNCHANGED <<request, gone, nsent, outbuf, q_conn, q_msg, pipe, backend,
                       handled, received, dropped>>
    BY DEF Ownership, ReadQuery, clientVars, queueVars, histVars
  <1>2. PICK c, n : c = heap[a].owner /\ n = sock_read_data(c)
    OBVIOUS
  <1>3. c \in Client /\ n \in 0 .. unread[c] /\ unread[c] \in 0 .. MaxSend /\ MaxSend \in Nat
    BY <1>1, <1>2, LiveTypes, LengthAssumption DEF TypeOK, sock_read_data, XHEAD_SIZE
  <1>4. CASE /\ unread' = [unread EXCEPT ![c] = @ - n]
             /\ heap' = [heap EXCEPT ![a].qlen = @ + n, ![a].stale = FALSE]
             /\ at' = [in |-> "parse", conn |-> a]
             /\ UNCHANGED <<sock, conns>>
    <2>1. heap[a] \in TcpConnection
      BY <1>1, LiveTypes
    <2>2. /\ heap'[a] = [heap[a] EXCEPT !.qlen = @ + n, !.stale = FALSE]
          /\ \A b \in Addr \ {a} : heap'[b] = heap[b]
      BY <1>1, <1>4 DEF TypeOK
    <2>3. /\ heap'[a] \in TcpConnection /\ heap'[a].fd = heap[a].fd
          /\ heap'[a].owner = heap[a].owner /\ heap'[a].pos = heap[a].pos
          /\ heap'[a].replies = heap[a].replies
      <3>1. heap[a].qlen \in Nat /\ heap[a].qlen + n \in Nat
        BY <1>1, <1>3, LiveTypes
      <3> QED BY <2>1, <2>2, <3>1 DEF TcpConnection
    <2>4. heap' \in [Addr -> TcpConnection \cup {NULL}]
      BY <1>1, <1>4, <2>2, <2>3 DEF TypeOK
    <2>5. unread' \in [Client -> 0 .. MaxSend] /\ \A d \in Client : unread'[d] <= unread[d]
      BY <1>1, <1>3, <1>4 DEF TypeOK
    <2>5a. \A d \in Client : unread[d] \in Nat /\ unread'[d] \in Nat /\ nsent[d] \in Nat
      BY <1>1, <1>3, <2>5 DEF TypeOK
    <2>6. at' \in [in : {"parse", "write"}, conn : Addr] /\ at'.conn = a
      BY <1>4
    <2>7. TypeOK'
      BY <1>1, <1>4, <2>4, <2>5, <2>6 DEF TypeOK
    <2>8. Clients'
      BY <1>1, <1>4, <2>5, <2>5a DEF Clients
    <2>9. IF heap'[a].replies = <<>> THEN heap'[a].pos = 0 ELSE heap'[a].pos < ReplyLen
      BY <1>1, <2>3 DEF PosInside
    <2> QED BY <1>1, <1>4, <2>2, <2>3, <2>6, <2>7, <2>8, <2>9, Updated
  <1>5. CASE CloseConn(a) /\ UNCHANGED unread
    BY <1>1, <1>5, ClosedOwned DEF TypeOK
  <1> QED BY <1>2, <1>4, <1>5 DEF ReadQuery

(* The handler in progress.                                                *)
LEMMA InHandler ==
    ASSUME Ownership, NEW a \in Addr, at = [in |-> "parse", conn |-> a] \/ at = [in |-> "write", conn |-> a]
    PROVE  a \in Live /\ at # Idle
  <1>1. at.conn = a /\ at # Idle
    BY DEF Idle
  <1> QED BY <1>1 DEF Ownership, Slots

LEMMA HeadOwned ==
    ASSUME Ownership, NEW a \in Addr, ProcessHead(a)
    PROVE  Ownership'
  <1>1. /\ TypeOK /\ Clients /\ PosInside /\ a \in Live
        /\ UNCHANGED <<request, gone, nsent, unread, outbuf, q_conn, q_msg, pipe, backend,
                       handled, received, dropped>>
    BY InHandler DEF Ownership, ProcessHead, clientVars, queueVars, histVars
  <1>2. PICK r : r = request[heap[a].owner]
    OBVIOUS
  <1>3. CASE CloseConn(a)
    BY <1>1, <1>3, ClosedOwned DEF TypeOK
  <1>4. CASE /\ heap' = [heap EXCEPT ![a].state = "BODY", ![a].processed = r.body]
             /\ UNCHANGED <<sock, conns, at>>
    <2>1. heap[a] \in TcpConnection /\ heap[a].owner \in Client
      BY <1>1, LiveTypes
    <2>2. r.body \in Nat
      <3>1. heap[a].owner = sock[heap[a].fd] /\ heap[a].fd \in Fd
        BY <1>1, LiveTypes, NullAssumption DEF Ownership, Slots
      <3>2. r \in Request
        BY <1>1, <1>2, <2>1, <3>1, NullAssumption DEF Clients, TypeOK
      <3> QED BY <3>2, LengthAssumption DEF Request
    <2>3. /\ heap'[a] = [heap[a] EXCEPT !.state = "BODY", !.processed = r.body]
          /\ \A b \in Addr \ {a} : heap'[b] = heap[b]
      BY <1>1, <1>4 DEF TypeOK
    <2>4. /\ heap'[a] \in TcpConnection /\ heap'[a].fd = heap[a].fd
          /\ heap'[a].owner = heap[a].owner /\ heap'[a].pos = heap[a].pos
          /\ heap'[a].replies = heap[a].replies
      BY <2>1, <2>2, <2>3 DEF TcpConnection
    <2>5. heap' \in [Addr -> TcpConnection \cup {NULL}]
      BY <1>1, <1>4, <2>3, <2>4 DEF TypeOK
    <2>6. TypeOK' /\ Clients'
      BY <1>1, <1>4, <2>5 DEF TypeOK, Clients
    <2>7. IF heap'[a].replies = <<>> THEN heap'[a].pos = 0 ELSE heap'[a].pos < ReplyLen
      BY <1>1, <2>4 DEF PosInside
    <2> QED BY <1>1, <1>4, <2>3, <2>4, <2>6, <2>7, Updated
  <1> QED BY <1>2, <1>3, <1>4 DEF ProcessHead

LEMMA RequestOwned ==
    ASSUME Ownership, NEW a \in Addr, ProcessRequest(a)
    PROVE  Ownership'
  <1> DEFINE conn == heap[a]
             done == AfterRequest(conn)
  <1>1. /\ TypeOK /\ Clients /\ PosInside /\ a \in Live
        /\ UNCHANGED <<request, gone, nsent, unread, outbuf, q_conn, q_msg, pipe,
                       received, dropped>>
    BY InHandler DEF Ownership, ProcessRequest, clientVars, queueVars
  <1>2. /\ conn \in TcpConnection /\ conn.owner \in Client /\ conn.fd \in Fd /\ a \in Addr
        /\ conn.pos \in Nat
    BY <1>1, LiveTypes
  <1>3. handled' = [handled EXCEPT ![conn.owner] = @ + 1] /\ handled' \in [Client -> Nat]
    BY <1>1, <1>2 DEF ProcessRequest, TypeOK
  <1>4. /\ done \in TcpConnection /\ done.fd = conn.fd /\ done.owner = conn.owner
        /\ done.pos = conn.pos /\ done.replies = conn.replies
    BY <1>2, LengthAssumption DEF AfterRequest, TcpConnection
  <1>5. CASE CloseConn(a) /\ UNCHANGED backend
    BY <1>1, <1>3, <1>5, ClosedOwned
  <1>6. CASE /\ backend' = backend \cup {[conn |-> a, fd |-> conn.fd, from |-> conn.owner]}
             /\ heap' = [heap EXCEPT ![a] = done]
             /\ UNCHANGED <<sock, conns, at>>
    <2>1. [conn |-> a, fd |-> conn.fd, from |-> conn.owner] \in Message
      BY <1>2 DEF Message
    <2>2. backend' \subseteq Message /\ heap' \in [Addr -> TcpConnection \cup {NULL}]
      BY <1>1, <1>4, <1>6, <2>1 DEF TypeOK
    <2>3. TypeOK' /\ Clients'
      BY <1>1, <1>3, <1>6, <2>2 DEF TypeOK, Clients
    <2>4. heap'[a] = done /\ \A b \in Addr \ {a} : heap'[b] = heap[b]
      BY <1>1, <1>6 DEF TypeOK
    <2>5. IF done.replies = <<>> THEN done.pos = 0 ELSE done.pos < ReplyLen
      BY <1>1, <1>4 DEF PosInside
    <2> HIDE DEF done
    <2> QED BY <1>1, <1>4, <1>6, <2>3, <2>4, <2>5, Updated
  <1>7. CASE /\ heap' = [heap EXCEPT ![a] = WithReply(done, conn.owner)]
             /\ UNCHANGED <<sock, conns, at, backend>>
    <2>1. PICK x : x = WithReply(done, conn.owner)
      OBVIOUS
    <2>2. RepliedTo(x, done, conn.owner)
      BY <1>2, <1>4, <2>1, Replied
    <2>3. /\ x \in TcpConnection /\ x.fd = conn.fd /\ x.owner = conn.owner
          /\ x.pos = conn.pos /\ x.replies # <<>>
      BY <1>4, <2>2 DEF RepliedTo
    <2>4. conn.pos < ReplyLen
      <3>1. ReplyLen \in Nat /\ 0 < ReplyLen
        BY LengthAssumption
      <3>2. conn.pos = 0 \/ conn.pos < ReplyLen
        BY <1>1, Zenon DEF PosInside
      <3> QED BY <3>1, <3>2
    <2>5. /\ heap'[a] = x /\ \A b \in Addr \ {a} : heap'[b] = heap[b]
          /\ heap' \in [Addr -> TcpConnection \cup {NULL}]
      BY <1>1, <1>7, <2>1, <2>3 DEF TypeOK
    <2>6. TypeOK' /\ Clients'
      BY <1>1, <1>3, <1>7, <2>5 DEF TypeOK, Clients
    <2> QED BY <1>1, <1>7, <2>3, <2>4, <2>5, <2>6, Updated
  <1> QED BY <1>5, <1>6, <1>7 DEF ProcessRequest

LEMMA DoneOwned ==
    ASSUME Ownership, NEW a \in Addr, ProcessDone(a) \/ WriteReply(a)
    PROVE  Ownership'
  <1>1. TypeOK /\ Clients /\ PosInside /\ a \in Live
    BY InHandler DEF Ownership, ProcessDone, WriteReply
  <1>2. /\ UNCHANGED <<request, gone, nsent, unread, sock, outbuf, q_conn, q_msg, pipe, conns,
                       heap, backend, handled, received, dropped>>
        /\ at' = Idle \/ at' = [in |-> "write", conn |-> a]
    BY DEF ProcessDone, WriteReply, clientVars, queueVars, histVars
  <1>3. TypeOK' /\ Clients'
    BY <1>1, <1>2 DEF TypeOK, Clients
  <1>4. heap[a] \in TcpConnection /\ heap' = heap
    BY <1>1, <1>2, LiveTypes
  <1>5. IF heap'[a].replies = <<>> THEN heap'[a].pos = 0 ELSE heap'[a].pos < ReplyLen
    BY <1>1, <1>2 DEF PosInside
  <1>6. at' = Idle \/ at'.conn = a
    BY <1>2
  <1> QED BY <1>1, <1>2, <1>3, <1>4, <1>5, <1>6, Updated

(* What is written fits, and the rest of the reply stays to be written.    *)
LEMMA WriteOwned ==
    ASSUME Ownership, NEW a \in Addr, WriteSome(a)
    PROVE  Ownership'
  <1>1. /\ TypeOK /\ Clients /\ PosInside /\ a \in Live /\ heap[a].replies # <<>>
        /\ UNCHANGED <<request, gone, nsent, unread, q_conn, q_msg, pipe, backend,
                       handled, received, dropped>>
    BY InHandler DEF Ownership, WriteSome, clientVars, queueVars, histVars
  <1>2. PICK c, left, n : /\ c = heap[a].owner /\ left = ReplyLen - heap[a].pos
                          /\ n = sock_write_data(c, left)
    OBVIOUS
  <1>3. /\ heap[a] \in TcpConnection /\ c \in Client /\ heap[a].pos \in Nat
        /\ heap[a].replies \in Seq(Reply)
        /\ heap \in [Addr -> TcpConnection \cup {NULL}]
    BY <1>1, <1>2, LiveTypes DEF TypeOK
  <1>4. heap[a].pos < ReplyLen
    BY <1>1 DEF PosInside
  <1>5. /\ outbuf[c] \in 0 .. SockBuf /\ SockBuf \in Nat /\ ReplyLen \in Nat
        /\ left \in Nat \ {0} /\ n \in Nat /\ n <= left /\ outbuf[c] + n \in 0 .. SockBuf
    <2>1. outbuf[c] \in 0 .. SockBuf /\ SockBuf \in Nat /\ ReplyLen \in Nat
      BY <1>1, <1>3, LengthAssumption DEF TypeOK
    <2>2. left \in Nat \ {0}
      BY <1>2, <1>3, <1>4, <2>1
    <2> QED BY <1>2, <2>1, <2>2 DEF sock_write_data
  <1>6. CASE /\ outbuf' = [outbuf EXCEPT ![c] = @ + n]
             /\ heap' = IF n = left
                        THEN [heap EXCEPT ![a].replies = Tail(@), ![a].pos = 0]
                        ELSE [heap EXCEPT ![a].pos = @ + n]
             /\ UNCHANGED <<sock, conns, at>>
    <2>1. outbuf' \in [Client -> 0 .. SockBuf]
      BY <1>1, <1>3, <1>5, <1>6 DEF TypeOK
    <2>2. /\ heap'[a] \in TcpConnection /\ heap'[a].fd = heap[a].fd
          /\ heap'[a].owner = heap[a].owner
          /\ \A b \in Addr \ {a} : heap'[b] = heap[b]
          /\ heap' \in [Addr -> TcpConnection \cup {NULL}]
          /\ IF heap'[a].replies = <<>> THEN heap'[a].pos = 0 ELSE heap'[a].pos < ReplyLen
      <3>1. CASE n = left
        <4>1. heap' = [heap EXCEPT ![a].replies = Tail(@), ![a].pos = 0]
          BY <1>6, <3>1
        <4>2. Tail(heap[a].replies) \in Seq(Reply) /\ 0 \in Nat /\ 0 < ReplyLen
          BY <1>1, <1>3, LengthAssumption
        <4>3. /\ heap'[a] = [heap[a] EXCEPT !.replies = Tail(@), !.pos = 0]
              /\ \A b \in Addr \ {a} : heap'[b] = heap[b]
          BY <1>3, <4>1
        <4>4. /\ heap'[a] \in TcpConnection /\ heap'[a].fd = heap[a].fd
              /\ heap'[a].owner = heap[a].owner /\ heap'[a].pos = 0
          BY <1>3, <4>2, <4>3 DEF TcpConnection
        <4> QED BY <1>1, <4>1, <4>2, <4>3, <4>4, <1>3
      <3>2. CASE n # left
        <4>1. heap' = [heap EXCEPT ![a].pos = @ + n]
          BY <1>6, <3>2
        <4>2. heap[a].pos + n \in Nat /\ heap[a].pos + n < ReplyLen
          BY <1>2, <1>3, <1>5, <3>2
        <4>3. /\ heap'[a] = [heap[a] EXCEPT !.pos = @ + n]
              /\ \A b \in Addr \ {a} : heap'[b] = heap[b]
          BY <1>3, <4>1
        <4>4. /\ heap'[a] \in TcpConnection /\ heap'[a].fd = heap[a].fd
              /\ heap'[a].owner = heap[a].owner /\ heap'[a].pos = heap[a].pos + n
              /\ heap'[a].replies = heap[a].replies
          BY <1>3, <4>2, <4>3 DEF TcpConnection
        <4> QED BY <1>1, <4>1, <4>2, <4>3, <4>4, <1>3
      <3> QED BY <3>1, <3>2
    <2>3. TypeOK' /\ Clients'
      BY <1>1, <1>6, <2>1, <2>2 DEF TypeOK, Clients
    <2> QED BY <1>1, <1>6, <2>2, <2>3, Updated
  <1>7. CASE CloseConn(a) /\ UNCHANGED outbuf
    BY <1>1, <1>7, ClosedOwned DEF TypeOK
  <1> QED BY <1>2, <1>6, <1>7 DEF WriteSome

LEMMA FlagsOwned ==
    ASSUME Ownership, NEW a \in Addr, WriteDone(a) \/ Elapse(a)
    PROVE  Ownership'
  <1>1. TypeOK /\ Clients /\ PosInside /\ a \in Live
    BY InHandler DEF Ownership, WriteDone, Elapse
  <1>2. /\ UNCHANGED <<request, gone, nsent, unread, sock, outbuf, q_conn, q_msg, pipe, conns,
                       backend, handled, received, dropped>>
        /\ at' = Idle \/ at' = at
    BY DEF WriteDone, Elapse, clientVars, queueVars, histVars
  <1>3. PICK m \in SUBSET {"READ", "WRITE"}, stale \in BOOLEAN :
            heap' = [heap EXCEPT ![a] = [@ EXCEPT !.mask = m, !.stale = stale]]
    <2>1. heap[a] \in TcpConnection /\ heap \in [Addr -> TcpConnection \cup {NULL}]
      BY <1>1, LiveTypes DEF TypeOK
    <2>2. heap[a].mask \in SUBSET {"READ", "WRITE"}
      BY <2>1 DEF TcpConnection
    <2>3. CASE WriteDone(a)
      <3>1. heap' = [heap EXCEPT ![a] = [@ EXCEPT !.mask = heap[a].mask \ {"WRITE"}, !.stale = FALSE]]
        BY <2>1, <2>3 DEF WriteDone
      <3> QED BY <2>2, <3>1
    <2>4. CASE Elapse(a)
      <3>1. heap' = [heap EXCEPT ![a] = [@ EXCEPT !.mask = heap[a].mask, !.stale = TRUE]]
        BY <2>1, <2>4 DEF Elapse, TcpConnection
      <3> QED BY <2>2, <3>1
    <2> QED BY <2>3, <2>4
  <1>4. /\ heap'[a] \in TcpConnection /\ heap'[a].fd = heap[a].fd
        /\ heap'[a].owner = heap[a].owner /\ heap'[a].pos = heap[a].pos
        /\ heap'[a].replies = heap[a].replies
        /\ \A b \in Addr \ {a} : heap'[b] = heap[b]
        /\ heap' \in [Addr -> TcpConnection \cup {NULL}]
    <2>1. heap[a] \in TcpConnection /\ heap \in [Addr -> TcpConnection \cup {NULL}]
      BY <1>1, LiveTypes DEF TypeOK
    <2>2. heap'[a] = [heap[a] EXCEPT !.mask = m, !.stale = stale]
      BY <1>3, <2>1
    <2>3. /\ heap'[a] \in TcpConnection /\ heap'[a].fd = heap[a].fd
          /\ heap'[a].owner = heap[a].owner /\ heap'[a].pos = heap[a].pos
          /\ heap'[a].replies = heap[a].replies
      BY <2>1, <2>2 DEF TcpConnection
    <2> QED BY <1>3, <2>1, <2>2, <2>3
  <1>5. TypeOK' /\ Clients'
    BY <1>1, <1>2, <1>4 DEF TypeOK, Clients
  <1>6. IF heap'[a].replies = <<>> THEN heap'[a].pos = 0 ELSE heap'[a].pos < ReplyLen
    BY <1>1, <1>4 DEF PosInside
  <1> QED BY <1>1, <1>2, <1>4, <1>5, <1>6, Updated

LEMMA TimeoutOwned ==
    ASSUME Ownership, NEW a \in Addr, ProcessTimeout(a)
    PROVE  Ownership'
  <1>1. /\ a \in Live /\ CloseConn(a) /\ handled' \in [Client -> Nat]
        /\ UNCHANGED <<request, gone, nsent, unread, outbuf, q_conn, q_msg, pipe, backend,
                       received, dropped>>
    BY DEF ProcessTimeout, Ownership, TypeOK, clientVars, queueVars, histVars
  <1> QED BY <1>1, ClosedOwned

(* The invariant is inductive.                                             *)
LEMMA OwnershipInductive == Ownership /\ [Next]_vars => Ownership'
  <1> SUFFICES ASSUME Ownership, [Next]_vars PROVE Ownership'
    OBVIOUS
  <1>1. CASE ClientNext
    BY <1>1, AcceptOwned, ClientOwned DEF ClientNext
  <1>2. CASE RtcAnswer \/ RtcDrop
    BY <1>2, RtcOwned
  <1>3. CASE WorkerNext
    <2>1. ASSUME NEW a \in Addr, HandlerStep(a) PROVE Ownership'
      BY <2>1, HeadOwned, RequestOwned, DoneOwned, WriteOwned, FlagsOwned DEF HandlerStep
    <2>2. ASSUME NEW a \in Addr, ReadQuery(a) \/ WriteReply(a) \/ ProcessTimeout(a) PROVE Ownership'
      BY <2>2, ReadOwned, DoneOwned, TimeoutOwned
    <2> QED BY <1>3, <2>1, <2>2, NewConnOwned, RtcMsgOwned DEF WorkerNext
  <1>4. ASSUME NEW a \in Addr, Elapse(a) PROVE Ownership'
    BY <1>4, FlagsOwned
  <1>5. CASE UNCHANGED vars
    <2>1. TypeOK' /\ Clients'
      BY <1>5 DEF Ownership, TypeOK, Clients, vars, clientVars, queueVars, histVars
    <2> QED BY <1>5, <2>1, Aside DEF vars, queueVars
  <1>6. CASE Done
    BY <1>5, <1>6 DEF Done
  <1> QED BY <1>1, <1>2, <1>3, <1>4, <1>5, <1>6 DEF Next

LEMMA OwnershipInvariant == Spec => []Ownership
  <1> QED BY InitOwned, OwnershipInductive, PTL DEF Spec

(* Every open descriptor has one owner, no slot of _conns points to a      *)
(* deleted connection, and no handler works on one.                        *)
THEOREM DescriptorsOwned == Spec => []FdOwnership
  <1> QED BY OwnershipInvariant, Owned, PTL

-----------------------------------------------------------------------------
(* No other step closes a descriptor.                                      *)
Closes(a) == \/ ReadQuery(a) /\ heap[a].owner \in gone
             \/ ProcessHead(a) /\ request[heap[a].owner].kind = "BADMAGIC"
             \/ ProcessRequest(a) /\ request[heap[a].owner].kind = "BADBODY"
             \/ WriteSome(a) /\ heap[a].owner \in gone
             \/ ProcessTimeout(a)

LEMMA ClosesOr ==
    ASSUME Ownership, [Next]_vars, NEW f \in Fd, sock[f] # NULL, sock'[f] = NULL
    PROVE  \E a \in Addr : Closes(a) /\ CloseConn(a)
  <1>1. sock' # sock
    OBVIOUS
  <1>2. CASE ClientNext
    <2>1. PICK c \in Client : accept_new_conn(c)
      BY <1>1, <1>2 DEF ClientNext, ClientSend, ClientClose, ClientRead
    <2>2. PICK g \in Fd : sock' = [sock EXCEPT ![g] = c]
      BY <2>1 DEF accept_new_conn
    <2>3. sock'[f] = c \/ sock'[f] = sock[f]
      BY <2>2 DEF Ownership, TypeOK
    <2> QED BY <2>3, NullAssumption
  <1>3. CASE WorkerNext
    <2>1. PICK a \in Addr : ReadQuery(a) \/ HandlerStep(a) \/ ProcessTimeout(a)
      BY <1>1, <1>3 DEF WorkerNext, NewConn, RtcMsg, WriteReply
    <2>2. CASE ReadQuery(a)
      BY <1>1, <2>2 DEF ReadQuery, Closes
    <2>3. CASE HandlerStep(a)
      <3>1. CASE ProcessHead(a)
        BY <1>1, <3>1 DEF ProcessHead, Closes
      <3>2. CASE ProcessRequest(a)
        BY <1>1, <3>2 DEF ProcessRequest, Closes
      <3>3. CASE WriteSome(a)
        BY <1>1, <3>3 DEF WriteSome, Closes
      <3> QED BY <1>1, <2>3, <3>1, <3>2, <3>3 DEF HandlerStep, ProcessDone, WriteDone
    <2>4. CASE ProcessTimeout(a)
      BY <2>4 DEF ProcessTimeout, Closes
    <2> QED BY <2>1, <2>2, <2>3, <2>4
  <1> QED BY <1>1, <1>2, <1>3
      DEF Next, RtcAnswer, RtcDrop, Elapse, Done, vars

LEMMA CausesGiven ==
    ASSUME Ownership, [Next]_vars, NEW f \in Fd, sock[f] # NULL, sock'[f] = NULL
    PROVE  \/ sock[f] \in gone
           \/ request[sock[f]].kind \in {"BADBODY", "BADMAGIC"}
           \/ heap[conns[f]].stale
  <1>1. PICK a \in Addr : Closes(a) /\ CloseConn(a)
    BY ClosesOr
  <1>2. a \in Live /\ TypeOK
    BY <1>1, InHandler
       DEF Closes, ReadQuery, ProcessHead, ProcessRequest, WriteSome, ProcessTimeout, Ownership
  <1>3. heap[a].fd \in Fd /\ conns[heap[a].fd] = a /\ a # NULL
    BY <1>2, LiveTypes DEF Ownership, Slots
  <1>4. sock[heap[a].fd] = heap[a].owner
    BY <1>3 DEF Ownership, Slots
  <1>5. f = heap[a].fd
    BY <1>1, <1>2, <1>3 DEF CloseConn, TypeOK
  <1> QED BY <1>1, <1>3, <1>4, <1>5 DEF Closes, ProcessTimeout

(* The worker closes a connection only when the client is gone, the        *)
(* request is malformed or the timeout has passed since the last           *)
(* interaction.                                                            *)
THEOREM ClosesForCause == Spec => ClosedForCause
  <1>1. ASSUME Ownership, [Next]_vars
        PROVE  [\A f \in Fd : sock[f] # NULL /\ sock'[f] = NULL =>
                  LET c == sock[f]
                  IN \/ c \in gone
                     \/ request[c].kind \in {"BADBODY", "BADMAGIC"}
                     \/ heap[conns[f]].stale]_vars
    BY <1>1, CausesGiven
  <1> QED BY <1>1, OwnershipInvariant, PTL DEF Spec, ClosedForCause

-----------------------------------------------------------------------------
(* Messages of which an answer may still come.                             *)
InFlight == backend \cup {q_msg[i] : i \in 1 .. Len(q_msg)}

(* The replies of r2 are some of those of r1.                              *)
Drawn(r2, r1) == \A i \in 1 .. Len(r2) : \E j \in 1 .. Len(r1) : r2[i] = r1[j]

(* What connection b keeps in a step that makes no request and no reply.   *)
KeptBy(b) ==
    LET o == heap[b].owner
    IN /\ b \in Live /\ heap'[b].owner = o /\ heap'[b].fd = heap[b].fd
       /\ heap'[b].qlen \in Nat /\ heap'[b].qlen >= heap[b].qlen
       /\ heap'[b].processed = heap[b].processed \/ MoreToProcess(heap[b])
       /\ Drawn(heap'[b].replies, heap[b].replies)
       /\ heap'[b].qlen + unread'[o] + nsent[o] <= heap[b].qlen + unread[o] + nsent'[o]

Steady ==
    /\ InFlight' \subseteq InFlight
    /\ \A b \in Live' : KeptBy(b)
    /\ UNCHANGED <<handled, request, q_conn>>
    /\ \A f \in Fd : sock'[f] \in {sock[f], NULL}

LEMMA SameReplies == \A r : Drawn(r, r)
  BY DEF Drawn

LEMMA TailDrawn == ASSUME NEW S, NEW r \in Seq(S), r # <<>> PROVE Drawn(Tail(r), r)
  <1>1. /\ Len(r) \in Nat \ {0} /\ Len(Tail(r)) = Len(r) - 1
        /\ \A i \in 1 .. Len(r) - 1 : Tail(r)[i] = r[i + 1] /\ i + 1 \in 1 .. Len(r)
    OBVIOUS
  <1> QED BY <1>1 DEF Drawn

LEMMA Unmoved ==
    ASSUME Ownership, NEW b \in Live, heap'[b] = heap[b],
           unread'[heap[b].owner] + nsent[heap[b].owner]
              <= unread[heap[b].owner] + nsent'[heap[b].owner],
           nsent' \in [Client -> Nat], unread' \in [Client -> Nat]
    PROVE  KeptBy(b)
  <1>1. /\ heap[b] \in TcpConnection /\ heap[b].owner \in Client /\ heap[b].qlen \in Nat
        /\ MaxSend \in Nat /\ unread[heap[b].owner] \in Nat /\ nsent[heap[b].owner] \in Nat
    BY LiveTypes, LengthAssumption DEF Ownership, TypeOK
  <1>2. unread'[heap[b].owner] \in Nat /\ nsent'[heap[b].owner] \in Nat
    BY <1>1
  <1>3. heap'[b].qlen + unread'[heap[b].owner] + nsent[heap[b].owner]
           <= heap[b].qlen + unread[heap[b].owner] + nsent'[heap[b].owner]
    BY <1>1, <1>2
  <1> QED BY <1>1, <1>3, SameReplies DEF KeptBy

LEMMA CloseSteady ==
    ASSUME Ownership, NEW a \in Live, CloseConn(a),
           UNCHANGED <<handled, request, unread, nsent, q_conn, q_msg, backend>>
    PROVE  Steady
  <1>1. a \in Addr /\ heap' = [heap EXCEPT ![a] = NULL] /\ heap \in [Addr -> TcpConnection \cup {NULL}]
    BY LiveTypes DEF Ownership, TypeOK, CloseConn
  <1>2. \A b \in Live' : b \in Live /\ heap'[b] = heap[b]
    BY <1>1 DEF Live
  <1>3. unread \in [Client -> Nat] /\ nsent \in [Client -> Nat] /\ MaxSend \in Nat
    BY LengthAssumption DEF Ownership, TypeOK
  <1>4. \A b \in Live : heap[b].owner \in Client
    BY LiveTypes DEF Ownership
  <1>5. \A b \in Live' : KeptBy(b)
    BY <1>2, <1>3, <1>4, Unmoved
  <1>6. \A f \in Fd : sock'[f] \in {sock[f], NULL}
    BY Closing
  <1> QED BY <1>5, <1>6 DEF Steady, InFlight

(* No client is sent more than it reads.                                   *)
Sound == \A c \in Client : unread'[c] + nsent[c] <= unread[c] + nsent'[c]

LEMMA UpdateSteady ==
    ASSUME Ownership, Ownership', Sound, InFlight' \subseteq InFlight,
           UNCHANGED <<handled, request, q_conn, sock>>,
           NEW a \in Live, KeptBy(a), \A b \in Addr \ {a} : heap'[b] = heap[b]
    PROVE  Steady
  <1>1. unread' \in [Client -> Nat] /\ nsent' \in [Client -> Nat] /\ MaxSend \in Nat
    BY LengthAssumption DEF Ownership, TypeOK
  <1>2. ASSUME NEW b \in Live', b # a PROVE KeptBy(b)
    <2>1. b \in Live /\ heap'[b] = heap[b] /\ heap[b].owner \in Client
      BY <1>2, LiveTypes DEF Live, Ownership
    <2> QED BY <1>1, <2>1, Unmoved DEF Sound
  <1> QED BY <1>2 DEF Steady

LEMMA HeapSteady ==
    ASSUME Ownership, Ownership', Sound, InFlight' \subseteq InFlight,
           UNCHANGED <<handled, request, q_conn, sock, heap>>
    PROVE  Steady
  <1>1. unread' \in [Client -> Nat] /\ nsent' \in [Client -> Nat] /\ MaxSend \in Nat
    BY LengthAssumption DEF Ownership, TypeOK
  <1>2. ASSUME NEW b \in Live' PROVE KeptBy(b)
    <2>1. b \in Live /\ heap'[b] = heap[b] /\ heap[b].owner \in Client
      BY <1>2, LiveTypes DEF Live, Ownership
    <2> QED BY <1>1, <2>1, Unmoved DEF Sound
  <1> QED BY <1>2 DEF Steady

LEMMA Counts ==
    ASSUME Ownership
    PROVE  \A c \in Client : unread[c] \in Nat /\ nsent[c] \in Nat
  BY LengthAssumption DEF Ownership, TypeOK

LEMMA SoundIfSame == ASSUME Ownership, UNCHANGED <<unread, nsent>> PROVE Sound
  BY Counts DEF Sound

LEMMA ClientSteady ==
    ASSUME Ownership, Ownership', NEW c \in Client, ClientSend(c) \/ ClientClose(c) \/ ClientRead(c)
    PROVE  Steady
  <1>1. UNCHANGED <<handled, request, q_conn, sock, heap, q_msg, backend>>
    BY DEF ClientSend, ClientClose, ClientRead, clientVars, queueVars, histVars
  <1>2. Sound
    <2>1. CASE ClientSend(c)
      <3>1. \A d \in Client : /\ unread'[d] = IF d = c THEN unread[d] + 1 ELSE unread[d]
                              /\ nsent'[d] = IF d = c THEN nsent[d] + 1 ELSE nsent[d]
        BY <2>1 DEF ClientSend, Ownership, TypeOK
      <3> QED BY <3>1, Counts DEF Sound
    <2>2. CASE UNCHANGED <<unread, nsent>>
      BY <2>2, SoundIfSame
    <2> QED BY <2>1, <2>2 DEF ClientClose, ClientRead, clientVars
  <1> QED BY <1>1, <1>2, HeapSteady DEF InFlight

LEMMA RtcSteady ==
    ASSUME Ownership, Ownership', RtcAnswer \/ RtcDrop
    PROVE  Steady
  <1>1. UNCHANGED <<handled, request, q_conn, sock, heap, unread, nsent>>
    BY DEF RtcAnswer, RtcDrop, clientVars, queueVars, histVars
  <1>2. InFlight' \subseteq InFlight
    <2>1. CASE RtcAnswer
      <3>1. PICK m \in backend : backend' = backend \ {m} /\ q_msg' = Append(q_msg, m)
        BY <2>1 DEF RtcAnswer
      <3>2. q_msg \in Seq(Message) /\ m \in Message
        BY <3>1 DEF Ownership, TypeOK
      <3>3. \A i \in 1 .. Len(q_msg') : q_msg'[i] = m \/ (i \in 1 .. Len(q_msg) /\ q_msg'[i] = q_msg[i])
        BY <3>1, <3>2
      <3> QED BY <3>1, <3>3 DEF InFlight
    <2>2. CASE RtcDrop
      BY <2>2 DEF RtcDrop, InFlight, queueVars
    <2> QED BY <2>1, <2>2
  <1> QED BY <1>1, <1>2, SoundIfSame, HeapSteady

LEMMA ReadSteady ==
    ASSUME Ownership, Ownership', NEW a \in Addr, ReadQuery(a)
    PROVE  Steady
  <1>1. a \in Live /\ UNCHANGED <<handled, request, q_conn, q_msg, backend, nsent>>
    BY DEF ReadQuery, clientVars, queueVars, histVars
  <1>2. PICK c, n : c = heap[a].owner /\ n = sock_read_data(c)
    OBVIOUS
  <1>3. /\ c \in Client /\ n \in 0 .. unread[c] /\ heap[a].qlen \in Nat
        /\ heap \in [Addr -> TcpConnection \cup {NULL}] /\ heap[a] \in TcpConnection
    <2>1. /\ c \in Client /\ unread[c] \in Nat
      BY <1>1, <1>2, LiveTypes, Counts DEF Ownership
    <2>2. n \in 0 .. unread[c]
      BY <1>2, <2>1 DEF sock_read_data, XHEAD_SIZE
    <2> QED BY <1>1, <2>1, <2>2, LiveTypes DEF Ownership, TypeOK
  <1>4. CASE /\ unread' = [unread EXCEPT ![c] = @ - n]
             /\ heap' = [heap EXCEPT ![a].qlen = @ + n, ![a].stale = FALSE]
             /\ UNCHANGED <<sock, conns>>
    <2>1. /\ heap'[a] = [heap[a] EXCEPT !.qlen = @ + n, !.stale = FALSE]
          /\ \A b \in Addr \ {a} : heap'[b] = heap[b]
      BY <1>3, <1>4
    <2>2. /\ heap'[a].fd = heap[a].fd /\ heap'[a].owner = heap[a].owner
          /\ heap'[a].processed = heap[a].processed /\ heap'[a].replies = heap[a].replies
          /\ heap'[a].qlen = heap[a].qlen + n
      BY <1>3, <2>1 DEF TcpConnection
    <2>3. \A d \in Client : unread'[d] = IF d = c THEN unread[d] - n ELSE unread[d]
      BY <1>4 DEF Ownership, TypeOK
    <2>4. Sound
      BY <1>1, <1>3, <2>3, Counts DEF Sound
    <2>5. unread'[c] = unread[c] - n /\ nsent' = nsent /\ unread[c] \in Nat /\ nsent[c] \in Nat /\ n \in Nat
      BY <1>1, <1>3, <2>3, Counts
    <2>6. /\ heap'[a].qlen \in Nat /\ heap'[a].qlen >= heap[a].qlen
          /\ heap'[a].qlen + unread'[c] + nsent[c] <= heap[a].qlen + unread[c] + nsent'[c]
      BY <1>3, <2>2, <2>5
    <2>7. KeptBy(a)
      BY <1>1, <1>2, <2>2, <2>6, SameReplies DEF KeptBy
    <2> QED BY <1>1, <1>4, <2>1, <2>4, <2>7, UpdateSteady DEF InFlight
  <1>5. CASE CloseConn(a) /\ UNCHANGED unread
    BY <1>1, <1>5, CloseSteady
  <1> QED BY <1>2, <1>4, <1>5 DEF ReadQuery

(* Only what the handler does to its connection counts.                    *)
LEMMA OneSteady ==
    ASSUME Ownership, Ownership', NEW a \in Live,
           UNCHANGED <<handled, request, q_conn, sock, q_msg, backend, unread, nsent>>,
           \A b \in Addr \ {a} : heap'[b] = heap[b],
           heap'[a].owner = heap[a].owner, heap'[a].fd = heap[a].fd, heap'[a].qlen = heap[a].qlen,
           heap'[a].processed = heap[a].processed \/ MoreToProcess(heap[a]),
           Drawn(heap'[a].replies, heap[a].replies)
    PROVE  Steady
  <1>1. /\ heap[a].qlen \in Nat /\ heap[a].owner \in Client
        /\ unread[heap[a].owner] \in Nat /\ nsent[heap[a].owner] \in Nat
    BY LiveTypes, Counts DEF Ownership
  <1>2. KeptBy(a)
    BY <1>1 DEF KeptBy
  <1> QED BY <1>2, SoundIfSame, UpdateSteady DEF InFlight

LEMMA HeadSteady ==
    ASSUME Ownership, Ownership', NEW a \in Addr, ProcessHead(a)
    PROVE  Steady
  <1>1. /\ a \in Live /\ MoreToProcess(heap[a])
        /\ UNCHANGED <<handled, request, q_conn, q_msg, backend, unread, nsent>>
    BY InHandler DEF ProcessHead, clientVars, queueVars, histVars
  <1>2. heap \in [Addr -> TcpConnection \cup {NULL}] /\ heap[a] \in TcpConnection
    BY <1>1, LiveTypes DEF Ownership, TypeOK
  <1>3. PICK r : r = request[heap[a].owner]
    OBVIOUS
  <1>4. CASE /\ heap' = [heap EXCEPT ![a].state = "BODY", ![a].processed = r.body]
             /\ UNCHANGED <<sock, conns, at>>
    <2>1. /\ heap'[a] = [heap[a] EXCEPT !.state = "BODY", !.processed = r.body]
          /\ \A b \in Addr \ {a} : heap'[b] = heap[b]
      BY <1>2, <1>4
    <2>2. /\ heap'[a].fd = heap[a].fd /\ heap'[a].owner = heap[a].owner
          /\ heap'[a].replies = heap[a].replies /\ heap'[a].qlen = heap[a].qlen
      BY <1>2, <2>1 DEF TcpConnection
    <2> QED BY <1>1, <1>4, <2>1, <2>2, SameReplies, OneSteady
  <1>5. CASE CloseConn(a)
    BY <1>1, <1>5, CloseSteady
  <1> QED BY <1>3, <1>4, <1>5 DEF ProcessHead

LEMMA DoneSteady ==
    ASSUME Ownership, Ownership', NEW a \in Addr, ProcessDone(a) \/ WriteReply(a)
    PROVE  Steady
  BY SoundIfSame, HeapSteady
     DEF ProcessDone, WriteReply, clientVars, queueVars, histVars, InFlight

LEMMA WriteSteady ==
    ASSUME Ownership, Ownership', NEW a \in Addr, WriteSome(a)
    PROVE  Steady
  <1>1. /\ a \in Live /\ heap[a].replies # <<>>
        /\ UNCHANGED <<handled, request, q_conn, q_msg, backend, unread, nsent>>
    BY InHandler DEF WriteSome, clientVars, queueVars, histVars
  <1>2. /\ heap \in [Addr -> TcpConnection \cup {NULL}] /\ heap[a] \in TcpConnection
        /\ heap[a].replies \in Seq(Reply)
    BY <1>1, LiveTypes DEF Ownership, TypeOK
  <1>3. PICK c, left, n : /\ c = heap[a].owner /\ left = ReplyLen - heap[a].pos
                          /\ n = sock_write_data(c, left)
    OBVIOUS
  <1>4. CASE /\ heap' = IF n = left
                        THEN [heap EXCEPT ![a].replies = Tail(@), ![a].pos = 0]
                        ELSE [heap EXCEPT ![a].pos = @ + n]
             /\ UNCHANGED <<sock, conns, at>>
    <2>1. CASE n = left
      <3>1. heap' = [heap EXCEPT ![a].replies = Tail(@), ![a].pos = 0]
        BY <1>4, <2>1
      <3>2. /\ heap'[a] = [heap[a] EXCEPT !.replies = Tail(@), !.pos = 0]
            /\ \A b \in Addr \ {a} : heap'[b] = heap[b]
        BY <1>2, <3>1
      <3>3. /\ heap'[a].fd = heap[a].fd /\ heap'[a].owner = heap[a].owner
            /\ heap'[a].replies = Tail(heap[a].replies) /\ heap'[a].qlen = heap[a].qlen
            /\ heap'[a].processed = heap[a].processed
        BY <1>2, <3>2 DEF TcpConnection
      <3> QED BY <1>1, <1>2, <1>4, <3>2, <3>3, TailDrawn, OneSteady
    <2>2. CASE n # left
      <3>1. heap' = [heap EXCEPT ![a].pos = @ + n]
        BY <1>4, <2>2
      <3>2. /\ heap'[a] = [heap[a] EXCEPT !.pos = @ + n]
            /\ \A b \in Addr \ {a} : heap'[b] = heap[b]
        BY <1>2, <3>1
      <3>3. /\ heap'[a].fd = heap[a].fd /\ heap'[a].owner = heap[a].owner
            /\ heap'[a].replies = heap[a].replies /\ heap'[a].qlen = heap[a].qlen
            /\ heap'[a].processed = heap[a].processed
        BY <1>2, <3>2 DEF TcpConnection
      <3> QED BY <1>1, <1>4, <3>2, <3>3, SameReplies, OneSteady
    <2> QED BY <2>1, <2>2
  <1>5. CASE CloseConn(a)
    BY <1>1, <1>5, CloseSteady
  <1> QED BY <1>3, <1>4, <1>5 DEF WriteSome

LEMMA FlagsSteady ==
    ASSUME Ownership, Ownership', NEW a \in Addr, WriteDone(a) \/ Elapse(a)
    PROVE  Steady
  <1>1. /\ a \in Live
        /\ UNCHANGED <<handled, request, q_conn, sock, q_msg, backend, unread, nsent>>
    BY InHandler DEF WriteDone, Elapse, clientVars, queueVars, histVars
  <1>2. heap \in [Addr -> TcpConnection \cup {NULL}] /\ heap[a] \in TcpConnection
    BY <1>1, LiveTypes DEF Ownership, TypeOK
  <1>3. /\ heap'[a].fd = heap[a].fd /\ heap'[a].owner = heap[a].owner
        /\ heap'[a].replies = heap[a].replies /\ heap'[a].qlen = heap[a].qlen
        /\ heap'[a].processed = heap[a].processed
        /\ \A b \in Addr \ {a} : heap'[b] = heap[b]
    <2>1. CASE WriteDone(a)
      <3>1. /\ heap'[a] = [heap[a] EXCEPT !.mask = @ \ {"WRITE"}, !.stale = FALSE]
            /\ \A b \in Addr \ {a} : heap'[b] = heap[b]
        BY <1>2, <2>1 DEF WriteDone
      <3> QED BY <1>2, <3>1 DEF TcpConnection
    <2>2. CASE Elapse(a)
      <3>1. /\ heap'[a] = [heap[a] EXCEPT !.stale = TRUE]
            /\ \A b \in Addr \ {a} : heap'[b] = heap[b]
        BY <1>2, <2>2 DEF Elapse
      <3> QED BY <1>2, <3>1 DEF TcpConnection
    <2> QED BY <2>1, <2>2
  <1> QED BY <1>1, <1>3, SameReplies, OneSteady

LEMMA TimeoutSteady ==
    ASSUME Ownership, NEW a \in Addr, ProcessTimeout(a)
    PROVE  Steady
  BY CloseSteady DEF ProcessTimeout, clientVars, queueVars, histVars

(* Every step but these four is steady.                                    *)
LEMMA SteadyOr ==
    ASSUME Ownership, Ownership', [Next]_vars
    PROVE  \/ Steady \/ NewConn \/ RtcMsg
           \/ \E c \in Client : accept_new_conn(c)
           \/ \E a \in Addr : ProcessRequest(a)
  <1>1. CASE ClientNext
    BY <1>1, ClientSteady DEF ClientNext
  <1>2. CASE RtcAnswer \/ RtcDrop
    BY <1>2, RtcSteady
  <1>3. CASE WorkerNext
    <2>1. ASSUME NEW a \in Addr, HandlerStep(a) PROVE Steady \/ ProcessRequest(a)
      BY <2>1, HeadSteady, DoneSteady, WriteSteady, FlagsSteady DEF HandlerStep
    <2>2. ASSUME NEW a \in Addr, ReadQuery(a) \/ WriteReply(a) \/ ProcessTimeout(a) PROVE Steady
      BY <2>2, ReadSteady, DoneSteady, TimeoutSteady
    <2> QED BY <1>3, <2>1, <2>2 DEF WorkerNext
  <1>4. ASSUME NEW a \in Addr, Elapse(a) PROVE Steady
    BY <1>4, FlagsSteady
  <1>5. CASE UNCHANGED vars
    BY <1>5, SoundIfSame, HeapSteady DEF vars, clientVars, queueVars, histVars, InFlight
  <1>6. CASE Done
    BY <1>5, <1>6 DEF Done
  <1> QED BY <1>1, <1>2, <1>3, <1>4, <1>5, <1>6 DEF Next

-----------------------------------------------------------------------------
(* A message in flight whose connection is still there came from that      *)
(* connection's client, and a whole header had been read from it.          *)
Genuine ==
    \A m \in InFlight : m.conn \in Live =>
        heap[m.conn].owner = m.from /\ heap[m.conn].qlen >= XHEAD_SIZE

Answering == Genuine /\ ReplyToRequester

LEMMA InFlightTypes ==
    ASSUME Ownership, NEW m \in InFlight
    PROVE  m \in Message /\ m.conn \in Addr /\ m.fd \in Fd /\ m.from \in Client
  <1>1. backend \subseteq Message /\ q_msg \in Seq(Message)
    BY DEF Ownership, TypeOK
  <1>2. m \in Message
    BY <1>1 DEF InFlight
  <1> QED BY <1>2 DEF Message

LEMMA SteadyAnswers ==
    ASSUME Ownership, Answering, Steady
    PROVE  Answering'
  <1>1. ASSUME NEW m \in InFlight', m.conn \in Live'
        PROVE  heap'[m.conn].owner = m.from /\ heap'[m.conn].qlen >= XHEAD_SIZE
    <2>1. m \in InFlight /\ KeptBy(m.conn)
      BY <1>1 DEF Steady
    <2>2. /\ m.conn \in Live /\ heap'[m.conn].owner = heap[m.conn].owner
          /\ heap'[m.conn].qlen \in Nat /\ heap'[m.conn].qlen >= heap[m.conn].qlen
      BY <2>1 DEF KeptBy
    <2>3. heap[m.conn].owner = m.from /\ heap[m.conn].qlen >= XHEAD_SIZE /\ heap[m.conn].qlen \in Nat
      BY <2>1, <2>2, LiveTypes DEF Answering, Genuine, Ownership
    <2> QED BY <2>2, <2>3 DEF XHEAD_SIZE
  <1>2. ASSUME NEW b \in Live', NEW i \in 1 .. Len(heap'[b].replies)
        PROVE  heap'[b].replies[i].for = heap'[b].owner /\ heap'[b].replies[i].header
    <2>1. /\ b \in Live /\ heap'[b].owner = heap[b].owner
          /\ Drawn(heap'[b].replies, heap[b].replies)
      BY DEF Steady, KeptBy
    <2>2. PICK j \in 1 .. Len(heap[b].replies) : heap'[b].replies[i] = heap[b].replies[j]
      BY <2>1 DEF Drawn
    <2> QED BY <2>1, <2>2 DEF Answering, ReplyToRequester
  <1> QED BY <1>1, <1>2 DEF Answering, Genuine, ReplyToRequester

(* What a reply added to connection a preserves.                           *)
LEMMA ReplyAnswers ==
    ASSUME Ownership, Answering, NEW a \in Live, NEW c \in Client, heap[a].owner = c,
           heap'[a].owner = c, heap'[a].qlen = heap[a].qlen, heap[a].qlen >= XHEAD_SIZE,
           heap'[a].replies = Append(heap[a].replies, [for |-> c, header |-> heap[a].qlen >= XHEAD_SIZE]),
           \A b \in Addr \ {a} : heap'[b] = heap[b], InFlight' \subseteq InFlight
    PROVE  Answering'
  <1>1. a \in Addr /\ heap[a].replies \in Seq(Reply)
    BY LiveTypes DEF Ownership
  <1>2. \A b \in Live' : b = a \/ (b \in Live /\ heap'[b] = heap[b])
    BY DEF Live
  <1>3. Genuine'
    BY <1>2 DEF Answering, Genuine
  <1>4. ASSUME NEW i \in 1 .. Len(heap'[a].replies)
        PROVE  heap'[a].replies[i].for = c /\ heap'[a].replies[i].header
    <2>1. PICK r : r = [for |-> c, header |-> heap[a].qlen >= XHEAD_SIZE]
      OBVIOUS
    <2>2. r \in Reply /\ r.for = c /\ r.header
      BY <2>1 DEF Reply
    <2>3. heap'[a].replies = Append(heap[a].replies, r)
      BY <2>1
    <2>4. heap'[a].replies[i] = r
             \/ (i \in 1 .. Len(heap[a].replies) /\ heap'[a].replies[i] = heap[a].replies[i])
      BY <1>1, <2>2, <2>3
    <2>5. CASE heap'[a].replies[i] = r
      BY <2>2, <2>5
    <2>6. CASE i \in 1 .. Len(heap[a].replies) /\ heap'[a].replies[i] = heap[a].replies[i]
      BY <2>6 DEF Answering, ReplyToRequester
    <2> QED BY <2>4, <2>5, <2>6
  <1>5. ReplyToRequester'
    <2>1. ASSUME NEW b \in Live', NEW i \in 1 .. Len(heap'[b].replies)
          PROVE  heap'[b].replies[i].for = heap'[b].owner /\ heap'[b].replies[i].header
      <3>1. CASE b = a
        BY <1>4, <2>1, <3>1
      <3>2. CASE b # a
        BY <1>2, <2>1, <3>2 DEF Answering, ReplyToRequester
      <3> QED BY <3>1, <3>2
    <2> QED BY <2>1 DEF ReplyToRequester
  <1> QED BY <1>3, <1>5 DEF Answering

LEMMA RtcMsgAnswers ==
    ASSUME Ownership, Answering, RtcMsg
    PROVE  Answering'
  <1>1. PICK m : m = Head(q_msg)
    OBVIOUS
  <1>2. /\ TypeOK /\ Slots /\ q_msg \in Seq(Message) /\ q_msg # <<>> /\ q_msg' = Tail(q_msg)
        /\ UNCHANGED <<backend, conns>>
    BY DEF Ownership, TypeOK, RtcMsg
  <1>3. InFlight' \subseteq InFlight /\ m \in InFlight
    <2>1. \A i \in 1 .. Len(q_msg') : i + 1 \in 1 .. Len(q_msg) /\ q_msg'[i] = q_msg[i + 1]
      BY <1>2
    <2>2. 1 \in 1 .. Len(q_msg) /\ m = q_msg[1]
      BY <1>1, <1>2
    <2> QED BY <1>2, <2>1, <2>2 DEF InFlight
  <1>4. m.conn \in Addr /\ m.fd \in Fd /\ m.from \in Client
    BY <1>3, InFlightTypes
  <1>5. CASE conns[m.fd] = m.conn
    <2>1. m.conn \in Live /\ heap[m.conn] \in TcpConnection
      BY <1>2, <1>4, <1>5, LiveTypes, NullAssumption DEF Slots
    <2>2. heap' = [heap EXCEPT ![m.conn] = WithReply(@, m.from)]
      BY <1>1, <1>5 DEF RtcMsg
    <2>3. /\ heap'[m.conn] = WithReply(heap[m.conn], m.from)
          /\ \A b \in Addr \ {m.conn} : heap'[b] = heap[b]
      BY <1>2, <1>4, <2>2 DEF TypeOK
    <2>4. RepliedTo(heap'[m.conn], heap[m.conn], m.from)
      BY <1>4, <2>1, <2>3, Replied
    <2>5. heap[m.conn].owner = m.from /\ heap[m.conn].qlen >= XHEAD_SIZE
      BY <1>3, <2>1 DEF Answering, Genuine
    <2>6. /\ heap'[m.conn].owner = m.from /\ heap'[m.conn].qlen = heap[m.conn].qlen
          /\ heap'[m.conn].replies
               = Append(heap[m.conn].replies, [for |-> m.from, header |-> heap[m.conn].qlen >= XHEAD_SIZE])
      BY <2>4, <2>5 DEF RepliedTo
    <2> QED BY <1>3, <1>4, <2>1, <2>3, <2>5, <2>6, ReplyAnswers
  <1>6. CASE conns[m.fd] # m.conn
    <2>1. heap' = heap
      BY <1>1, <1>6 DEF RtcMsg
    <2> QED BY <1>3, <2>1 DEF Answering, Genuine, ReplyToRequester, Live
  <1> QED BY <1>5, <1>6

(* No message in flight refers to a connection that is new.                *)
LEMMA NewConnAnswers ==
    ASSUME Ownership, Answering, NewConn, FreshAddr
    PROVE  Answering'
  <1>1. PICK a \in Addr \ Live :
            /\ FreshAddr => a \notin Referenced
            /\ heap' = [heap EXCEPT ![a] = NewConnection(Head(q_conn))]
    BY DEF NewConn
  <1>2. InFlight' = InFlight
    BY DEF NewConn, InFlight
  <1>3. \A m \in InFlight : m.conn # a
    BY <1>1 DEF InFlight, Referenced
  <1>4. heap'[a] = NewConnection(Head(q_conn)) /\ \A b \in Addr \ {a} : heap'[b] = heap[b]
    BY <1>1 DEF Ownership, TypeOK
  <1>5. heap'[a].replies = <<>>
    BY <1>4 DEF NewConnection
  <1>6. \A b \in Live' : b = a \/ (b \in Live /\ heap'[b] = heap[b])
    BY <1>4 DEF Live
  <1>7. Genuine'
    BY <1>2, <1>3, <1>6 DEF Answering, Genuine
  <1>8. ReplyToRequester'
    BY <1>5, <1>6 DEF Answering, ReplyToRequester
  <1> QED BY <1>7, <1>8 DEF Answering

LEMMA RequestAnswers ==
    ASSUME Ownership, Answering, NEW a \in Addr, ProcessRequest(a)
    PROVE  Answering'
  <1> DEFINE conn == heap[a]
             done == AfterRequest(conn)
             c == conn.owner
  <1>1. TypeOK /\ a \in Live /\ MoreToProcess(conn) /\ q_msg' = q_msg
    BY InHandler DEF Ownership, ProcessRequest, queueVars
  <1>2. /\ conn \in TcpConnection /\ c \in Client /\ conn.fd \in Fd
        /\ conn.qlen \in Nat /\ conn.processed \in Nat
    BY <1>1, LiveTypes
  <1>3. conn.qlen >= XHEAD_SIZE
    BY <1>1, <1>2 DEF MoreToProcess, XHEAD_SIZE
  <1>4. /\ done \in TcpConnection /\ done.owner = c /\ done.qlen = conn.qlen
        /\ done.replies = conn.replies
    BY <1>2, LengthAssumption DEF AfterRequest, TcpConnection
  <1>5. CASE CloseConn(a) /\ UNCHANGED backend
    <2>1. heap' = [heap EXCEPT ![a] = NULL] /\ InFlight' = InFlight
      BY <1>1, <1>5 DEF CloseConn, InFlight
    <2>2. \A b \in Live' : b \in Live /\ heap'[b] = heap[b]
      BY <1>1, <2>1 DEF Live, TypeOK
    <2> QED BY <2>1, <2>2 DEF Answering, Genuine, ReplyToRequester
  <1>6. CASE /\ backend' = backend \cup {[conn |-> a, fd |-> conn.fd, from |-> c]}
             /\ heap' = [heap EXCEPT ![a] = done]
    <2>1. heap'[a] = done /\ \A b \in Addr \ {a} : heap'[b] = heap[b]
      BY <1>1, <1>6 DEF TypeOK
    <2>2. /\ heap'[a].owner = c /\ heap'[a].qlen = conn.qlen
          /\ heap'[a].replies = conn.replies
      BY <1>4, <2>1
    <2>3. \A b \in Live' : b = a \/ (b \in Live /\ heap'[b] = heap[b])
      BY <2>1 DEF Live
    <2>4. \A m \in InFlight' : m \in InFlight \/ (m.conn = a /\ m.from = c)
      BY <1>1, <1>6 DEF InFlight
    <2>5. Genuine'
      BY <1>1, <1>3, <2>2, <2>3, <2>4 DEF Answering, Genuine
    <2>6. ReplyToRequester'
      BY <1>1, <2>2, <2>3 DEF Answering, ReplyToRequester
    <2> QED BY <2>5, <2>6 DEF Answering
  <1>7. CASE heap' = [heap EXCEPT ![a] = WithReply(done, c)] /\ UNCHANGED backend
    <2>1. PICK x : x = WithReply(done, c)
      OBVIOUS
    <2>2. RepliedTo(x, done, c)
      BY <1>2, <1>4, <2>1, Replied
    <2>3. heap'[a] = x /\ \A b \in Addr \ {a} : heap'[b] = heap[b]
      BY <1>1, <1>7, <2>1 DEF TypeOK
    <2>4. /\ x.owner = c /\ x.qlen = conn.qlen
          /\ x.replies = Append(conn.replies, [for |-> c, header |-> conn.qlen >= XHEAD_SIZE])
      BY <1>4, <2>2 DEF RepliedTo
    <2>5. InFlight' = InFlight
      BY <1>1, <1>7 DEF InFlight
    <2> QED BY <1>1, <1>2, <1>3, <2>3, <2>4, <2>5, ReplyAnswers
  <1> QED BY <1>5, <1>6, <1>7 DEF ProcessRequest

LEMMA InitAnswers == Init => Answering
  BY DEF Init, Answering, Genuine, ReplyToRequester, InFlight, Live

LEMMA AnsweringInductive ==
    ASSUME FreshAddr, Ownership, Ownership', Answering, [Next]_vars
    PROVE  Answering'
  <1>1. ASSUME NEW c \in Client, accept_new_conn(c) PROVE Answering'
    BY <1>1 DEF accept_new_conn, Answering, Genuine, ReplyToRequester, InFlight, Live
  <1> QED BY <1>1, SteadyOr, SteadyAnswers, RtcMsgAnswers, NewConnAnswers, RequestAnswers

(* A late reply never reaches another client, provided that the allocator  *)
(* does not reuse an address that a message still refers to.               *)
THEOREM RepliesToRequester ==
    ASSUME FreshAddr PROVE Spec => []ReplyToRequester
  <1>1. Ownership /\ Answering /\ [Next]_vars => (Ownership /\ Answering)'
    BY OwnershipInductive, AnsweringInductive
  <1>2. Answering => ReplyToRequester
    BY DEF Answering
  <1> QED BY InitOwned, InitAnswers, <1>1, <1>2, PTL DEF Spec

-----------------------------------------------------------------------------
(* A client has one descriptor.                                            *)
SoleSocket == \A f, g \in Fd : sock[f] # NULL /\ sock[f] = sock[g] => f = g

(* Two live connections are of two clients.                                *)
LEMMA OwnersDiffer ==
    ASSUME Ownership, SoleSocket, NEW a \in Live, NEW b \in Live, a # b
    PROVE  heap[a].owner # heap[b].owner
  <1>1. ASSUME NEW d \in Live
        PROVE  heap[d].fd \in Fd /\ conns[heap[d].fd] = d /\ d # NULL /\ heap[d].owner \in Client
    BY LiveTypes DEF Ownership, Slots
  <1>2. ASSUME NEW d \in Live
        PROVE  sock[heap[d].fd] = heap[d].owner /\ sock[heap[d].fd] # NULL
    BY <1>1, NullAssumption DEF Ownership, Slots
  <1>3. heap[a].fd # heap[b].fd
    BY <1>1
  <1> QED BY <1>1, <1>2, <1>3 DEF SoleSocket

(* Nothing is handled of a client that _new_conn() has not seen.           *)
Unbegun == /\ \A c \in Client : request[c] = NULL => handled[c] = 0
           /\ \A f \in Waiting : handled[sock[f]] = 0

(* No connection has read more than was sent, and once its request is      *)
(* handled its bytes_processed is set for good.                            *)
ReadOnceBy(b) ==
    LET o == heap[b].owner
    IN /\ heap[b].qlen + unread[o] <= nsent[o]
       /\ handled[o] = 0 \/ heap[b].processed = Processed

Once == SoleSocket /\ Unbegun /\ HandledOnce /\ \A b \in Live : ReadOnceBy(b)

(* bytes_processed is out of the reach of what a client sends.             *)
OutOfReach == MaxSend < Processed + XHEAD_SIZE

LEMMA NoSecond ==
    ASSUME OutOfReach, Ownership, Once, NEW b \in Live, MoreToProcess(heap[b])
    PROVE  handled[heap[b].owner] = 0
  <1>1. /\ heap[b].owner \in Client /\ heap[b].qlen \in Nat /\ heap[b].processed \in Nat
        /\ nsent[heap[b].owner] \in 0 .. MaxSend /\ unread[heap[b].owner] \in 0 .. MaxSend
        /\ MaxSend \in Nat /\ Processed \in Nat
    BY LiveTypes, LengthAssumption DEF Ownership, TypeOK
  <1>2. heap[b].qlen + unread[heap[b].owner] <= nsent[heap[b].owner]
    BY DEF Once, ReadOnceBy
  <1>3. heap[b].processed # Processed
    BY <1>1, <1>2 DEF MoreToProcess, OutOfReach, XHEAD_SIZE
  <1> QED BY <1>3 DEF Once, ReadOnceBy

(* What a connection must keep.                                            *)
LEMMA KeptOnce ==
    ASSUME OutOfReach, Ownership, Ownership', Once, handled' = handled, NEW b \in Live,
           heap'[b].owner = heap[b].owner, heap'[b].qlen \in Nat,
           heap'[b].processed = heap[b].processed \/ MoreToProcess(heap[b]),
           heap'[b].qlen + unread'[heap[b].owner] + nsent[heap[b].owner]
              <= heap[b].qlen + unread[heap[b].owner] + nsent'[heap[b].owner]
    PROVE  ReadOnceBy(b)'
  <1>1. /\ heap[b].owner \in Client /\ heap[b].qlen \in Nat /\ MaxSend \in Nat
        /\ unread[heap[b].owner] \in Nat /\ nsent[heap[b].owner] \in Nat
        /\ unread'[heap[b].owner] \in Nat /\ nsent'[heap[b].owner] \in Nat
    BY LiveTypes, LengthAssumption DEF Ownership, TypeOK
  <1>2. heap[b].qlen + unread[heap[b].owner] <= nsent[heap[b].owner]
    BY DEF Once, ReadOnceBy
  <1>3. heap'[b].qlen + unread'[heap[b].owner] <= nsent'[heap[b].owner]
    BY <1>1, <1>2
  <1>4. handled[heap[b].owner] = 0 \/ heap'[b].processed = Processed
    BY NoSecond DEF Once, ReadOnceBy
  <1> QED BY <1>3, <1>4 DEF ReadOnceBy

LEMMA OnceIf ==
    ASSUME Ownership, Ownership', Once, UNCHANGED <<handled, request>>,
           \A f \in Fd : sock'[f] \in {sock[f], NULL}, Waiting' \subseteq Waiting,
           \A b \in Live' : ReadOnceBy(b)'
    PROVE  Once'
  <1>1. SoleSocket'
    BY DEF Once, SoleSocket
  <1>2. ASSUME NEW f \in Waiting' PROVE handled'[sock'[f]] = 0
    <2>1. f \in Fd /\ sock'[f] # NULL
      BY DEF Ownership, Sockets, TypeOK, Waiting
    <2> QED BY <2>1 DEF Once, Unbegun
  <1> QED BY <1>1, <1>2 DEF Once, Unbegun, HandledOnce

LEMMA SteadyOnce ==
    ASSUME OutOfReach, Ownership, Ownership', Once, Steady
    PROVE  Once'
  <1>1. ASSUME NEW b \in Live' PROVE ReadOnceBy(b)'
    BY KeptOnce DEF Steady, KeptBy
  <1> QED BY <1>1, OnceIf DEF Steady, Waiting

LEMMA RtcMsgOnce ==
    ASSUME OutOfReach, Ownership, Ownership', Once, RtcMsg
    PROVE  Once'
  <1>1. PICK m : m = Head(q_msg)
    OBVIOUS
  <1>2. UNCHANGED <<handled, request, sock, q_conn, conns, unread, nsent>>
    BY DEF RtcMsg, clientVars, histVars
  <1>3. m \in Message /\ m.conn \in Addr /\ m.fd \in Fd /\ m.from \in Client
    <2>1. q_msg \in Seq(Message) /\ q_msg # <<>>
      BY DEF Ownership, TypeOK, RtcMsg
    <2>2. m \in Message
      BY <1>1, <2>1
    <2> QED BY <2>2 DEF Message
  <1>4. ASSUME NEW b \in Live'
        PROVE  /\ b \in Live /\ heap'[b].owner = heap[b].owner
               /\ heap'[b].qlen = heap[b].qlen /\ heap'[b].processed = heap[b].processed
    <2>1. CASE conns[m.fd] = m.conn
      <3>1. m.conn \in Live /\ heap[m.conn] \in TcpConnection
        BY <1>3, <2>1, LiveTypes, NullAssumption DEF Slots, Ownership
      <3>2. heap' = [heap EXCEPT ![m.conn] = WithReply(@, m.from)]
        BY <1>1, <2>1 DEF RtcMsg
      <3>3. /\ heap'[m.conn] = WithReply(heap[m.conn], m.from)
            /\ \A d \in Addr \ {m.conn} : heap'[d] = heap[d]
        BY <1>3, <3>2 DEF Ownership, TypeOK
      <3>4. RepliedTo(heap'[m.conn], heap[m.conn], m.from)
        BY <1>3, <3>1, <3>3, Replied
      <3> QED BY <3>1, <3>3, <3>4 DEF RepliedTo, Live
    <2>2. CASE conns[m.fd] # m.conn
      BY <1>1, <2>2 DEF RtcMsg, Live
    <2> QED BY <2>1, <2>2
  <1>5. ASSUME NEW b \in Live' PROVE ReadOnceBy(b)'
    BY <1>2, <1>4, <1>5 DEF Once, ReadOnceBy
  <1> QED BY <1>2, <1>5, OnceIf DEF Waiting

LEMMA NewConnOnce ==
    ASSUME Ownership, Ownership', Once, NewConn
    PROVE  Once'
  <1>1. PICK a \in Addr \ Live : heap' = [heap EXCEPT ![a] = NewConnection(Head(q_conn))]
    BY DEF NewConn
  <1>2. /\ UNCHANGED <<handled, request, sock, unread, nsent>>
        /\ q_conn \in Seq(Fd) /\ q_conn # <<>> /\ q_conn' = Tail(q_conn)
    BY DEF NewConn, clientVars, histVars, Ownership, TypeOK
  <1>3. PICK f : f = Head(q_conn)
    OBVIOUS
  <1>4. Waiting' \subseteq Waiting /\ f \in Waiting /\ f \in Fd
    <2>1. \A i \in 1 .. Len(q_conn') : i + 1 \in 1 .. Len(q_conn) /\ q_conn'[i] = q_conn[i + 1]
      BY <1>2
    <2>2. 1 \in 1 .. Len(q_conn) /\ f = q_conn[1] /\ f \in Fd
      BY <1>2, <1>3
    <2> QED BY <2>1, <2>2 DEF Waiting
  <1>5. heap'[a] = NewConnection(f) /\ \A b \in Addr \ {a} : heap'[b] = heap[b]
    BY <1>1, <1>3 DEF Ownership, TypeOK
  <1>6. heap'[a].owner = sock[f] /\ heap'[a].qlen = 0
    BY <1>5 DEF NewConnection
  <1>7. sock[f] \in Client
    BY <1>4 DEF Ownership, Sockets, TypeOK
  <1>8. ReadOnceBy(a)'
    <2>1. unread[sock[f]] <= nsent[sock[f]] /\ unread[sock[f]] \in Nat
      BY <1>7, Counts DEF Ownership, Clients
    <2>2. handled[sock[f]] = 0
      BY <1>4 DEF Once, Unbegun
    <2> QED BY <1>2, <1>6, <2>1, <2>2 DEF ReadOnceBy
  <1>9. ASSUME NEW b \in Live' PROVE ReadOnceBy(b)'
    <2>1. CASE b # a
      BY <1>2, <1>5, <2>1 DEF Live, Once, ReadOnceBy
    <2> QED BY <1>8, <2>1
  <1> QED BY <1>2, <1>4, <1>9, OnceIf

LEMMA AcceptOnce ==
    ASSUME Ownership, Ownership', Once, NEW c \in Client, accept_new_conn(c)
    PROVE  Once'
  <1>1. PICK r \in Request, f \in Fd :
            /\ sock[f] = NULL /\ request' = [request EXCEPT ![c] = r]
            /\ sock' = [sock EXCEPT ![f] = c] /\ q_conn' = Append(q_conn, f)
    BY DEF accept_new_conn, _dispatch_new_conn
  <1>2. /\ request[c] = NULL /\ UNCHANGED <<handled, heap, unread, nsent>>
    BY DEF accept_new_conn, histVars
  <1>3. sock'[f] = c /\ \A g \in Fd \ {f} : sock'[g] = sock[g]
    BY <1>1 DEF Ownership, TypeOK
  <1>4. request'[c] = r /\ r # NULL /\ \A d \in Client \ {c} : request'[d] = request[d]
    BY <1>1, NullAssumption DEF Ownership, TypeOK
  <1>5. \A g \in Fd : sock[g] # c
    BY <1>2, NullAssumption DEF Ownership, Clients
  <1>6. SoleSocket'
    BY <1>3, <1>5 DEF Once, SoleSocket
  <1>7. \A g \in Waiting' : g = f \/ g \in Waiting
    <2>1. q_conn \in Seq(Fd)
      BY DEF Ownership, TypeOK
    <2>2. \A i \in 1 .. Len(q_conn') :
              q_conn'[i] = f \/ (i \in 1 .. Len(q_conn) /\ q_conn'[i] = q_conn[i])
      BY <1>1, <2>1
    <2> QED BY <2>2 DEF Waiting
  <1>8. handled[c] = 0
    BY <1>2 DEF Once, Unbegun
  <1>9. Unbegun'
    <2>1. Waiting \subseteq Fd
      BY DEF Ownership, TypeOK, Waiting
    <2>2. ASSUME NEW g \in Waiting' PROVE handled'[sock'[g]] = 0
      BY <1>2, <1>3, <1>7, <1>8, <2>1, <2>2 DEF Once, Unbegun
    <2> QED BY <1>2, <1>4, <2>2 DEF Once, Unbegun
  <1> QED BY <1>2, <1>6, <1>9 DEF Once, HandledOnce, ReadOnceBy, Live

LEMMA RequestOnce ==
    ASSUME OutOfReach, Ownership, Ownership', Once, NEW a \in Addr, ProcessRequest(a)
    PROVE  Once'
  <1> DEFINE conn == heap[a]
             done == AfterRequest(conn)
             c == conn.owner
             f == conn.fd
  <1>1. /\ TypeOK /\ a \in Live /\ MoreToProcess(conn)
        /\ UNCHANGED <<request, unread, nsent, q_conn>>
    BY InHandler DEF Ownership, ProcessRequest, clientVars, queueVars
  <1>2. /\ conn \in TcpConnection /\ c \in Client /\ f \in Fd /\ conns[f] = a /\ a # NULL
        /\ sock[f] = c /\ c # NULL
    BY <1>1, LiveTypes, NullAssumption DEF Ownership, Slots
  <1>3. handled[c] = 0
    BY <1>1, NoSecond
  <1>4. handled'[c] = 1 /\ \A d \in Client \ {c} : handled'[d] = handled[d]
    BY <1>1, <1>2, <1>3 DEF ProcessRequest, TypeOK
  <1>5. \A g \in Fd : sock'[g] \in {sock[g], NULL}
    BY <1>1, Closing DEF ProcessRequest
  <1>6. SoleSocket' /\ HandledOnce'
    BY <1>4, <1>5 DEF Once, SoleSocket, HandledOnce
  <1>7. Unbegun'
    <2>1. request[c] # NULL
      BY <1>2 DEF Ownership, Clients
    <2>2. ASSUME NEW g \in Waiting' PROVE handled'[sock'[g]] = 0
      <3>1. g \in Waiting /\ g \in Fd /\ sock'[g] # NULL
        BY <1>1 DEF Ownership, Sockets, TypeOK, Waiting
      <3>2. sock'[g] = sock[g] /\ sock[g] \in Client /\ conns[g] = NULL
        BY <1>1, <1>5, <3>1 DEF Ownership, Sockets, TypeOK
      <3>3. sock[g] # c
        BY <1>2, <3>1, <3>2 DEF Once, SoleSocket
      <3> QED BY <1>4, <3>1, <3>2, <3>3 DEF Once, Unbegun
    <2> QED BY <1>1, <1>4, <2>1, <2>2 DEF Once, Unbegun
  <1>8. ASSUME NEW b \in Live, b # a PROVE heap[b].owner \in Client \ {c}
    BY <1>1, <1>8, LiveTypes, OwnersDiffer DEF Once
  <1>9. ASSUME NEW b \in Live, b # a, heap'[b] = heap[b] PROVE ReadOnceBy(b)'
    BY <1>1, <1>4, <1>8, <1>9 DEF Once, ReadOnceBy
  <1>10. ASSUME heap'[a].owner = c, heap'[a].qlen = conn.qlen, heap'[a].processed = Processed
         PROVE  ReadOnceBy(a)'
    BY <1>1, <1>10 DEF Once, ReadOnceBy
  <1>11. /\ done \in TcpConnection /\ done.owner = c /\ done.qlen = conn.qlen
         /\ done.processed = Processed
    BY <1>2, LengthAssumption DEF AfterRequest, TcpConnection
  <1>12. CASE CloseConn(a)
    <2>1. heap' = [heap EXCEPT ![a] = NULL]
      BY <1>12 DEF CloseConn
    <2>2. \A b \in Live' : b \in Live /\ b # a /\ heap'[b] = heap[b]
      BY <1>1, <2>1 DEF Live, TypeOK
    <2> QED BY <1>6, <1>7, <1>9, <2>2 DEF Once
  <1>13. CASE heap' = [heap EXCEPT ![a] = done]
    <2>1. heap'[a] = done /\ \A b \in Addr \ {a} : heap'[b] = heap[b]
      BY <1>1, <1>13 DEF TypeOK
    <2>2. ReadOnceBy(a)'
      BY <1>10, <1>11, <2>1
    <2>3. \A b \in Live' : b = a \/ (b \in Live /\ heap'[b] = heap[b])
      BY <2>1 DEF Live
    <2> QED BY <1>6, <1>7, <1>9, <2>2, <2>3 DEF Once
  <1>14. CASE heap' = [heap EXCEPT ![a] = WithReply(done, c)]
    <2>1. PICK x : x = WithReply(done, c)
      OBVIOUS
    <2>2. RepliedTo(x, done, c)
      BY <1>2, <1>11, <2>1, Replied
    <2>3. heap'[a] = x /\ \A b \in Addr \ {a} : heap'[b] = heap[b]
      BY <1>1, <1>14, <2>1 DEF TypeOK
    <2>4. x.owner = c /\ x.qlen = conn.qlen /\ x.processed = Processed
      BY <1>11, <2>2 DEF RepliedTo
    <2>5. ReadOnceBy(a)'
      BY <1>10, <2>3, <2>4
    <2>6. \A b \in Live' : b = a \/ (b \in Live /\ heap'[b] = heap[b])
      BY <2>3 DEF Live
    <2> QED BY <1>6, <1>7, <1>9, <2>5, <2>6 DEF Once
  <1> QED BY <1>12, <1>13, <1>14 DEF ProcessRequest

LEMMA InitOnce == Init => Once
  BY DEF Init, Once, SoleSocket, Unbegun, HandledOnce, Live, Waiting

LEMMA OnceInductive ==
    ASSUME OutOfReach, Ownership, Ownership', Once, [Next]_vars
    PROVE  Once'
  BY SteadyOr, SteadyOnce, RtcMsgOnce, NewConnOnce, AcceptOnce, RequestOnce

(* A request is handled at most once, as long as no client sends so much   *)
(* that _process_query_buffer() finds a second one behind bytes_processed. *)
THEOREM RequestsHandledOnce ==
    ASSUME OutOfReach PROVE Spec => []HandledOnce
  <1>1. Ownership /\ Once /\ [Next]_vars => (Ownership /\ Once)'
    BY OwnershipInductive, OnceInductive
  <1>2. Once => HandledOnce
    BY DEF Once
  <1> QED BY InitOwned, InitOnce, <1>1, <1>2, PTL DEF Spec

-----------------------------------------------------------------------------
(* What the client has of the reply, read or to be read.                   *)
Written(c) == received[c] + outbuf[c]

(* No answer to the client's request is still to come.                     *)
Settled(c) == \A m \in InFlight : m.from # c

(* The message of connection b's request.                                  *)
Ticket(b) == [conn |-> b, fd |-> heap[b].fd, from |-> heap[b].owner]

(* Nothing happens for a request that was not handled.                     *)
Quiet == \A c \in Client : handled[c] = 0 => Written(c) = 0 /\ Settled(c)

(* A client has one message, in one place.                                 *)
Alone ==
    /\ \A m, n \in backend : m.from = n.from => m = n
    /\ \A i, j \in 1 .. Len(q_msg) : q_msg[i].from = q_msg[j].from => i = j
    /\ \A m \in backend : \A i \in 1 .. Len(q_msg) : q_msg[i].from # m.from

(* Where the request of connection b is: not handled, with the rtc part or *)
(* dropped by it, its reply being written, or all written.                 *)
Stage(b) ==
    LET o == heap[b].owner
        r == heap[b].replies
    IN IF handled[o] = 0
       THEN r = <<>>
       ELSE \/ r = <<>> /\ Written(o) = 0 /\ Ticket(b) \in InFlight
            \/ /\ Settled(o)
               /\ \/ r = <<>> /\ Written(o) = 0 /\ o \in dropped
                  \/ Len(r) = 1 /\ Written(o) = heap[b].pos /\ "WRITE" \in heap[b].mask
                  \/ r = <<>> /\ Written(o) = ReplyLen

Course == Quiet /\ Alone /\ \A b \in Live : Stage(b)

(* Where in a queue of notifications those of kind t are.                  *)
Marks(s, t) == {i \in 1 .. Len(s) : s[i] = t}

(* What is in the two queues has its notification in the pipe.             *)
Announced == /\ Cardinality(Marks(pipe, "NEW_CONN")) = Len(q_conn)
             /\ Cardinality(Marks(pipe, "RTC_MSG")) = Len(q_msg)

-----------------------------------------------------------------------------
LEMMA MarksFinite ==
    ASSUME NEW S, NEW s \in Seq(S), NEW t
    PROVE  IsFiniteSet(Marks(s, t)) /\ Cardinality(Marks(s, t)) \in Nat
  <1>1. Len(s) \in Int /\ 1 \in Int /\ Marks(s, t) \in SUBSET (1 .. Len(s))
    BY DEF Marks
  <1>2. IsFiniteSet(1 .. Len(s))
    BY <1>1, FS_Interval
  <1>3. IsFiniteSet(Marks(s, t))
    BY <1>1, <1>2, FS_Subset
  <1> QED BY <1>3, FS_CardinalityType

LEMMA MarkAdded ==
    ASSUME NEW S, NEW s \in Seq(S), NEW x \in S, NEW t
    PROVE  Cardinality(Marks(Append(s, x), t))
              = IF x = t THEN Cardinality(Marks(s, t)) + 1 ELSE Cardinality(Marks(s, t))
  <1>1. PICK u : u = Append(s, x)
    OBVIOUS
  <1>2. /\ Len(s) \in Nat /\ Len(u) = Len(s) + 1 /\ u[Len(s) + 1] = x
        /\ \A i \in 1 .. Len(s) : u[i] = s[i]
    BY <1>1
  <1>3. Len(s) + 1 \notin Marks(s, t)
    BY <1>2 DEF Marks
  <1>4. CASE x = t
    <2>1. Marks(u, t) = Marks(s, t) \cup {Len(s) + 1}
      BY <1>2, <1>4 DEF Marks
    <2> QED BY <1>1, <1>3, <1>4, <2>1, MarksFinite, FS_AddElement
  <1>5. CASE x # t
    <2>1. Marks(u, t) = Marks(s, t)
      BY <1>2, <1>5 DEF Marks
    <2> QED BY <1>1, <1>5, <2>1
  <1> QED BY <1>4, <1>5

LEMMA MarkTaken ==
    ASSUME NEW S, NEW s \in Seq(S), s # <<>>, NEW t
    PROVE  Cardinality(Marks(Tail(s), t))
              = IF Head(s) = t THEN Cardinality(Marks(s, t)) - 1 ELSE Cardinality(Marks(s, t))
  <1>1. PICK u, n : u = Tail(s) /\ n = Len(s)
    OBVIOUS
  <1>2. /\ n \in Nat \ {0} /\ Len(u) = n - 1 /\ Head(s) = s[1] /\ u \in Seq(S)
        /\ \A i \in 1 .. n - 1 : u[i] = s[i + 1]
    BY <1>1
  <1>3. PICK f : f = [i \in Marks(u, t) |-> i + 1]
    OBVIOUS
  <1>4. f \in Bijection(Marks(u, t), Marks(s, t) \ {1})
    <2>1. \A i \in Marks(u, t) : f[i] = i + 1 /\ i \in 1 .. n - 1 /\ i + 1 \in Marks(s, t) \ {1}
      BY <1>1, <1>2, <1>3 DEF Marks
    <2>2. f \in [Marks(u, t) -> Marks(s, t) \ {1}]
      BY <1>3, <2>1
    <2>3. \A i, j \in Marks(u, t) : f[i] = f[j] => i = j
      BY <2>1
    <2>4. ASSUME NEW k \in Marks(s, t) \ {1} PROVE \E i \in Marks(u, t) : f[i] = k
      <3>1. k \in 2 .. n /\ k - 1 \in 1 .. n - 1 /\ (k - 1) + 1 = k /\ s[k] = t
        BY <1>1, <1>2 DEF Marks
      <3>2. k - 1 \in Marks(u, t)
        BY <1>2, <3>1 DEF Marks
      <3> QED BY <2>1, <3>1, <3>2
    <2> QED BY <2>2, <2>3, <2>4 DEF Bijection, Injection, Surjection, IsInjective
  <1>5. Cardinality(Marks(s, t) \ {1}) = Cardinality(Marks(u, t))
    BY <1>2, <1>4, MarksFinite, FS_Bijection DEF ExistsBijection
  <1>6. 1 \in Marks(s, t) <=> Head(s) = t
    BY <1>1, <1>2 DEF Marks
  <1>7. Cardinality(Marks(s, t) \ {1})
          = IF 1 \in Marks(s, t) THEN Cardinality(Marks(s, t)) - 1 ELSE Cardinality(Marks(s, t))
    BY MarksFinite, FS_RemoveElement
  <1> QED BY <1>1, <1>5, <1>6, <1>7

LEMMA InitAnnounced == Init => Announced
  <1> SUFFICES ASSUME Init PROVE Announced
    OBVIOUS
  <1>1. \A t : Marks(<<>>, t) = {}
    BY DEF Marks
  <1> QED BY <1>1, FS_EmptySet DEF Init, Announced

LEMMA AnnouncedInductive ==
    ASSUME Ownership, Announced, [Next]_vars
    PROVE  Announced'
  <1>1. /\ pipe \in Seq({"NEW_CONN", "RTC_MSG"}) /\ q_conn \in Seq(Fd) /\ q_msg \in Seq(Message)
        /\ backend \subseteq Message
    BY DEF Ownership, TypeOK
  <1>2. \A t : Cardinality(Marks(pipe, t)) \in Nat
    BY <1>1, MarksFinite
  <1>3. CASE UNCHANGED <<pipe, q_conn, q_msg>>
    BY <1>3 DEF Announced
  <1>4. ASSUME NEW c \in Client, accept_new_conn(c) PROVE Announced'
    <2>1. PICK f \in Fd : /\ q_conn' = Append(q_conn, f) /\ pipe' = Append(pipe, "NEW_CONN")
                          /\ q_msg' = q_msg
      BY <1>4 DEF accept_new_conn, _dispatch_new_conn
    <2>1a. "NEW_CONN" \in {"NEW_CONN", "RTC_MSG"}
      OBVIOUS
    <2>1b. \A t : Cardinality(Marks(Append(pipe, "NEW_CONN"), t))
                    = IF "NEW_CONN" = t THEN Cardinality(Marks(pipe, t)) + 1
                                        ELSE Cardinality(Marks(pipe, t))
      BY <1>1, <2>1a, MarkAdded
    <2>2. /\ Cardinality(Marks(pipe', "NEW_CONN")) = Cardinality(Marks(pipe, "NEW_CONN")) + 1
          /\ Cardinality(Marks(pipe', "RTC_MSG")) = Cardinality(Marks(pipe, "RTC_MSG"))
      BY <2>1, <2>1b
    <2>3. Len(q_conn') = Len(q_conn) + 1
      BY <1>1, <2>1
    <2> QED BY <2>1, <2>2, <2>3 DEF Announced
  <1>5. CASE RtcAnswer
    <2>1. PICK m \in Message : /\ q_msg' = Append(q_msg, m) /\ pipe' = Append(pipe, "RTC_MSG")
                               /\ q_conn' = q_conn
      BY <1>1, <1>5 DEF RtcAnswer
    <2>2. /\ Cardinality(Marks(pipe', "RTC_MSG")) = Cardinality(Marks(pipe, "RTC_MSG")) + 1
          /\ Cardinality(Marks(pipe', "NEW_CONN")) = Cardinality(Marks(pipe, "NEW_CONN"))
      BY <1>1, <2>1, MarkAdded
    <2>3. Len(q_msg') = Len(q_msg) + 1
      BY <1>1, <2>1
    <2> QED BY <2>1, <2>2, <2>3 DEF Announced
  <1>6. CASE NewConn
    <2>1. /\ pipe # <<>> /\ Head(pipe) = "NEW_CONN" /\ pipe' = Tail(pipe)
          /\ q_conn # <<>> /\ q_conn' = Tail(q_conn) /\ q_msg' = q_msg
      BY <1>6 DEF NewConn
    <2>2. /\ Cardinality(Marks(pipe', "NEW_CONN")) = Cardinality(Marks(pipe, "NEW_CONN")) - 1
          /\ Cardinality(Marks(pipe', "RTC_MSG")) = Cardinality(Marks(pipe, "RTC_MSG"))
      BY <1>1, <2>1, MarkTaken
    <2>3. Len(q_conn') = Len(q_conn) - 1
      BY <1>1, <2>1
    <2> QED BY <2>1, <2>2, <2>3 DEF Announced
  <1>7. CASE RtcMsg
    <2>1. /\ pipe # <<>> /\ Head(pipe) = "RTC_MSG" /\ pipe' = Tail(pipe)
          /\ q_msg # <<>> /\ q_msg' = Tail(q_msg) /\ q_conn' = q_conn
      BY <1>7 DEF RtcMsg
    <2>2. /\ Cardinality(Marks(pipe', "RTC_MSG")) = Cardinality(Marks(pipe, "RTC_MSG")) - 1
          /\ Cardinality(Marks(pipe', "NEW_CONN")) = Cardinality(Marks(pipe, "NEW_CONN"))
      BY <1>1, <2>1, MarkTaken
    <2>3. Len(q_msg') = Len(q_msg) - 1
      BY <1>1, <2>1
    <2> QED BY <2>1, <2>2, <2>3 DEF Announced
  <1>8. ASSUME NEW a \in Addr, ReadQuery(a) \/ WriteReply(a) \/ HandlerStep(a) \/ ProcessTimeout(a)
        PROVE  UNCHANGED <<pipe, q_conn, q_msg>>
    BY <1>8 DEF ReadQuery, WriteReply, HandlerStep, ProcessHead, ProcessRequest, ProcessDone,
                WriteSome, WriteDone, ProcessTimeout, queueVars
  <1>9. ASSUME NEW c \in Client, ClientSend(c) \/ ClientClose(c) \/ ClientRead(c)
        PROVE  UNCHANGED <<pipe, q_conn, q_msg>>
    BY <1>9 DEF ClientSend, ClientClose, ClientRead, queueVars
  <1>10. CASE WorkerNext
    BY <1>3, <1>6, <1>7, <1>8, <1>10 DEF WorkerNext
  <1>11. CASE ClientNext
    BY <1>3, <1>4, <1>9, <1>11 DEF ClientNext
  <1> QED BY <1>3, <1>5, <1>10, <1>11 DEF Next, RtcDrop, Elapse, Done, vars, queueVars

-----------------------------------------------------------------------------
LEMMA WrittenTypes == ASSUME Ownership, NEW c \in Client
                      PROVE  Written(c) \in Nat /\ received[c] \in Nat /\ outbuf[c] \in Nat
  <1>1. SockBuf \in Nat /\ outbuf[c] \in 0 .. SockBuf /\ received[c] \in Nat
    BY LengthAssumption DEF Ownership, TypeOK
  <1> QED BY <1>1 DEF Written

(* What a step leaves as it is that has nothing to do with b's request.    *)
SameReply(b) ==
    /\ b \in Live /\ heap'[b].owner = heap[b].owner /\ heap'[b].fd = heap[b].fd
    /\ heap'[b].replies = heap[b].replies /\ heap'[b].pos = heap[b].pos
    /\ heap[b].replies # <<>> /\ "WRITE" \in heap[b].mask => "WRITE" \in heap'[b].mask

SameRequest(c) ==
    /\ handled'[c] = handled[c] /\ Written(c)' = Written(c)
    /\ c \in dropped => c \in dropped'
    /\ \A m \in Message : m.from = c => (m \in InFlight <=> m \in InFlight')

LEMMA StageKept ==
    ASSUME Ownership, Ownership', Course, NEW b, SameReply(b),
           NEW o \in Client, o = heap[b].owner, SameRequest(o)
    PROVE  Stage(b)'
  <1>2. b \in Live /\ heap'[b].owner = o /\ heap[b].fd \in Fd /\ b \in Addr
    BY LiveTypes DEF SameReply, Ownership
  <1>3. Ticket(b) \in Message /\ Ticket(b).from = o /\ Ticket(b)' = Ticket(b)
    BY <1>2 DEF Ticket, Message, SameReply
  <1>4. Ticket(b)' \in InFlight' <=> Ticket(b) \in InFlight
    BY <1>3 DEF SameRequest
  <1>5. Settled(o)' <=> Settled(o)
    <2>1. InFlight \subseteq Message
      BY InFlightTypes
    <2>2. InFlight' \subseteq Message
      BY DEF InFlight, Ownership, TypeOK
    <2> QED BY <2>1, <2>2 DEF SameRequest, Settled
  <1>6. Stage(b)
    BY <1>2 DEF Course
  <1>7. handled'[o] = handled[o] /\ Written(o)' = Written(o) /\ (o \in dropped => o \in dropped')
    BY DEF SameRequest
  <1>8. Len(heap[b].replies) = 1 => heap[b].replies # <<>>
    OBVIOUS
  <1> QED BY <1>2, <1>4, <1>5, <1>6, <1>7, <1>8 DEF Stage, SameReply

Calm ==
    /\ UNCHANGED <<backend, q_msg, handled, dropped>>
    /\ \A c \in Client : Written(c)' = Written(c)
    /\ \A b \in Live' : SameReply(b) \/ (handled[heap'[b].owner] = 0 /\ heap'[b].replies = <<>>)

LEMMA CalmCourse ==
    ASSUME Ownership, Ownership', Course, Calm
    PROVE  Course'
  <1>1. InFlight' = InFlight
    BY DEF Calm, InFlight
  <1>2. \A c \in Client : SameRequest(c)
    BY <1>1 DEF Calm, SameRequest
  <1>3. Quiet'
    BY <1>1 DEF Calm, Course, Quiet, Settled
  <1>4. Alone'
    BY DEF Calm, Course, Alone
  <1>5. ASSUME NEW b \in Live' PROVE Stage(b)'
    <2>1. CASE SameReply(b)
      <3>1. heap[b].owner \in Client
        BY <2>1, LiveTypes DEF SameReply, Ownership
      <3> QED BY <1>2, <2>1, <3>1, StageKept
    <2>2. CASE handled[heap'[b].owner] = 0 /\ heap'[b].replies = <<>>
      BY <2>2 DEF Calm, Stage
    <2> QED BY <2>1, <2>2 DEF Calm
  <1> QED BY <1>3, <1>4, <1>5 DEF Course

LEMMA SameHeapSame == ASSUME NEW b \in Live, heap'[b] = heap[b] PROVE SameReply(b)
  BY DEF SameReply

(* What has been read or is to be read stays.                              *)
Unwritten == \A c \in Client : Written(c)' = Written(c)

LEMMA CloseCalm ==
    ASSUME Ownership, NEW a \in Live, CloseConn(a), Unwritten,
           UNCHANGED <<backend, q_msg, handled, dropped>>
    PROVE  Calm
  <1>1. a \in Addr /\ heap' = [heap EXCEPT ![a] = NULL] /\ heap \in [Addr -> TcpConnection \cup {NULL}]
    BY LiveTypes DEF Ownership, TypeOK, CloseConn
  <1>2. \A b \in Live' : b \in Live /\ heap'[b] = heap[b]
    BY <1>1 DEF Live
  <1> QED BY <1>2, SameHeapSame DEF Calm, Unwritten

LEMMA OneCalm ==
    ASSUME Ownership, NEW a \in Live, SameReply(a), \A b \in Addr \ {a} : heap'[b] = heap[b],
           Unwritten, UNCHANGED <<backend, q_msg, handled, dropped>>
    PROVE  Calm
  <1>1. \A b \in Live' : b = a \/ (b \in Live /\ heap'[b] = heap[b])
    BY DEF Live
  <1> QED BY <1>1, SameHeapSame DEF Calm, Unwritten

LEMMA HeapCalm ==
    ASSUME Unwritten, UNCHANGED <<heap, backend, q_msg, handled, dropped>>
    PROVE  Calm
  <1>1. \A b \in Live' : b \in Live /\ heap'[b] = heap[b]
    BY DEF Live
  <1> QED BY <1>1, SameHeapSame DEF Calm, Unwritten

LEMMA StillUnwritten == ASSUME UNCHANGED <<received, outbuf>> PROVE Unwritten
  BY DEF Unwritten, Written

LEMMA ClientCalm ==
    ASSUME Ownership, NEW c \in Client,
           accept_new_conn(c) \/ ClientSend(c) \/ ClientClose(c) \/ ClientRead(c)
    PROVE  Calm
  <1>1. UNCHANGED <<heap, backend, q_msg, handled, dropped>>
    BY DEF accept_new_conn, ClientSend, ClientClose, ClientRead, queueVars, histVars
  <1>2. CASE ClientRead(c)
    <2>1. /\ \A d \in Client : received[d] \in Nat /\ outbuf[d] \in Nat
          /\ outbuf \in [Client -> 0 .. SockBuf] /\ received \in [Client -> Nat]
      BY WrittenTypes DEF Ownership, TypeOK
    <2>2. outbuf' = [outbuf EXCEPT ![c] = @ - 1] /\ received' = [received EXCEPT ![c] = @ + 1]
      BY <1>2 DEF ClientRead
    <2>3. ASSUME NEW d \in Client PROVE received'[d] + outbuf'[d] = received[d] + outbuf[d]
      <3>1. CASE d = c
        BY <2>1, <2>2, <3>1
      <3>2. CASE d # c
        BY <2>1, <2>2, <3>2
      <3> QED BY <3>1, <3>2
    <2> QED BY <1>1, <2>3, HeapCalm DEF Unwritten, Written
  <1>3. CASE ~ ClientRead(c)
    BY <1>1, <1>3, StillUnwritten, HeapCalm
       DEF accept_new_conn, ClientSend, ClientClose, histVars
  <1> QED BY <1>2, <1>3

LEMMA NewConnCalm ==
    ASSUME Ownership, Once, NewConn
    PROVE  Calm
  <1>1. PICK a \in Addr \ Live : heap' = [heap EXCEPT ![a] = NewConnection(Head(q_conn))]
    BY DEF NewConn
  <1>2. /\ q_conn \in Seq(Fd) /\ q_conn # <<>>
        /\ UNCHANGED <<backend, q_msg, handled, dropped, received, outbuf>>
    BY DEF NewConn, histVars, Ownership, TypeOK
  <1>3. PICK f : f = Head(q_conn)
    OBVIOUS
  <1>4. f \in Waiting
    <2>1. 1 \in 1 .. Len(q_conn) /\ f = q_conn[1]
      BY <1>2, <1>3
    <2> QED BY <2>1 DEF Waiting
  <1>5. heap'[a] = NewConnection(f) /\ \A b \in Addr \ {a} : heap'[b] = heap[b]
    BY <1>1, <1>3 DEF Ownership, TypeOK
  <1>6. heap'[a].owner = sock[f] /\ heap'[a].replies = <<>>
    BY <1>5 DEF NewConnection
  <1>7. handled[sock[f]] = 0
    BY <1>4 DEF Once, Unbegun
  <1>8. \A b \in Live' : b = a \/ (b \in Live /\ heap'[b] = heap[b])
    BY <1>5 DEF Live
  <1> QED BY <1>2, <1>6, <1>7, <1>8, SameHeapSame, StillUnwritten DEF Calm, Unwritten

LEMMA ReadCalm ==
    ASSUME Ownership, NEW a \in Addr, ReadQuery(a)
    PROVE  Calm
  <1>1. a \in Live /\ UNCHANGED <<backend, q_msg, handled, dropped, received, outbuf>>
    BY DEF ReadQuery, queueVars, histVars
  <1>2. heap \in [Addr -> TcpConnection \cup {NULL}] /\ heap[a] \in TcpConnection
    BY <1>1, LiveTypes DEF Ownership, TypeOK
  <1>3. PICK c, n : c = heap[a].owner /\ n = sock_read_data(c)
    OBVIOUS
  <1>4. CASE heap' = [heap EXCEPT ![a].qlen = @ + n, ![a].stale = FALSE]
    <2>1. /\ heap'[a] = [heap[a] EXCEPT !.qlen = @ + n, !.stale = FALSE]
          /\ \A b \in Addr \ {a} : heap'[b] = heap[b]
      BY <1>2, <1>4
    <2>2. SameReply(a)
      BY <1>1, <1>2, <2>1 DEF TcpConnection, SameReply
    <2> QED BY <1>1, <2>1, <2>2, OneCalm, StillUnwritten
  <1>5. CASE CloseConn(a)
    BY <1>1, <1>5, CloseCalm, StillUnwritten
  <1> QED BY <1>3, <1>4, <1>5 DEF ReadQuery

LEMMA HeadCalm ==
    ASSUME Ownership, NEW a \in Addr, ProcessHead(a)
    PROVE  Calm
  <1>1. a \in Live /\ UNCHANGED <<backend, q_msg, handled, dropped, received, outbuf>>
    BY InHandler DEF ProcessHead, queueVars, histVars
  <1>2. heap \in [Addr -> TcpConnection \cup {NULL}] /\ heap[a] \in TcpConnection
    BY <1>1, LiveTypes DEF Ownership, TypeOK
  <1>3. PICK r : r = request[heap[a].owner]
    OBVIOUS
  <1>4. CASE heap' = [heap EXCEPT ![a].state = "BODY", ![a].processed = r.body]
    <2>1. /\ heap'[a] = [heap[a] EXCEPT !.state = "BODY", !.processed = r.body]
          /\ \A b \in Addr \ {a} : heap'[b] = heap[b]
      BY <1>2, <1>4
    <2>2. SameReply(a)
      BY <1>1, <1>2, <2>1 DEF TcpConnection, SameReply
    <2> QED BY <1>1, <2>1, <2>2, OneCalm, StillUnwritten
  <1>5. CASE CloseConn(a)
    BY <1>1, <1>5, CloseCalm, StillUnwritten
  <1> QED BY <1>3, <1>4, <1>5 DEF ProcessHead

LEMMA FlagsCalm ==
    ASSUME Ownership, NEW a \in Addr, WriteDone(a) \/ Elapse(a)
    PROVE  Calm
  <1>1. a \in Live /\ UNCHANGED <<backend, q_msg, handled, dropped, received, outbuf>>
    BY InHandler DEF WriteDone, Elapse, queueVars, histVars
  <1>2. heap \in [Addr -> TcpConnection \cup {NULL}] /\ heap[a] \in TcpConnection
    BY <1>1, LiveTypes DEF Ownership, TypeOK
  <1>3. SameReply(a) /\ \A b \in Addr \ {a} : heap'[b] = heap[b]
    <2>1. CASE WriteDone(a)
      <3>1. /\ heap'[a] = [heap[a] EXCEPT !.mask = @ \ {"WRITE"}, !.stale = FALSE]
            /\ \A b \in Addr \ {a} : heap'[b] = heap[b]
            /\ heap[a].replies = <<>>
        BY <1>2, <2>1 DEF WriteDone
      <3> QED BY <1>1, <1>2, <3>1 DEF TcpConnection, SameReply
    <2>2. CASE Elapse(a)
      <3>1. /\ heap'[a] = [heap[a] EXCEPT !.stale = TRUE]
            /\ \A b \in Addr \ {a} : heap'[b] = heap[b]
        BY <1>2, <2>2 DEF Elapse
      <3> QED BY <1>1, <1>2, <3>1 DEF TcpConnection, SameReply
    <2> QED BY <2>1, <2>2
  <1> QED BY <1>1, <1>3, OneCalm, StillUnwritten

(* A round of the write loop that writes.                                  *)
Writes(a) == WriteSome(a) /\ ~ CloseConn(a)

(* Every step but these five is calm.                                      *)
LEMMA CalmOr ==
    ASSUME Ownership, Once, [Next]_vars
    PROVE  \/ Calm \/ RtcAnswer \/ RtcDrop \/ RtcMsg
           \/ \E a \in Addr : ProcessRequest(a) \/ Writes(a)
  <1>1. CASE ClientNext
    BY <1>1, ClientCalm DEF ClientNext
  <1>2. ASSUME NEW a \in Addr, HandlerStep(a) PROVE Calm \/ ProcessRequest(a) \/ Writes(a)
    <2>1. CASE ProcessHead(a)
      BY <2>1, HeadCalm
    <2>2. CASE ProcessDone(a)
      BY <2>2, HeapCalm, StillUnwritten DEF ProcessDone, queueVars, histVars
    <2>3. CASE WriteSome(a) /\ CloseConn(a)
      <3>1. /\ a \in Live /\ heap[a].replies # <<>>
            /\ UNCHANGED <<backend, q_msg, handled, dropped, received>>
        BY <2>3, InHandler DEF WriteSome, queueVars, histVars
      <3>2. CASE outbuf' = outbuf
        BY <2>3, <3>1, <3>2, CloseCalm, StillUnwritten
      <3>3. CASE UNCHANGED sock
        <4>1. heap[a].fd \in Fd /\ a # NULL /\ conns[heap[a].fd] = a
          BY <3>1, LiveTypes DEF Ownership, Slots
        <4>2. sock[heap[a].fd] # NULL
          BY <4>1 DEF Ownership, Sockets
        <4>3. sock'[heap[a].fd] = NULL
          BY <2>3, <4>1 DEF CloseConn, Ownership, TypeOK
        <4> QED BY <3>3, <4>2, <4>3
      <3> QED BY <2>3, <3>2, <3>3 DEF WriteSome
    <2>4. CASE WriteDone(a)
      BY <2>4, FlagsCalm
    <2> QED BY <1>2, <2>1, <2>2, <2>3, <2>4 DEF HandlerStep, Writes
  <1>3. ASSUME NEW a \in Addr, ReadQuery(a) \/ WriteReply(a) \/ ProcessTimeout(a) PROVE Calm
    <2>1. CASE WriteReply(a)
      BY <2>1, HeapCalm, StillUnwritten DEF WriteReply, queueVars, histVars
    <2>2. CASE ProcessTimeout(a)
      BY <2>2, CloseCalm, StillUnwritten DEF ProcessTimeout, queueVars, histVars
    <2> QED BY <1>3, <2>1, <2>2, ReadCalm
  <1>4. CASE WorkerNext
    BY <1>2, <1>3, <1>4, NewConnCalm DEF WorkerNext
  <1>5. ASSUME NEW a \in Addr, Elapse(a) PROVE Calm
    BY <1>5, FlagsCalm
  <1>6. CASE UNCHANGED vars
    BY <1>6, HeapCalm, StillUnwritten DEF vars, queueVars, histVars
  <1>7. CASE Done
    BY <1>6, <1>7 DEF Done
  <1> QED BY <1>1, <1>4, <1>5, <1>6, <1>7 DEF Next

(* Other connections and other clients are not concerned.                  *)
LEMMA OthersStaged ==
    ASSUME Ownership, Ownership', Once, Course, NEW a \in Live,
           \A d \in Client : d # heap[a].owner => SameRequest(d),
           NEW b \in Live, b # a, heap'[b] = heap[b]
    PROVE  Stage(b)'
  <1>1. PICK o : o = heap[b].owner
    OBVIOUS
  <1>2. o \in Client /\ o # heap[a].owner
    BY <1>1, LiveTypes, OwnersDiffer DEF Ownership, Once
  <1> QED BY <1>1, <1>2, StageKept, SameHeapSame

LEMMA AnswerCourse ==
    ASSUME Ownership, Ownership', Course, RtcAnswer
    PROVE  Course'
  <1>1. PICK m \in backend : backend' = backend \ {m} /\ q_msg' = Append(q_msg, m)
    BY DEF RtcAnswer
  <1>2. /\ UNCHANGED <<heap, handled, received, outbuf, dropped>>
        /\ q_msg \in Seq(Message) /\ m \in Message /\ backend \subseteq Message
    BY DEF RtcAnswer, histVars, Ownership, TypeOK
  <1>3. /\ Len(q_msg) \in Nat /\ Len(q_msg') = Len(q_msg) + 1 /\ q_msg'[Len(q_msg) + 1] = m
        /\ \A i \in 1 .. Len(q_msg) : q_msg'[i] = q_msg[i]
    BY <1>1, <1>2
  <1>4. \A i \in 1 .. Len(q_msg') : i \in 1 .. Len(q_msg) \/ i = Len(q_msg) + 1
    BY <1>3
  <1>5. InFlight' = InFlight
    <2>1. ASSUME NEW n \in InFlight PROVE n \in InFlight'
      <3>1. CASE n = m
        BY <1>3, <3>1 DEF InFlight
      <3>2. CASE n \in backend /\ n # m
        BY <1>1, <3>2 DEF InFlight
      <3>3. CASE \E i \in 1 .. Len(q_msg) : n = q_msg[i]
        BY <1>3, <3>3 DEF InFlight
      <3> QED BY <3>1, <3>2, <3>3 DEF InFlight
    <2>2. ASSUME NEW n \in InFlight' PROVE n \in InFlight
      BY <1>1, <1>3, <1>4 DEF InFlight
    <2> QED BY <2>1, <2>2
  <1>6. Alone'
    <2>1. \A n, k \in backend' : n.from = k.from => n = k
      BY <1>1 DEF Course, Alone
    <2>2. ASSUME NEW i \in 1 .. Len(q_msg'), NEW j \in 1 .. Len(q_msg'), q_msg'[i].from = q_msg'[j].from
          PROVE  i = j
      <3>1. CASE i \in 1 .. Len(q_msg) /\ j \in 1 .. Len(q_msg)
        BY <1>3, <2>2, <3>1 DEF Course, Alone
      <3>2. CASE i \in 1 .. Len(q_msg) /\ j = Len(q_msg) + 1
        BY <1>1, <1>3, <2>2, <3>2 DEF Course, Alone
      <3>3. CASE i = Len(q_msg) + 1 /\ j \in 1 .. Len(q_msg)
        BY <1>1, <1>3, <2>2, <3>3 DEF Course, Alone
      <3> QED BY <1>4, <3>1, <3>2, <3>3
    <2>3. ASSUME NEW n \in backend', NEW i \in 1 .. Len(q_msg') PROVE q_msg'[i].from # n.from
      <3>1. n \in backend /\ n # m
        BY <1>1
      <3>2. CASE i = Len(q_msg) + 1
        BY <1>1, <1>3, <3>1, <3>2 DEF Course, Alone
      <3>3. CASE i \in 1 .. Len(q_msg)
        BY <1>3, <3>1, <3>3 DEF Course, Alone
      <3> QED BY <1>4, <3>2, <3>3
    <2> QED BY <2>1, <2>2, <2>3 DEF Alone
  <1>7. Quiet' /\ \A c \in Client : SameRequest(c)
    BY <1>2, <1>5 DEF Course, Quiet, Settled, Written, SameRequest
  <1>8. ASSUME NEW b \in Live' PROVE Stage(b)'
    <2>1. PICK o : o = heap[b].owner
      OBVIOUS
    <2>2. b \in Live /\ o \in Client
      BY <1>2, <2>1, LiveTypes DEF Live, Ownership
    <2> QED BY <1>2, <1>7, <2>1, <2>2, StageKept, SameHeapSame
  <1> QED BY <1>6, <1>7, <1>8 DEF Course

(* The only message of a client is taken away.                             *)
Withdrawn(m) ==
    /\ m \in InFlight
    /\ \A n \in InFlight' : n \in InFlight /\ n.from # m.from
    /\ \A n \in InFlight : n = m \/ n \in InFlight'
    /\ UNCHANGED handled

LEMMA WithdrawnOthers ==
    ASSUME Ownership, Course, NEW m, Withdrawn(m), Unwritten, dropped \subseteq dropped'
    PROVE  Quiet' /\ \A d \in Client : d # m.from => SameRequest(d)
  <1>1. Quiet'
    BY DEF Course, Quiet, Withdrawn, Settled, Unwritten
  <1>2. \A d \in Client : d # m.from => SameRequest(d)
    BY DEF Withdrawn, SameRequest, Unwritten
  <1> QED BY <1>1, <1>2

LEMMA DropCourse ==
    ASSUME Ownership, Ownership', Course, RtcDrop
    PROVE  Course'
  <1>1. PICK m \in backend : backend' = backend \ {m} /\ dropped' = dropped \cup {m.from}
    BY DEF RtcDrop
  <1>2. UNCHANGED <<heap, handled, received, outbuf, q_msg>>
    BY DEF RtcDrop, queueVars
  <1>3. Withdrawn(m)
    BY <1>1, <1>2 DEF Course, Alone, InFlight, Withdrawn
  <1>4. Alone'
    BY <1>1, <1>2 DEF Course, Alone
  <1>5. Unwritten /\ dropped \subseteq dropped'
    BY <1>1, <1>2, StillUnwritten
  <1>6. Quiet' /\ \A d \in Client : d # m.from => SameRequest(d)
    BY <1>3, <1>5, WithdrawnOthers
  <1>7. m \in InFlight /\ m.from \in Client
    BY <1>3, InFlightTypes DEF Withdrawn
  <1>8. ASSUME NEW b \in Live' PROVE Stage(b)'
    <2>1. PICK o : o = heap[b].owner
      OBVIOUS
    <2>2. b \in Live /\ o \in Client
      BY <1>2, <2>1, LiveTypes DEF Live, Ownership
    <2>3. CASE o # m.from
      BY <1>2, <1>6, <2>1, <2>2, <2>3, StageKept, SameHeapSame
    <2>4. CASE o = m.from
      <3>1. ~ Settled(o) /\ Settled(o)'
        BY <1>3, <1>7, <2>4 DEF Settled, Withdrawn
      <3>2. handled[o] # 0
        BY <2>2, <3>1 DEF Course, Quiet
      <3>3. heap[b].replies = <<>> /\ Written(o) = 0
        BY <2>1, <2>2, <3>1, <3>2 DEF Course, Stage
      <3>4. Written(o)' = 0
        BY <1>5, <2>2, <3>3 DEF Unwritten
      <3> QED BY <1>1, <1>2, <2>1, <2>4, <3>1, <3>3, <3>4 DEF Stage
    <2> QED BY <2>3, <2>4
  <1> QED BY <1>4, <1>6, <1>8 DEF Course

(* The message is taken, and if its connection is there, answered.         *)
LEMMA MsgCourse ==
    ASSUME Ownership, Ownership', Answering, Once, Course, RtcMsg
    PROVE  Course'
  <1>1. PICK m : m = Head(q_msg)
    OBVIOUS
  <1>2. /\ TypeOK /\ Slots /\ q_msg \in Seq(Message) /\ q_msg # <<>> /\ q_msg' = Tail(q_msg)
        /\ UNCHANGED <<backend, conns, handled, received, outbuf, dropped>>
    BY DEF Ownership, TypeOK, RtcMsg, histVars
  <1>3. /\ Len(q_msg) \in Nat \ {0} /\ Len(q_msg') = Len(q_msg) - 1 /\ m = q_msg[1]
        /\ \A i \in 1 .. Len(q_msg') : i + 1 \in 2 .. Len(q_msg) /\ q_msg'[i] = q_msg[i + 1]
    BY <1>1, <1>2
  <1>4. Withdrawn(m)
    <2>1. 1 \in 1 .. Len(q_msg)
      BY <1>3
    <2>2. \A i \in 2 .. Len(q_msg) : i \in 1 .. Len(q_msg) /\ q_msg[i].from # m.from
      BY <1>3 DEF Course, Alone
    <2>3. \A n \in backend : n.from # m.from
      BY <1>3, <2>1 DEF Course, Alone
    <2>4. \A n \in InFlight' : n \in InFlight /\ n.from # m.from
      BY <1>2, <1>3, <2>2, <2>3 DEF InFlight
    <2>5. ASSUME NEW i \in 1 .. Len(q_msg) PROVE q_msg[i] = m \/ q_msg[i] \in InFlight'
      <3>1. CASE i # 1
        <4>1. i - 1 \in 1 .. Len(q_msg') /\ q_msg'[i - 1] = q_msg[i]
          BY <1>3, <3>1
        <4> QED BY <4>1 DEF InFlight
      <3> QED BY <1>3, <3>1
    <2>6. \A n \in InFlight : n = m \/ n \in InFlight'
      BY <1>2, <2>5 DEF InFlight
    <2>7. m \in InFlight
      BY <1>3, <2>1 DEF InFlight
    <2> QED BY <1>2, <2>4, <2>6, <2>7 DEF Withdrawn
  <1>5. Alone'
    BY <1>2, <1>3 DEF Course, Alone
  <1>6. Unwritten /\ dropped \subseteq dropped'
    BY <1>2, StillUnwritten
  <1>7. Quiet' /\ \A d \in Client : d # m.from => SameRequest(d)
    BY <1>4, <1>6, WithdrawnOthers
  <1>8. m \in InFlight /\ m.from \in Client /\ m.conn \in Addr /\ m.fd \in Fd /\ m \in Message
    BY <1>4, InFlightTypes DEF Withdrawn
  <1>9. handled[m.from] # 0 /\ ~ Settled(m.from) /\ Settled(m.from)'
    BY <1>4, <1>8 DEF Course, Quiet, Settled, Withdrawn
  (* Who waits for this message has the connection it names.               *)
  <1>10. ASSUME NEW b \in Live, heap[b].owner = m.from
         PROVE  /\ conns[m.fd] = m.conn /\ b = m.conn
                /\ heap[b].replies = <<>> /\ Written(m.from) = 0
    <2>1. Ticket(b) \in InFlight /\ heap[b].replies = <<>> /\ Written(m.from) = 0
      BY <1>9, <1>10 DEF Course, Stage
    <2>2. Ticket(b) = m
      <3>1. Ticket(b).from = m.from
        BY <1>10 DEF Ticket
      <3> QED BY <1>4, <2>1, <3>1 DEF Withdrawn
    <2>3. m.conn = b /\ m.fd = heap[b].fd
      BY <2>2 DEF Ticket
    <2> QED BY <1>2, <2>1, <2>3 DEF Slots
  <1>11. CASE conns[m.fd] = m.conn
    <2>1. m.conn \in Live /\ heap[m.conn] \in TcpConnection
      BY <1>2, <1>8, <1>11, LiveTypes, NullAssumption DEF Slots
    <2>2. heap' = [heap EXCEPT ![m.conn] = WithReply(@, m.from)]
      BY <1>1, <1>11 DEF RtcMsg
    <2>3. /\ heap'[m.conn] = WithReply(heap[m.conn], m.from)
          /\ \A b \in Addr \ {m.conn} : heap'[b] = heap[b]
      BY <1>2, <1>8, <2>2 DEF TypeOK
    <2>4. RepliedTo(heap'[m.conn], heap[m.conn], m.from)
      BY <1>8, <2>1, <2>3, Replied
    <2>5. heap[m.conn].owner = m.from
      BY <1>8, <2>1 DEF Answering, Genuine
    <2>6. heap[m.conn].replies = <<>> /\ Written(m.from) = 0
      BY <1>10, <2>1, <2>5
    <2>7. heap[m.conn].pos = 0
      BY <2>1, <2>6 DEF Ownership, PosInside
    <2>8. Written(m.from)' = 0
      BY <1>6, <1>8, <2>6 DEF Unwritten
    <2>9. /\ Len(heap'[m.conn].replies) = 1 /\ heap'[m.conn].pos = 0
          /\ "WRITE" \in heap'[m.conn].mask /\ heap'[m.conn].owner = m.from
      <3>1. PICK r : r = [for |-> m.from, header |-> heap[m.conn].qlen >= XHEAD_SIZE]
        OBVIOUS
      <3>2. heap'[m.conn].replies = Append(<<>>, r)
        BY <2>4, <2>6, <3>1 DEF RepliedTo
      <3>3. Len(Append(<<>>, r)) = 1
        OBVIOUS
      <3>4. Len(heap'[m.conn].replies) = 1
        BY <3>2, <3>3
      <3>5. /\ heap'[m.conn].pos = heap[m.conn].pos /\ "WRITE" \in heap'[m.conn].mask
            /\ heap'[m.conn].owner = heap[m.conn].owner
        BY <2>4 DEF RepliedTo
      <3> QED BY <2>5, <2>7, <3>4, <3>5
    <2>10. Stage(m.conn)'
      BY <1>2, <1>9, <2>8, <2>9 DEF Stage
    <2>11. ASSUME NEW b \in Live', b # m.conn PROVE Stage(b)'
      <3>1. b \in Live /\ heap'[b] = heap[b]
        BY <2>3, <2>11 DEF Live
      <3> QED BY <1>7, <2>1, <2>5, <2>11, <3>1, OthersStaged
    <2> QED BY <1>5, <1>7, <2>10, <2>11 DEF Course
  <1>12. CASE conns[m.fd] # m.conn
    <2>1. heap' = heap
      BY <1>1, <1>12 DEF RtcMsg
    <2>2. ASSUME NEW b \in Live' PROVE Stage(b)'
      <3>1. PICK o : o = heap[b].owner
        OBVIOUS
      <3>2. b \in Live /\ o \in Client
        BY <2>1, <3>1, LiveTypes DEF Live, Ownership
      <3>3. o # m.from
        BY <1>10, <1>12, <3>1, <3>2
      <3> QED BY <1>7, <2>1, <3>1, <3>2, <3>3, StageKept, SameHeapSame
    <2> QED BY <1>5, <1>7, <2>2 DEF Course
  <1> QED BY <1>11, <1>12

LEMMA RequestCourse ==
    ASSUME OutOfReach, Ownership, Ownership', Once, Course, NEW a \in Addr, ProcessRequest(a)
    PROVE  Course'
  <1>1. PICK conn, done, c : conn = heap[a] /\ done = AfterRequest(conn) /\ c = conn.owner
    OBVIOUS
  <1>2. /\ TypeOK /\ a \in Live /\ MoreToProcess(conn)
        /\ UNCHANGED <<q_msg, received, outbuf, dropped>>
    BY <1>1, InHandler DEF Ownership, ProcessRequest, queueVars
  <1>3. conn \in TcpConnection /\ c \in Client /\ conn.fd \in Fd
    BY <1>1, <1>2, LiveTypes
  <1>4. handled[c] = 0
    BY <1>1, <1>2, NoSecond
  <1>5. handled'[c] = 1 /\ \A d \in Client \ {c} : handled'[d] = handled[d]
    BY <1>1, <1>2, <1>3, <1>4 DEF ProcessRequest, TypeOK
  <1>6. Written(c) = 0 /\ Settled(c) /\ conn.replies = <<>> /\ conn.pos = 0
    <2>1. Written(c) = 0 /\ Settled(c)
      BY <1>3, <1>4 DEF Course, Quiet
    <2>2. conn.replies = <<>>
      BY <1>1, <1>2, <1>4 DEF Course, Stage
    <2> QED BY <1>1, <1>2, <2>1, <2>2 DEF Ownership, PosInside
  <1>7. Unwritten
    BY <1>2, StillUnwritten
  <1>8. Written(c)' = 0
    BY <1>3, <1>6, <1>7 DEF Unwritten
  <1>9. /\ done \in TcpConnection /\ done.fd = conn.fd /\ done.owner = c
        /\ done.replies = <<>> /\ done.pos = 0
    BY <1>1, <1>3, <1>6, LengthAssumption DEF AfterRequest, TcpConnection
  (* Messages of other clients are not concerned.                          *)
  <1>10. ASSUME NEW x, x.from = c,
                backend' = backend \/ backend' = backend \cup {x}
         PROVE  Quiet' /\ \A d \in Client : d # c => SameRequest(d)
    <2>1. \A n : n \in InFlight' => n \in InFlight \/ n = x
      BY <1>2, <1>10 DEF InFlight
    <2>2. InFlight \subseteq InFlight'
      BY <1>2, <1>10 DEF InFlight
    <2>3. ASSUME NEW d \in Client, d # c PROVE SameRequest(d)
      BY <1>2, <1>5, <1>7, <1>10, <2>1, <2>2, <2>3 DEF SameRequest, Unwritten
    <2>4. ASSUME NEW d \in Client, handled'[d] = 0 PROVE Written(d)' = 0 /\ Settled(d)'
      <3>1. d # c /\ handled[d] = 0
        BY <1>5, <2>4
      <3>2. Written(d) = 0 /\ Settled(d)
        BY <3>1 DEF Course, Quiet
      <3> QED BY <1>7, <1>10, <2>1, <3>1, <3>2 DEF Unwritten, Settled
    <2> QED BY <2>3, <2>4 DEF Quiet
  <1>11. CASE CloseConn(a) /\ UNCHANGED backend
    <2>1. \A b \in Live' : b \in Live /\ b # a /\ heap'[b] = heap[b]
      BY <1>2, <1>11 DEF CloseConn, Live, TypeOK
    <2>2. PICK x : x = [from |-> c]
      OBVIOUS
    <2>3. x.from = c
      BY <2>2
    <2>4. Quiet' /\ \A d \in Client : d # c => SameRequest(d)
      BY <1>10, <1>11, <2>3
    <2>5. Alone'
      BY <1>2, <1>11 DEF Course, Alone
    <2> QED BY <1>1, <1>2, <2>1, <2>4, <2>5, OthersStaged DEF Course
  <1>12. CASE /\ backend' = backend \cup {[conn |-> a, fd |-> conn.fd, from |-> c]}
              /\ heap' = [heap EXCEPT ![a] = done]
    <2>1. PICK x : x = [conn |-> a, fd |-> conn.fd, from |-> c]
      OBVIOUS
    <2>2. x.from = c /\ backend' = backend \cup {x}
      BY <1>12, <2>1
    <2>3. Quiet' /\ \A d \in Client : d # c => SameRequest(d)
      BY <1>10, <2>2
    <2>4. Alone'
      <3>1. \A n \in backend : n.from # c
        BY <1>6 DEF Settled, InFlight
      <3>2. \A i \in 1 .. Len(q_msg) : q_msg[i].from # c
        BY <1>6 DEF Settled, InFlight
      <3>3. \A n, k \in backend' : n.from = k.from => n = k
        BY <2>2, <3>1 DEF Course, Alone
      <3>4. \A n \in backend' : \A i \in 1 .. Len(q_msg) : q_msg[i].from # n.from
        BY <2>2, <3>2 DEF Course, Alone
      <3> QED BY <1>2, <3>3, <3>4 DEF Course, Alone
    <2>5. heap'[a] = done /\ \A b \in Addr \ {a} : heap'[b] = heap[b]
      BY <1>2, <1>12 DEF TypeOK
    <2>6. Ticket(a)' = x /\ x \in InFlight'
      BY <1>9, <2>1, <2>2, <2>5 DEF Ticket, InFlight
    <2>7. Stage(a)'
      BY <1>8, <1>9, <2>5, <2>6 DEF Stage
    <2>8. \A b \in Live' : b = a \/ (b \in Live /\ heap'[b] = heap[b])
      BY <2>5 DEF Live
    <2> QED BY <1>1, <1>2, <2>3, <2>4, <2>7, <2>8, OthersStaged DEF Course
  <1>13. CASE heap' = [heap EXCEPT ![a] = WithReply(done, c)] /\ UNCHANGED backend
    <2>1. PICK x : x = WithReply(done, c)
      OBVIOUS
    <2>2. RepliedTo(x, done, c)
      BY <1>3, <1>9, <2>1, Replied
    <2>3. heap'[a] = x /\ \A b \in Addr \ {a} : heap'[b] = heap[b]
      BY <1>2, <1>13, <2>1 DEF TypeOK
    <2>4. Len(x.replies) = 1 /\ x.pos = 0 /\ x.owner = c /\ "WRITE" \in x.mask
      <3>1. PICK r : r = [for |-> c, header |-> done.qlen >= XHEAD_SIZE]
        OBVIOUS
      <3>2. x.replies = Append(<<>>, r)
        BY <1>9, <2>2, <3>1 DEF RepliedTo
      <3>3. Len(Append(<<>>, r)) = 1
        OBVIOUS
      <3>4. Len(x.replies) = 1
        BY <3>2, <3>3
      <3> QED BY <1>9, <2>2, <3>4 DEF RepliedTo
    <2>5. PICK y : y = [from |-> c]
      OBVIOUS
    <2>6. y.from = c
      BY <2>5
    <2>7. Quiet' /\ \A d \in Client : d # c => SameRequest(d)
      BY <1>10, <1>13, <2>6
    <2>8. Alone' /\ Settled(c)'
      BY <1>2, <1>6, <1>13 DEF Course, Alone, Settled, InFlight
    <2>9. Stage(a)'
      BY <1>5, <1>8, <2>3, <2>4, <2>8 DEF Stage
    <2>10. \A b \in Live' : b = a \/ (b \in Live /\ heap'[b] = heap[b])
      BY <2>3 DEF Live
    <2> QED BY <1>1, <1>2, <2>7, <2>8, <2>9, <2>10, OthersStaged DEF Course
  <1> QED BY <1>1, <1>11, <1>12, <1>13 DEF ProcessRequest

LEMMA OneLeft == ASSUME NEW S, NEW r \in Seq(S), Len(r) = 1 PROVE Tail(r) = <<>>
  <1>1. PICK u : u = Tail(r)
    OBVIOUS
  <1>2. u \in Seq(S) /\ Len(u) = Len(r) - 1
    BY <1>1
  <1>3. u \in Seq(S) /\ Len(u) = 0
    BY <1>2
  <1>4. u = <<>>
    BY <1>3
  <1> QED BY <1>1, <1>4

(* A reply of which something is written advances by as much.              *)
LEMMA WriteCourse ==
    ASSUME Ownership, Ownership', Once, Course, NEW a \in Addr, Writes(a)
    PROVE  Course'
  <1>1. PICK c, left, n : /\ c = heap[a].owner /\ left = ReplyLen - heap[a].pos
                          /\ n = sock_write_data(c, left)
    OBVIOUS
  <1>2. /\ a \in Live /\ heap[a].replies # <<>>
        /\ UNCHANGED <<q_msg, backend, handled, received, dropped>>
    BY InHandler DEF Writes, WriteSome, queueVars, histVars
  <1>3. /\ outbuf' = [outbuf EXCEPT ![c] = @ + n]
        /\ heap' = IF n = left
                   THEN [heap EXCEPT ![a].replies = Tail(@), ![a].pos = 0]
                   ELSE [heap EXCEPT ![a].pos = @ + n]
    BY <1>1 DEF Writes, WriteSome
  <1>4. /\ heap[a] \in TcpConnection /\ c \in Client /\ heap[a].pos \in Nat
        /\ heap \in [Addr -> TcpConnection \cup {NULL}]
    BY <1>1, <1>2, LiveTypes DEF Ownership, TypeOK
  <1>5. heap[a].pos < ReplyLen
    BY <1>2 DEF Ownership, PosInside
  <1>6. outbuf[c] \in Nat /\ received[c] \in Nat /\ ReplyLen \in Nat /\ n \in Nat
    <2>1. outbuf[c] \in 0 .. SockBuf /\ SockBuf \in Nat /\ ReplyLen \in Nat
      BY <1>4, LengthAssumption DEF Ownership, TypeOK
    <2>2. left \in Nat
      BY <1>1, <1>4, <1>5, <2>1
    <2>3. n \in Nat
      BY <1>1, <2>1, <2>2 DEF sock_write_data
    <2> QED BY <1>4, <2>1, <2>3, WrittenTypes
  <1>7. handled[c] # 0 /\ Settled(c) /\ Len(heap[a].replies) = 1
        /\ Written(c) = heap[a].pos /\ "WRITE" \in heap[a].mask
    BY <1>1, <1>2 DEF Course, Stage
  <1>8. InFlight' = InFlight /\ Settled(c)' /\ Alone'
    BY <1>2, <1>7 DEF InFlight, Settled, Course, Alone
  <1>9. /\ \A d \in Client \ {c} : Written(d)' = Written(d)
        /\ Written(c)' = heap[a].pos + n
    <2>1. \A d \in Client : outbuf'[d] = IF d = c THEN outbuf[c] + n ELSE outbuf[d]
      BY <1>3, <1>4 DEF Ownership, TypeOK
    <2>2. \A d \in Client \ {c} : Written(d)' = Written(d)
      BY <1>2, <2>1 DEF Written
    <2>3. Written(c)' = received[c] + (outbuf[c] + n)
      BY <1>2, <1>4, <2>1 DEF Written
    <2>4. received[c] + outbuf[c] = heap[a].pos
      BY <1>7 DEF Written
    <2> QED BY <1>6, <2>2, <2>3, <2>4
  <1>10. Quiet' /\ \A d \in Client : d # c => SameRequest(d)
    <2>1. ASSUME NEW d \in Client, d # c PROVE SameRequest(d)
      BY <1>2, <1>8, <1>9, <2>1 DEF SameRequest
    <2>2. ASSUME NEW d \in Client, handled'[d] = 0 PROVE Written(d)' = 0 /\ Settled(d)'
      <3>1. d # c /\ handled[d] = 0
        BY <1>2, <1>7, <2>2
      <3>2. Written(d) = 0 /\ Settled(d)
        BY <3>1 DEF Course, Quiet
      <3> QED BY <1>8, <1>9, <3>1, <3>2 DEF Settled
    <2> QED BY <2>1, <2>2 DEF Quiet
  <1>11. Stage(a)' /\ \A b \in Addr \ {a} : heap'[b] = heap[b]
    <2>1. CASE n = left
      <3>1. heap' = [heap EXCEPT ![a].replies = Tail(@), ![a].pos = 0]
        BY <1>3, <2>1
      <3>2. /\ heap'[a] = [heap[a] EXCEPT !.replies = Tail(@), !.pos = 0]
            /\ \A b \in Addr \ {a} : heap'[b] = heap[b]
        BY <1>4, <3>1
      <3>3. heap'[a].owner = c /\ heap'[a].replies = Tail(heap[a].replies)
        BY <1>1, <1>4, <3>2 DEF TcpConnection
      <3>4. heap[a].replies \in Seq(Reply)
        BY <1>2, LiveTypes DEF Ownership
      <3>5. Tail(heap[a].replies) = <<>>
        BY <1>7, <3>4, OneLeft
      <3>6. Written(c)' = ReplyLen
        BY <1>1, <1>4, <1>6, <1>9, <2>1
      <3>7. handled'[c] # 0
        BY <1>2, <1>7
      <3> QED BY <1>8, <3>2, <3>3, <3>5, <3>6, <3>7 DEF Stage
    <2>2. CASE n # left
      <3>1. heap' = [heap EXCEPT ![a].pos = @ + n]
        BY <1>3, <2>2
      <3>2. /\ heap'[a] = [heap[a] EXCEPT !.pos = @ + n]
            /\ \A b \in Addr \ {a} : heap'[b] = heap[b]
        BY <1>4, <3>1
      <3>3. /\ heap'[a].owner = c /\ heap'[a].replies = heap[a].replies
            /\ heap'[a].mask = heap[a].mask /\ heap'[a].pos = heap[a].pos + n
        BY <1>1, <1>4, <3>2 DEF TcpConnection
      <3>4. handled'[c] # 0
        BY <1>2, <1>7
      <3> QED BY <1>7, <1>8, <1>9, <3>2, <3>3, <3>4 DEF Stage
    <2> QED BY <2>1, <2>2
  <1>12. \A b \in Live' : b = a \/ (b \in Live /\ heap'[b] = heap[b])
    BY <1>11 DEF Live
  <1> QED BY <1>1, <1>2, <1>8, <1>10, <1>11, <1>12, OthersStaged DEF Course

LEMMA InitCourse == Init => Course
  <1> SUFFICES ASSUME Init PROVE Course
    OBVIOUS
  <1>1. InFlight = {} /\ Live = {}
    BY DEF Init, InFlight, Live
  <1>2. \A c \in Client : Written(c) = 0
    BY DEF Init, Written
  <1> QED BY <1>1, <1>2 DEF Init, Course, Quiet, Alone, Settled

LEMMA CourseInductive ==
    ASSUME OutOfReach, Ownership, Ownership', Answering, Once, Course, [Next]_vars
    PROVE  Course'
  BY CalmOr, CalmCourse, AnswerCourse, DropCourse, MsgCourse, RequestCourse, WriteCourse

Lifecycle == Ownership /\ Answering /\ Once /\ Announced /\ Course

LEMMA LifecycleInvariant ==
    ASSUME FreshAddr, OutOfReach PROVE Spec => []Lifecycle
  <1>1. Init => Lifecycle
    BY InitOwned, InitAnswers, InitOnce, InitAnnounced, InitCourse DEF Lifecycle
  <1>2. Lifecycle /\ [Next]_vars => Lifecycle'
    <2> SUFFICES ASSUME Lifecycle, [Next]_vars PROVE Lifecycle'
      OBVIOUS
    <2>1. Ownership'
      BY OwnershipInductive DEF Lifecycle
    <2>2. Answering'
      BY <2>1, AnsweringInductive DEF Lifecycle
    <2>3. Once'
      BY <2>1, OnceInductive DEF Lifecycle
    <2>4. Announced'
      BY AnnouncedInductive DEF Lifecycle
    <2>5. Course'
      BY <2>1, CourseInductive DEF Lifecycle
    <2> QED BY <2>1, <2>2, <2>3, <2>4, <2>5 DEF Lifecycle
  <1> QED BY <1>1, <1>2, PTL DEF Spec

(* Partial writes neither lose nor repeat a byte of the reply, whatever    *)
(* room the socket's send buffer has each time.                            *)
THEOREM RepliesExact ==
    ASSUME FreshAddr, OutOfReach PROVE Spec => []BytesExact
  <1>1. ASSUME Lifecycle PROVE BytesExact
    <2> SUFFICES ASSUME NEW a \in Live
                 PROVE  IF heap[a].replies = <<>>
                        THEN heap[a].pos = 0 /\ Written(heap[a].owner) \in {0, ReplyLen}
                        ELSE heap[a].pos < ReplyLen /\ Written(heap[a].owner) = heap[a].pos
      BY DEF BytesExact, Written
    <2>1. heap[a].owner \in Client /\ Stage(a)
      BY <1>1, LiveTypes DEF Lifecycle, Ownership, Course
    <2>2. handled[heap[a].owner] = 0 => Written(heap[a].owner) = 0
      BY <1>1, <2>1 DEF Lifecycle, Course, Quiet
    <2>3. IF heap[a].replies = <<>> THEN heap[a].pos = 0 ELSE heap[a].pos < ReplyLen
      BY <1>1 DEF Lifecycle, Ownership, PosInside
    <2> QED BY <2>1, <2>2, <2>3 DEF Stage
  <1> QED BY <1>1, LifecycleInvariant, PTL

(* No request is forgotten, and none is answered twice: while the          *)
(* connection is open, a handled request that the rtc part did not drop is *)
(* on its way, its reply is being written, or has been.                    *)
THEOREM RequestsAnsweredOnce ==
    ASSUME FreshAddr, OutOfReach PROVE Spec => []AnsweredOnce
  <1>1. ASSUME Lifecycle PROVE AnsweredOnce
    <2>1. HandledOnce
      BY <1>1 DEF Lifecycle, Once
    <2>2. ASSUME NEW a \in Live, handled[heap[a].owner] > 0, heap[a].owner \notin dropped
          PROVE  \/ \E m \in InFlight : m.from = heap[a].owner /\ conns[m.fd] = m.conn
                 \/ heap[a].replies # <<>> /\ "WRITE" \in heap[a].mask
                 \/ received[heap[a].owner] + outbuf[heap[a].owner] = ReplyLen
      <3>1. Stage(a) /\ conns[heap[a].fd] = a
        BY <1>1 DEF Lifecycle, Course, Ownership, Slots
      <3>2. handled[heap[a].owner] # 0
        BY <2>2
      <3>3. CASE Ticket(a) \in InFlight
        <4>1. Ticket(a).from = heap[a].owner /\ conns[Ticket(a).fd] = Ticket(a).conn
          BY <3>1 DEF Ticket
        <4> QED BY <3>3, <4>1
      <3>4. CASE Len(heap[a].replies) = 1 /\ "WRITE" \in heap[a].mask
        BY <3>4
      <3>5. CASE Written(heap[a].owner) = ReplyLen
        BY <3>5 DEF Written
      <3> QED BY <2>2, <3>1, <3>2, <3>3, <3>4, <3>5 DEF Stage
    <2>3. OnItsWay
      BY <1>1, <2>2 DEF OnItsWay, Lifecycle, Announced, Marks, InFlight
    <2> QED BY <2>1, <2>3 DEF AnsweredOnce
  <1> QED BY <1>1, LifecycleInvariant, PTL

-----------------------------------------------------------------------------
(* The idle timer of a connection.                                         *)

(* While nobody sets the clock it is idle ahead of the last interaction,   *)
(* modulo Modulus, and the next time the timer fires comes before the      *)
(* connection is late.                                                     *)
Ahead ==
    open /\ ~stepped =>
        /\ idle + due < Timeout + Period
        /\ clock = last_interaction + idle \/ clock = last_interaction + idle - Modulus

Timing == TimerTypeOK /\ Ahead

LEMMA TimerConstants ==
    /\ Modulus \in Nat \ {0} /\ Period \in Nat \ {0} /\ Timeout \in Nat \ {0} /\ MaxIdle \in Nat
    /\ Timeout + Period < Modulus /\ Timeout + Period <= MaxIdle
  BY TimerAssumption

LEMMA Remainder ==
    ASSUME NEW x \in Nat, x < 2 * Modulus
    PROVE  x % Modulus = IF x < Modulus THEN x ELSE x - Modulus
  <1>1. Modulus \in Nat \ {0}
    BY TimerConstants
  <1>2. CASE x < Modulus
    BY <1>1, <1>2
  <1>3. CASE ~(x < Modulus)
    BY <1>1, <1>3
  <1> QED BY <1>2, <1>3

LEMMA TimerNumbers ==
    ASSUME TimerTypeOK
    PROVE  /\ clock \in Nat /\ clock < Modulus /\ last_interaction \in Nat /\ last_interaction < Modulus
           /\ due \in Nat /\ due <= Period /\ idle \in Nat /\ idle <= MaxIdle
  BY TimerConstants DEF TimerTypeOK, Clock

(* The unsigned difference is right though the counter may have wrapped.   *)
LEMMA ElapsedIsIdle ==
    ASSUME Timing, open, ~stepped
    PROVE  Elapsed = idle
  <1>1. /\ idle + due < Timeout + Period
        /\ clock = last_interaction + idle \/ clock = last_interaction + idle - Modulus
    BY DEF Timing, Ahead
  <1>2. PICK x : x = clock + Modulus - last_interaction
    OBVIOUS
  <1>3. x \in Nat /\ x < 2 * Modulus /\ (x = idle \/ x = idle + Modulus) /\ idle < Modulus /\ idle \in Nat
    BY <1>1, <1>2, TimerNumbers, TimerConstants DEF Timing
  <1>4. x % Modulus = IF x < Modulus THEN x ELSE x - Modulus
    BY <1>3, Remainder
  <1> QED BY <1>2, <1>3, <1>4, TimerConstants DEF Elapsed

LEMMA InitTiming == TimerInit => Timing
  <1> SUFFICES ASSUME TimerInit PROVE Timing
    OBVIOUS
  <1>1. /\ clock \in Clock /\ last_interaction = clock /\ due = Period /\ idle = 0
        /\ stepped = FALSE /\ open = TRUE
    BY DEF TimerInit
  <1>2. Period \in 0 .. Period /\ 0 \in 0 .. MaxIdle /\ 0 + Period < Timeout + Period
    BY TimerConstants
  <1>3. TimerTypeOK
    BY <1>1, <1>2 DEF TimerTypeOK
  <1>4. clock = clock + 0
    BY <1>3, TimerNumbers
  <1> QED BY <1>1, <1>2, <1>3, <1>4 DEF Timing, Ahead

LEMMA TickTiming ==
    ASSUME Timing, Tick
    PROVE  Timing'
  <1>1. /\ clock \in Nat /\ clock < Modulus /\ last_interaction \in Nat /\ last_interaction < Modulus
        /\ due \in Nat /\ due <= Period /\ idle \in Nat /\ idle <= MaxIdle
    BY TimerNumbers DEF Timing
  <1>2. clock' = IF clock + 1 < Modulus THEN clock + 1 ELSE 0
    <2>1. PICK x : x = clock + 1
      OBVIOUS
    <2>2. x \in Nat /\ x < 2 * Modulus
      BY <1>1, <2>1, TimerConstants
    <2>3. x % Modulus = IF x < Modulus THEN x ELSE x - Modulus
      BY <2>2, Remainder
    <2>4. clock' = x % Modulus
      BY <2>1 DEF Tick
    <2>5. ~(x < Modulus) => x - Modulus = 0
      BY <1>1, <2>1, TimerConstants
    <2> QED BY <2>1, <2>3, <2>4, <2>5
  <1>3. TimerTypeOK'
    BY <1>1, <1>2, TimerConstants DEF Timing, TimerTypeOK, Tick, Clock
  <1>4. ASSUME open', ~stepped'
        PROVE  /\ idle' + due' < Timeout + Period
               /\ clock' = last_interaction' + idle' \/ clock' = last_interaction' + idle' - Modulus
    <2>1. /\ idle + due < Timeout + Period /\ due > 0 /\ due' = due - 1
          /\ clock = last_interaction + idle \/ clock = last_interaction + idle - Modulus
          /\ last_interaction' = last_interaction
      BY <1>4 DEF Timing, Ahead, Tick
    <2>2. idle' = idle + 1
      BY <1>1, <2>1, TimerConstants DEF Tick
    <2> QED BY <1>1, <1>2, <2>1, <2>2, TimerConstants
  <1> QED BY <1>3, <1>4 DEF Timing, Ahead

LEMMA TimeoutTiming ==
    ASSUME Timing, _process_timeout
    PROVE  Timing'
  <1>1. TimerTypeOK'
    BY TimerConstants DEF Timing, TimerTypeOK, _process_timeout
  <1>2. ASSUME open', ~stepped'
        PROVE  /\ idle' + due' < Timeout + Period
               /\ clock' = last_interaction' + idle' \/ clock' = last_interaction' + idle' - Modulus
    <2>1. open /\ ~stepped /\ Elapsed < Timeout /\ due' = Period
          /\ UNCHANGED <<idle, clock, last_interaction>>
      BY <1>2 DEF _process_timeout
    <2>2. idle < Timeout /\ idle \in Nat
      BY <2>1, ElapsedIsIdle, TimerNumbers DEF Timing
    <2> QED BY <2>1, <2>2, TimerConstants DEF Timing, Ahead
  <1> QED BY <1>1, <1>2 DEF Timing, Ahead

LEMMA InteractTiming ==
    ASSUME Timing, Interact
    PROVE  Timing'
  <1>1. /\ idle' = 0 /\ last_interaction' = clock /\ stepped' = FALSE
        /\ UNCHANGED <<clock, due, open>>
    BY DEF Interact
  <1>2. Clock' = Clock /\ 0 \in 0 .. MaxIdle
    BY TimerConstants DEF Clock
  <1>3. TimerTypeOK'
    BY <1>1, <1>2 DEF Timing, TimerTypeOK
  <1>4. clock' = clock + 0 /\ due <= Period /\ due \in Nat
    BY <1>1, TimerNumbers DEF Timing
  <1>5. 0 + due < Timeout + Period
    BY <1>4, TimerConstants
  <1> QED BY <1>1, <1>3, <1>4, <1>5 DEF Timing, Ahead

LEMMA TimingInductive == Timing /\ [TimerNext]_timerVars => Timing'
  <1> SUFFICES ASSUME Timing, [TimerNext]_timerVars PROVE Timing'
    OBVIOUS
  <1>1. CASE Step
    BY <1>1 DEF Step, Timing, TimerTypeOK, Ahead
  <1>2. CASE UNCHANGED timerVars
    BY <1>2 DEF timerVars, Timing, TimerTypeOK, Ahead, Clock
  <1>3. CASE Closed
    BY <1>2, <1>3 DEF Closed
  <1> QED BY <1>1, <1>2, <1>3, TickTiming, TimeoutTiming, InteractTiming DEF TimerNext

LEMMA TimingNotLate == Timing => NotLate
  <1> SUFFICES ASSUME Timing PROVE NotLate
    OBVIOUS
  <1>1. ASSUME open, ~stepped PROVE idle < Timeout + Period
    <2>1. idle + due < Timeout + Period
      BY <1>1 DEF Timing, Ahead
    <2> QED BY <2>1, TimerNumbers, TimerConstants DEF Timing
  <1> QED BY <1>1 DEF Timing, TimerTypeOK, NotLate

(* No step closes a connection too early.                                  *)
LEMMA NotEarly ==
    ASSUME Timing, [TimerNext]_timerVars, open, ~open'
    PROVE  stepped \/ idle >= Timeout
  <1>1. _process_timeout
    BY DEF TimerNext, Tick, Step, Interact, Closed, timerVars
  <1>2. ~(Elapsed < Timeout)
    BY <1>1 DEF _process_timeout
  <1>3. CASE ~stepped
    BY <1>2, <1>3, ElapsedIsIdle, TimerNumbers, TimerConstants DEF Timing
  <1> QED BY <1>3 DEF Timing, TimerTypeOK

(* Unless the clock is set, an idle connection is closed neither before    *)
(* connection_timeout has passed nor more than a period after it.          *)
THEOREM TimerInTime == TimerSpec => ClosedInTime
  <1>1. Timing /\ Timing' /\ [TimerNext]_timerVars
           => [NotLate' /\ (open /\ ~open' => stepped \/ idle >= Timeout)]_timerVars
    <2> SUFFICES ASSUME Timing, Timing', [TimerNext]_timerVars
                 PROVE  NotLate' /\ (open /\ ~open' => stepped \/ idle >= Timeout)
      OBVIOUS
    <2>1. NotLate'
      BY TimingNotLate, PTL
    <2> QED BY <2>1, NotEarly
  <1> QED BY <1>1, InitTiming, TimingInductive, PTL DEF TimerSpec, ClosedInTime
=============================================================================
