--------------------------- MODULE AsyncUdpSocket ---------------------------
(***************************************************************************)
(* base/async_udp_socket.cpp over base/socket.cpp and the IO half of       *)
(* base/event_loop.cpp: the non-blocking UDP socket of one UDPPort, driven *)
(* by one thread.  Packets are numbered by the order of the send_to()      *)
(* calls.  The kernel takes a packet while its send buffer has room, gives *)
(* EAGAIN when it has none, and may answer any attempt with a real error.  *)
(***************************************************************************)
EXTENDS Naturals, Sequences

CONSTANTS SendRoom,     \* packets the kernel's send buffer holds
          MaxSends,     \* bound on the number of send_to() calls
          MaxArrivals   \* bound on the number of datagrams that arrive

ASSUME SendRoomAssumption == SendRoom \in Nat \ {0}
ASSUME SendsAssumption == MaxSends \in Nat
ASSUME ArrivalsAssumption == MaxArrivals \in Nat

VARIABLES
    calls,      \* number of send_to() calls so far
    list,       \* _udp_packet_list
    mask,       \* events of _socket_watcher
    buffered,   \* packets in the kernel's send buffer
    wire,       \* history: packets the kernel took, in order
    refused,    \* history: packets for which send_to() returned -1
    dropped,    \* history: queued packets deleted after a send error
    inbox,      \* the socket's receive queue
    arrived,    \* number of arrivals so far
    signalled   \* number of datagrams passed to signal_read_packet

sendVars == <<calls, list, buffered, wire, refused, dropped>>
recvVars == <<inbox, arrived, signalled>>
vars == <<sendVars, mask, recvVars>>

-----------------------------------------------------------------------------
(* EventLoop::start_io_event and stop_io_event on an active watcher.       *)
start_io_event(events) == mask' = mask \cup events
stop_io_event(events) == mask' = mask \ events

Init ==
    /\ calls = 0 /\ list = <<>> /\ buffered = 0
    /\ wire = <<>> /\ refused = {} /\ dropped = {}
    /\ mask = {"READ"}
    /\ inbox = <<>> /\ arrived = 0 /\ signalled = 0

Room == SendRoom - buffered

Take(k) == SubSeq(list, 1, k)
Leave(k) == SubSeq(list, k + 1, Len(list))

(* The three ways the loop over the list ends, after k packets went out:   *)
(* the list is empty, the kernel says EAGAIN, or sending the next packet   *)
(* fails; that packet is then deleted.                                     *)
Flushed(k) == k = Len(list) /\ k <= Room
Blocked(k) == k < Len(list) /\ k = Room
Failed(k) == k < Len(list) /\ k <= Room

(* Mutant: the WRITE event stays requested when the list is empty.         *)
SendDataKeepsWrite ==
    /\ "WRITE" \in mask /\ Room > 0
    /\ \E k \in 0 .. Len(list) :
          /\ Flushed(k) \/ Blocked(k)
          /\ list' = Leave(k)
          /\ wire' = wire \o Take(k)
          /\ buffered' = buffered + k
    /\ UNCHANGED <<calls, refused, dropped, mask, recvVars>>

(* send_data(), the WRITE callback.                                        *)
send_data ==
    /\ "WRITE" \in mask /\ Room > 0
    /\ \E k \in 0 .. Len(list) :
          /\ \/ /\ Flushed(k)
                /\ list' = <<>>
                /\ stop_io_event({"WRITE"})
                /\ UNCHANGED dropped
             \/ /\ Blocked(k)
                /\ list' = Leave(k)
                /\ UNCHANGED <<dropped, mask>>
             \/ /\ Failed(k)
                /\ list' = Leave(k + 1)
                /\ dropped' = dropped \cup {list[k + 1]}
                /\ UNCHANGED mask
          /\ wire' = wire \o Take(k)
          /\ buffered' = buffered + k
    /\ UNCHANGED <<calls, refused, recvVars>>

(* Mutant: nobody asks for the WRITE event.                                *)
SendAgainSilently(rest, packet) ==
    /\ list' = Append(rest, packet)
    /\ UNCHANGED <<mask, refused>>

(* SEND_AGAIN: keep a copy and ask for the WRITE event.                    *)
SendAgain(rest, packet) ==
    /\ list' = Append(rest, packet)
    /\ start_io_event({"WRITE"})
    /\ UNCHANGED refused

(* Mutants: the failed packet is deleted but not popped; the new packet    *)
(* does not wait for the queued ones.                                      *)
AddFailsNoPop(k, p) ==
    /\ Failed(k)
    /\ list' = Leave(k)
    /\ dropped' = dropped \cup {list[k + 1]}
    /\ refused' = refused \cup {p}
    /\ wire' = wire \o Take(k)
    /\ buffered' = buffered + k
    /\ UNCHANGED mask

AddSendsFirst(k, p) ==
    /\ k = 0 /\ Room > 0
    /\ wire' = Append(wire, p)
    /\ buffered' = buffered + 1
    /\ UNCHANGED <<list, mask, dropped, refused>>

(* The outcomes of _add_udp_packet() for the packet p once k of the queued *)
(* ones went out.                                                          *)
AddFails(k, p) ==               \* an older packet fails: p is not sent
    /\ Failed(k)
    /\ list' = Leave(k + 1)
    /\ dropped' = dropped \cup {list[k + 1]}
    /\ refused' = refused \cup {p}
    /\ wire' = wire \o Take(k)
    /\ buffered' = buffered + k
    /\ UNCHANGED mask

AddBlocked(k, p) ==             \* EAGAIN for an older packet or for p itself
    /\ Blocked(k) \/ (Flushed(k) /\ k = Room)
    /\ SendAgain(Leave(k), p)
    /\ wire' = wire \o Take(k)
    /\ buffered' = buffered + k
    /\ UNCHANGED dropped

AddSends(k, p) ==
    /\ Flushed(k) /\ k < Room
    /\ list' = <<>>
    /\ wire' = (wire \o Take(k)) \o <<p>>
    /\ buffered' = buffered + k + 1
    /\ UNCHANGED <<mask, dropped, refused>>

AddError(k, p) ==               \* sending p itself fails
    /\ Flushed(k)
    /\ list' = <<>>
    /\ refused' = refused \cup {p}
    /\ wire' = wire \o Take(k)
    /\ buffered' = buffered + k
    /\ UNCHANGED <<mask, dropped>>

(* send_to(): the packet with the next number.                             *)
send_to ==
    /\ calls < MaxSends
    /\ calls' = calls + 1
    /\ \E k \in 0 .. Len(list) :
          \/ AddFails(k, calls + 1)
          \/ AddBlocked(k, calls + 1)
          \/ AddSends(k, calls + 1)
          \/ AddError(k, calls + 1)
    /\ UNCHANGED recvVars

(* The network interface takes a packet out of the send buffer.            *)
Transmit ==
    /\ buffered > 0
    /\ buffered' = buffered - 1
    /\ UNCHANGED <<calls, list, wire, refused, dropped, mask, recvVars>>

-----------------------------------------------------------------------------
(* Something to receive: a datagram with data, or what makes recvfrom      *)
(* return 0 or fail once (an empty datagram, a pending ICMP error).        *)
Arrive ==
    /\ arrived < MaxArrivals
    /\ arrived' = arrived + 1
    /\ \E d \in {"data", "bad"} : inbox' = Append(inbox, d)
    /\ UNCHANGED <<sendVars, mask, signalled>>

(* sock_recv_from() returns something to signal k times.                   *)
Readable(k) == \A i \in 1 .. k : inbox[i] = "data"

(* recv_data(), the READ callback: datagrams are signalled one by one      *)
(* until recvfrom has none (EAGAIN) or returns an error.                   *)
recv_data ==
    /\ "READ" \in mask /\ inbox # <<>>
    /\ \E k \in 0 .. Len(inbox) :
          /\ Readable(k)
          /\ \/ k = Len(inbox) /\ inbox' = <<>>
             \/ /\ k < Len(inbox) /\ inbox[k + 1] = "bad"
                /\ inbox' = SubSeq(inbox, k + 2, Len(inbox))
          /\ signalled' = signalled + k
    /\ UNCHANGED <<sendVars, mask, arrived>>

(* Stopping at the bounds with nothing left to do is no deadlock.          *)
Done == /\ calls = MaxSends /\ arrived = MaxArrivals
        /\ list = <<>> /\ inbox = <<>> /\ mask = {"READ"} /\ buffered = 0
        /\ UNCHANGED vars

Next == send_data \/ send_to \/ Transmit \/ Arrive \/ recv_data \/ Done

Spec == Init /\ [][Next]_vars

(* libev calls a ready watcher's callback; the interface keeps sending.    *)
FairSpec == Spec /\ WF_vars(send_data) /\ WF_vars(recv_data) /\ WF_vars(Transmit)

-----------------------------------------------------------------------------
(* The types of the socket's state.                                        *)
TypeOK ==
    /\ calls \in Nat /\ buffered \in 0 .. SendRoom
    /\ list \in Seq(1 .. calls) /\ wire \in Seq(1 .. calls)
    /\ mask \in SUBSET {"READ", "WRITE"}
    /\ refused \subseteq 1 .. calls /\ dropped \subseteq 1 .. calls
    /\ inbox \in Seq({"data", "bad"})
    /\ arrived \in Nat /\ signalled \in Nat

(* A queued packet has somebody to send it: the WRITE event is requested   *)
(* after every path through send_data() and _add_udp_packet() that leaves  *)
(* the list non-empty, the error returns included.                         *)
NoLostWakeup == list # <<>> => "WRITE" \in mask

(* No packet overtakes an older one and none is sent twice, though both    *)
(* send_to() and the WRITE callback send from the list.                    *)
Entries(s) == {s[i] : i \in 1 .. Len(s)}
Increasing(s) == \A i, j \in 1 .. Len(s) : i < j => s[i] < s[j]
InOrder == /\ Increasing(wire) /\ Increasing(list)
           /\ \A x \in Entries(wire), y \in Entries(list) : x < y

(* The caller learns the truth: a packet for which send_to() returned -1   *)
(* never reaches the kernel, and any other is on the wire, still queued or *)
(* was dropped by a later send error.                                      *)
Accounted ==
    /\ refused \cap (Entries(wire) \cup Entries(list) \cup dropped) = {}
    /\ dropped \cap (Entries(wire) \cup Entries(list)) = {}
    /\ 1 .. calls = refused \cup dropped \cup Entries(wire) \cup Entries(list)

(* EAGAIN delays a packet, it does not strand it; and the WRITE event is   *)
(* turned off again, so that an idle socket does not spin the loop.        *)
QueueDrains == ("WRITE" \in mask) ~> (list = <<>> /\ "WRITE" \notin mask)

(* An error or an empty datagram ends one round of recv_data() but does    *)
(* not strand the datagrams behind it.                                     *)
InboxDrains == (inbox # <<>>) ~> (inbox = <<>>)

(* In both directions whatever waits is dealt with in the end.             *)
Drains == QueueDrains /\ InboxDrains
=============================================================================
