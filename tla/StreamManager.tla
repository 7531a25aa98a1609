--------------------------- MODULE StreamManager ---------------------------
(***************************************************************************)
(* The streams of one RtcWorker thread: RtcStreamManager, its PushStreams  *)
(* and PullStreams, and the life of their PeerConnections.                 *)
(*                                                                         *)
(* A stream object is known by the order of its creation and is never      *)
(* reused; stream[s] = NULL before `new' and after `delete'.  Deleting a   *)
(* stream only starts a 10 ms timer that deletes its PeerConnection.  The  *)
(* states that are neither k_connected nor k_failed are one state here,    *)
(* since nothing in this component tells them apart.                       *)
(*                                                                         *)
(* A pull stream that another user's pull of the same name pushes out of   *)
(* _pull_streams is not deleted; `displaced' records these.                *)
(*                                                                         *)
(* The thread's event loop calls one handler at a time.  Those of a        *)
(* PeerConnection -- its sockets, its ping timer, and set_remote_sdp()     *)
(* called for an answer -- report its state from deep in the stack, the    *)
(* stream may be deleted by that report, and the handler then goes on: it  *)
(* is two steps, `handle' and `resume', with the reports in between.       *)
(***************************************************************************)
EXTENDS Naturals

CONSTANTS Uid, Name, NULL,
          MaxStreams    \* bound on the number of streams created

ASSUME MaxStreamsAssumption == MaxStreams \in Nat

VARIABLES push,        \* _push_streams: name -> stream
          pull,        \* _pull_streams: name -> stream
          stream,      \* the stream objects
          pc,          \* their PeerConnections: none, live, dying, freed
          made,        \* number of streams created
          displaced,   \* history
          running      \* whose PeerConnection has a function on the stack

vars == <<push, pull, stream, pc, made, displaced, running>>

Id == 1 .. MaxStreams

State == {"unconnected", "connected", "failed"}

Stream == [type : {"push", "pull"}, uid : Uid, name : Name, state : State,
           timer : {"armed", "off"}, answered : BOOLEAN]

ASSUME NullAssumption == NULL \notin Id \cup Stream

NewStream(type, u, n) ==
    [type |-> type, uid |-> u, name |-> n, state |-> "unconnected", timer |-> "armed",
     answered |-> FALSE]

Live == {s \in Id : stream[s] # NULL}

Init ==
    /\ push = [n \in Name |-> NULL] /\ pull = [n \in Name |-> NULL]
    /\ stream = [s \in Id |-> NULL] /\ pc = [s \in Id |-> "none"]
    /\ made = 0 /\ displaced = {} /\ running = NULL

(* Mutant: `delete pc' in the destructor of the stream.                    *)
DestroyAtOnce(dead, pcs) == [s \in Id |-> IF s \in dead THEN "freed" ELSE pcs[s]]

(* ~RtcStream(): PeerConnection::destroy() for the streams of `dead'.      *)
Destroy(dead, pcs) == [s \in Id |-> IF s \in dead THEN "dying" ELSE pcs[s]]

Without(dead, streams) == [s \in Id |-> IF s \in dead THEN NULL ELSE streams[s]]

-----------------------------------------------------------------------------
(* create_push_stream(): whoever published under the name is replaced.     *)
(* The new stream's timer is started and its offer made.                   *)
create_push_stream(u, n) ==
    /\ running = NULL /\ made < MaxStreams
    /\ made' = made + 1
    /\ stream' = [Without({push[n]}, stream) EXCEPT ![made'] = NewStream("push", u, n)]
    /\ pc' = [Destroy({push[n]}, pc) EXCEPT ![made'] = "live"]
    /\ push' = [push EXCEPT ![n] = made']
    /\ UNCHANGED <<pull, displaced, running>>

(* _find_push_stream, _find_pull_stream and the comparison of the uids:    *)
(* the set of the streams a remove or an answer is about, at most one.     *)
PushOf(u, n) == {s \in Live : push[n] = s /\ stream[s].uid = u}
PullOf(u, n) == {s \in Live : pull[n] = s /\ stream[s].uid = u}

(* Mutant: a pull replaces the pull of the same name without a trace.      *)
create_pull_stream_overwriting(u, n) ==
    /\ running = NULL /\ push[n] # NULL /\ made < MaxStreams
    /\ made' = made + 1
    /\ stream' = [stream EXCEPT ![made'] = NewStream("pull", u, n)]
    /\ pc' = [pc EXCEPT ![made'] = "live"]
    /\ pull' = [pull EXCEPT ![n] = made']
    /\ displaced' = displaced \cup ({pull[n]} \ (PullOf(u, n) \cup {NULL}))
    /\ UNCHANGED <<push, running>>

(* create_pull_stream(): refused unless someone publishes under the name.  *)
(* Only a pull of the same user is removed first; the slot is overwritten  *)
(* in any case.                                                            *)
create_pull_stream(u, n) ==
    /\ running = NULL /\ push[n] # NULL /\ made < MaxStreams
    /\ made' = made + 1
    /\ stream' = [Without(PullOf(u, n), stream) EXCEPT ![made'] = NewStream("pull", u, n)]
    /\ pc' = [Destroy(PullOf(u, n), pc) EXCEPT ![made'] = "live"]
    /\ pull' = [pull EXCEPT ![n] = made']
    /\ displaced' = displaced \cup ({pull[n]} \ (PullOf(u, n) \cup {NULL}))
    /\ UNCHANGED <<push, running>>

(* _remove_push_stream(), _remove_pull_stream(); `streams' is the state of *)
(* the objects at the time of the call.                                    *)
RemovePush(u, n, streams) ==
    /\ push' = IF PushOf(u, n) = {} THEN push ELSE [push EXCEPT ![n] = NULL]
    /\ stream' = Without(PushOf(u, n), streams)
    /\ pc' = Destroy(PushOf(u, n), pc)
    /\ UNCHANGED <<pull, made, displaced, running>>

RemovePull(u, n, streams) ==
    /\ pull' = IF PullOf(u, n) = {} THEN pull ELSE [pull EXCEPT ![n] = NULL]
    /\ stream' = Without(PullOf(u, n), streams)
    /\ pc' = Destroy(PullOf(u, n), pc)
    /\ UNCHANGED <<push, made, displaced, running>>

stop_push(u, n) ==
    /\ running = NULL /\ PushOf(u, n) # {}
    /\ RemovePush(u, n, stream)

stop_pull(u, n) ==
    /\ running = NULL /\ PullOf(u, n) # {}
    /\ RemovePull(u, n, stream)

(* set_answer(): the stream's PeerConnection carries on with the answer in *)
(* set_remote_sdp().                                                       *)
set_answer(u, n) ==
    /\ running = NULL
    /\ \E s \in PushOf(u, n) \cup PullOf(u, n) :
          /\ stream' = [stream EXCEPT ![s].answered = TRUE]
          /\ running' = s
    /\ UNCHANGED <<push, pull, pc, made, displaced>>

-----------------------------------------------------------------------------
(* Mutant: every stream of the name goes, whoever failed.                  *)
RemoveWholeName(s, streams) ==
    LET n == stream[s].name
        dead == {x \in Live : stream[x].name = n /\ x \notin displaced}
    IN /\ push' = [push EXCEPT ![n] = NULL]
       /\ pull' = [pull EXCEPT ![n] = NULL]
       /\ stream' = Without(dead, streams)
       /\ pc' = Destroy(dead, pc)
       /\ UNCHANGED <<made, displaced, running>>

(* Mutant: the stream is deleted but stays in the table.                   *)
RemoveObjectOnly(s, streams) ==
    /\ stream' = Without({s}, streams)
    /\ pc' = Destroy({s}, pc)
    /\ UNCHANGED <<push, pull, made, displaced, running>>

(* on_connection_state(k_failed) and on_stream_exception(): the stream is  *)
(* looked up by its type, uid and name, so what goes is what the table     *)
(* holds for these.                                                        *)
RemoveStream(s, streams) ==
    IF stream[s].type = "push"
    THEN RemovePush(stream[s].uid, stream[s].name, streams)
    ELSE RemovePull(stream[s].uid, stream[s].name, streams)

(* A handler of the PeerConnection of s is called: by the event loop for a *)
(* packet (_on_read_packet) or the ping timer (_on_check_and_ping).  These *)
(* are there until the PeerConnection is deleted, its stream may be gone.  *)
handle(s) ==
    /\ running = NULL /\ pc[s] \in {"live", "dying"}
    /\ running' = s
    /\ UNCHANGED <<push, pull, stream, pc, made, displaced>>

(* The rest of the handler, which works on the PeerConnection: having      *)
(* reported the states, _on_check_and_ping() chooses a connection to ping. *)
resume ==
    /\ running # NULL
    /\ running' = NULL
    /\ UNCHANGED <<push, pull, stream, pc, made, displaced>>

(* RtcStream::_on_connection_state(), called out of such a handler; it is  *)
(* connected to the signal as long as the stream exists.                   *)
_on_connection_state(s, state) ==
    /\ running = s
    /\ s \in Live /\ stream[s].state # state
    /\ LET timer == IF state = "connected" THEN "off" ELSE stream[s].timer
           after == [stream EXCEPT ![s].state = state, ![s].timer = timer]
       IN IF state = "failed"
          THEN RemoveStream(s, after)
          ELSE stream' = after /\ UNCHANGED <<push, pull, pc, made, displaced, running>>

(* Mutant: a stream whose peer has not answered is left alone.             *)
ice_timeout_if_answered(s) ==
    /\ running = NULL /\ s \in Live /\ stream[s].timer = "armed"
    /\ LET after == [stream EXCEPT ![s].timer = "off"]
       IN IF stream[s].answered
          THEN RemoveStream(s, after)
          ELSE stream' = after /\ UNCHANGED <<push, pull, pc, made, displaced, running>>

(* ice_timeout_cb(), 30 s after the creation.                              *)
ice_timeout_cb(s) ==
    /\ running = NULL /\ s \in Live /\ stream[s].timer = "armed"
    /\ LET after == [stream EXCEPT ![s].timer = "off"]
       IN IF stream[s].state # "connected"
          THEN RemoveStream(s, after)
          ELSE stream' = after /\ UNCHANGED <<push, pull, pc, made, displaced, running>>

(* destroy_timer_cb(): `delete pc'.                                        *)
destroy_timer_cb(s) ==
    /\ running = NULL /\ pc[s] = "dying"
    /\ pc' = [pc EXCEPT ![s] = "freed"]
    /\ UNCHANGED <<push, pull, stream, made, displaced, running>>

(* on_rtp_packet_received(), on_rtcp_packet_received(): where a packet of  *)
(* stream s goes.  Media and reports of a push stream go to the pull       *)
(* stream of the name, reports of a pull stream to the push stream.        *)
Target(s) == IF stream[s].type = "push" THEN pull[stream[s].name] ELSE push[stream[s].name]

-----------------------------------------------------------------------------
Command == \E u \in Uid, n \in Name :
              \/ create_push_stream(u, n) \/ create_pull_stream(u, n)
              \/ stop_push(u, n) \/ stop_pull(u, n) \/ set_answer(u, n)

Event == \E s \in Id : \/ \E state \in State : _on_connection_state(s, state)
                       \/ handle(s) \/ ice_timeout_cb(s) \/ destroy_timer_cb(s)

Next == Command \/ Event \/ resume

Spec == Init /\ [][Next]_vars

(* Handlers return, and between two of them the event loop serves a timer  *)
(* that is due, however many other events there are.                       *)
FairSpec ==
    /\ Spec
    /\ WF_vars(resume)
    /\ SF_vars(\E s \in Id : ice_timeout_cb(s) \/ destroy_timer_cb(s))

-----------------------------------------------------------------------------
(* The types of the tables and of the objects.                             *)
TypeOK ==
    /\ push \in [Name -> Id \cup {NULL}] /\ pull \in [Name -> Id \cup {NULL}]
    /\ stream \in [Id -> Stream \cup {NULL}]
    /\ pc \in [Id -> {"none", "live", "dying", "freed"}]
    /\ made \in 0 .. MaxStreams /\ displaced \subseteq Id
    /\ running \in Id \cup {NULL}

(* What the tables point to has not been deleted and is listed under its   *)
(* own type and name: forwarding a packet, answering and stopping never    *)
(* touch a deleted stream.                                                 *)
TablesSound ==
    \A n \in Name :
        /\ push[n] # NULL => /\ push[n] \in Live
                             /\ stream[push[n]].type = "push" /\ stream[push[n]].name = n
        /\ pull[n] # NULL => /\ pull[n] \in Live
                             /\ stream[pull[n]].type = "pull" /\ stream[pull[n]].name = n

(* A stream that is in neither table can only be a pull that the pull of   *)
(* another user displaced; nothing else is ever leaked.                    *)
NothingLeaked ==
    \A s \in Live : \/ push[stream[s].name] = s
                    \/ pull[stream[s].name] = s
                    \/ s \in displaced /\ stream[s].type = "pull"

(* A PeerConnection is deleted neither under its own handler, whose report *)
(* of a failure has deleted the stream and which goes on afterwards, nor   *)
(* while its stream can still send through it or set an answer.            *)
PcOutlivesUse ==
    /\ running # NULL => pc[running] \in {"live", "dying"}
    /\ \A s \in Id : stream[s] # NULL <=> pc[s] = "live"

(* The failure or the timeout of one stream never takes another one with   *)
(* it, except where the failing one is a displaced pull.                   *)
OwnRemovalStep ==
    \A s, t \in Id :
        /\ s # t /\ stream[s] # NULL /\ stream'[s] = NULL
        /\ stream[t] # NULL /\ stream'[t] # stream[t]
        => t \in displaced

OwnRemoval == [][OwnRemovalStep]_vars

(* A stream that does not connect is deleted, unless it was displaced.     *)
NeverConnectedGone ==
    \A s \in Id : s \in Live /\ stream[s].timer = "armed"
        ~> \/ stream[s] = NULL \/ stream[s].state = "connected" \/ s \in displaced

(* The PeerConnection of a deleted stream is deleted, too.                 *)
PcFreed == \A s \in Id : s \notin Live /\ pc[s] # "none" ~> pc[s] = "freed"

(* So nothing of a stream that does not connect is left in the end.        *)
StreamsEnd == NeverConnectedGone /\ PcFreed

(* "Forward the data of the push stream to the pull stream": the packets   *)
(* of a push stream reach every connected pull stream of the name.         *)
EveryPullFed ==
    \A s, t \in Live :
        /\ stream[s].type = "push" /\ stream[t].type = "pull"
        /\ stream[s].name = stream[t].name /\ stream[t].state = "connected"
        => Target(s) = t
=============================================================================
