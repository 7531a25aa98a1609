-------------------------- MODULE MessagePipeline --------------------------
(***************************************************************************)
(* The way of a request through the threads of the program and back:       *)
(*                                                                         *)
(*   SignalingWorker -> RtcServer -> RtcWorker -> SignalingWorker          *)
(*                                                                         *)
(* Each arrow is a queue of RtcMsg and a blocking pipe: the sender first   *)
(* pushes the message (push_msg) and then writes one int (notify), which   *)
(* blocks while the pipe is full; the receiver reads one int and pops one  *)
(* message.  The queues of SignalingWorker and RtcServer have several      *)
(* producers and a mutex; that of RtcWorker is the LockFreeQueue, whose    *)
(* refinement of a FIFO justifies the atomic push and pop here.            *)
(*                                                                         *)
(* A message is known by the position of its push in RtcServer's queue.    *)
(***************************************************************************)
EXTENDS Naturals, Sequences, FiniteSets

CONSTANTS SWorker,     \* SignalingWorkers
          RWorker,     \* RtcWorkers
          Stream,      \* stream names
          Route,       \* crc32(stream name) % worker_num, as a function
          PipeCap,     \* ints a pipe holds
          Asked,       \* the requests clients make: worker, stream, kind
          MaxIssued,   \* bound on the number of requests
          MaxDropped   \* bound on the certificates that cannot be generated

ASSUME RouteAssumption == Route \in [Stream -> RWorker]
ASSUME WorkerAssumption == SWorker \cap RWorker = {} /\ IsFiniteSet(SWorker \cup RWorker)
Request == [worker : SWorker, stream : Stream, kind : {"OFFER", "COMMAND"}]

ASSUME AskedAssumption == Asked \subseteq Request
ASSUME PipeAssumption == PipeCap \in Nat \ {0}
ASSUME IssuedAssumption == MaxIssued \in Nat /\ MaxDropped \in Nat

Server == "rtc server"

ASSUME ServerAssumption == Server \notin SWorker \cup RWorker

Thread == SWorker \cup RWorker \cup {Server}

VARIABLES
    issued,   \* the requests in the order of their push: who, stream, kind
    queue,    \* thread -> its _q_msg
    pipe,     \* thread -> ints in its notify pipe
    owes,     \* thread -> the thread it has still to notify, or itself
    done,     \* history: requests in the order in which RtcWorkers took them
    dropped,  \* history: requests RtcServer dropped
    answered  \* history: SignalingWorker -> requests whose offer came back

vars == <<issued, queue, pipe, owes, done, dropped, answered>>

Msg == 1 .. Len(issued)

Idle(t) == owes[t] = t

Init ==
    /\ issued = <<>>
    /\ queue = [t \in Thread |-> <<>>] /\ pipe = [t \in Thread |-> 0]
    /\ owes = [t \in Thread |-> t]
    /\ done = <<>> /\ dropped = {}
    /\ answered = [w \in SWorker |-> {}]

(* send_rtc_msg() by `from', first half; `before' is the state of the      *)
(* queues when the sender's own message has been taken out.                *)
Push(from, to, m, before) ==
    /\ queue' = [before EXCEPT ![to] = Append(@, m)]
    /\ owes' = [owes EXCEPT ![from] = to]

(* Mutant: a non-blocking pipe, and nobody looks at EAGAIN.                *)
NotifyNonBlocking(t) ==
    /\ ~Idle(t)
    /\ pipe' = [pipe EXCEPT ![owes[t]] = IF @ < PipeCap THEN @ + 1 ELSE @]
    /\ owes' = [owes EXCEPT ![t] = t]
    /\ UNCHANGED <<issued, queue, done, dropped, answered>>


(* A write into t's pipe does not block.                                   *)
Room(t) == pipe[t] < PipeCap

(* The second half: notify(), a write that blocks on a full pipe.          *)
Notify(t) ==
    /\ ~Idle(t) /\ Room(owes[t])
    /\ pipe' = [pipe EXCEPT ![owes[t]] = @ + 1]
    /\ owes' = [owes EXCEPT ![t] = t]
    /\ UNCHANGED <<issued, queue, done, dropped, answered>>

(* recv_notify(): one int read, one message popped, if there is one.       *)
Take(t) ==
    /\ Idle(t) /\ pipe[t] > 0
    /\ pipe' = [pipe EXCEPT ![t] = @ - 1]

Popped(t) == [queue EXCEPT ![t] = Tail(@)]

(* SignalingWorker::_process_push, _process_pull ("OFFER": the answer is   *)
(* awaited), _process_stop_push, _process_stop_pull, _process_answer       *)
(* ("COMMAND": nothing comes back).                                        *)
Issue(w) ==
    /\ Idle(w) /\ Len(issued) < MaxIssued
    /\ \E q \in Asked : q.worker = w /\ issued' = Append(issued, q)
    /\ Push(w, Server, Len(issued) + 1, queue)
    /\ UNCHANGED <<pipe, done, dropped, answered>>

(* Mutant: the workers take turns.                                         *)
GetWorkerInTurn(m) ==
    IF m % 2 = 0 THEN Route[issued[m].stream]
    ELSE CHOOSE r \in RWorker : Cardinality(RWorker) > 1 => r # Route[issued[m].stream]

(* RtcServer::_get_worker().                                               *)
GetWorker(m) == Route[issued[m].stream]

(* RtcServer::_process_rtc_msg().                                          *)
Dispatch ==
    /\ Take(Server) /\ queue[Server] # <<>>
    /\ LET m == Head(queue[Server])
       IN \/ /\ Push(Server, GetWorker(m), m, Popped(Server))
             /\ UNCHANGED dropped
          \/ /\ Cardinality(dropped) < MaxDropped
             /\ queue' = Popped(Server)
             /\ dropped' = dropped \cup {m}
             /\ UNCHANGED owes
    /\ UNCHANGED <<issued, done, answered>>

(* Mutant: the offer is not sent back.                                     *)
ProcessSilently(r) ==
    /\ Take(r) /\ queue[r] # <<>>
    /\ done' = Append(done, Head(queue[r]))
    /\ queue' = Popped(r)
    /\ UNCHANGED <<issued, owes, dropped, answered>>

(* RtcWorker::_process_rtc_msg(): _process_push and _process_pull send the *)
(* message back to the SignalingWorker it came from.                       *)
Process(r) ==
    /\ Take(r) /\ queue[r] # <<>>
    /\ LET m == Head(queue[r])
       IN /\ done' = Append(done, m)
          /\ IF issued[m].kind = "OFFER"
             THEN Push(r, issued[m].worker, m, Popped(r))
             ELSE queue' = Popped(r) /\ UNCHANGED owes
    /\ UNCHANGED <<issued, dropped, answered>>

(* SignalingWorker::_process_rtc_msg().                                    *)
Deliver(w) ==
    /\ Take(w) /\ queue[w] # <<>>
    /\ queue' = Popped(w)
    /\ answered' = [answered EXCEPT ![w] = @ \cup {Head(queue[w])}]
    /\ UNCHANGED <<issued, owes, done, dropped>>

(* The requests of the model are used up and all of them have been served. *)
Done ==
    /\ Len(issued) = MaxIssued
    /\ \A t \in Thread : Idle(t) /\ pipe[t] = 0
    /\ UNCHANGED vars

(* Three threads, each blocked in the middle of a handler by the next one. *)
Cycle(w, r) ==
    /\ owes[w] = Server /\ owes[Server] = r /\ owes[r] = w
    /\ \A t \in {w, Server, r} : ~Room(t)

(* Nothing happens any more.                                               *)
Deadlocked == (\E w \in SWorker, r \in RWorker : Cycle(w, r)) /\ UNCHANGED vars

Next == \/ \E w \in SWorker : Issue(w) \/ Deliver(w)
        \/ Dispatch
        \/ \E r \in RWorker : Process(r)
        \/ \E t \in Thread : Notify(t)
        \/ Done
        \/ Deadlocked

Spec == Init /\ [][Next]_vars

(* As long as some thread can serve its readable pipe or complete a write, *)
(* one does; new requests are not certain to come.                         *)
FairSpec ==
    /\ Spec
    /\ WF_vars(\/ \E w \in SWorker : Deliver(w)
               \/ Dispatch
               \/ \E r \in RWorker : Process(r)
               \/ \E t \in Thread : Notify(t))

-----------------------------------------------------------------------------
(* The types of the queues, the pipes and the threads.                     *)
TypeOK ==
    /\ issued \in Seq(Request)
    /\ queue \in [Thread -> Seq(Msg)]
    /\ pipe \in [Thread -> 0 .. PipeCap]
    /\ owes \in [Thread -> Thread]
    /\ done \in Seq(Msg) /\ dropped \subseteq Msg
    /\ answered \in [SWorker -> SUBSET Msg]

Entries(s) == {s[i] : i \in 1 .. Len(s)}

(* Threads that have pushed into t's queue and not yet written to its pipe.*)
Owing(t) == {u \in Thread : u # t /\ owes[u] = t}

(* One int in the pipe, or one about to be written, for each queued        *)
(* message, with any number of producers between push and notify: a        *)
(* receiver never pops an empty queue and no message waits without a       *)
(* notification.                                                           *)
TokenPerMessage ==
    /\ TypeOK
    /\ \A t \in Thread : Len(queue[t]) = pipe[t] + Cardinality(Owing(t))

(* The commands of one stream are carried out in the order in which they   *)
(* were issued, whichever SignalingWorkers they came through: a push after *)
(* a stop stays after it.                                                  *)
StreamOrder ==
    \A i, j \in 1 .. Len(done) :
        i < j /\ issued[done[i]].stream = issued[done[j]].stream => done[i] < done[j]

(* Every request is in exactly one place on its way: at RtcServer, at its  *)
(* stream's RtcWorker, dropped, or carried out; an offer that was carried  *)
(* out is on its way back to the worker it came from or has arrived there. *)
Accounted ==
    \A m \in Msg :
        LET places == {t \in Thread : m \in Entries(queue[t])}
            q == issued[m]
        IN \/ places = {Server} /\ m \notin Entries(done) \cup dropped
           \/ places = {Route[q.stream]} /\ m \notin Entries(done) \cup dropped
           \/ places = {} /\ m \in dropped \ Entries(done)
           \/ /\ m \in Entries(done) \ dropped
              /\ \/ q.kind = "COMMAND" /\ places = {}
                 \/ q.kind = "OFFER" /\ places = {q.worker} /\ m \notin answered[q.worker]
                 \/ q.kind = "OFFER" /\ places = {} /\ m \in answered[q.worker]

(* Everything asked for has been served: every command that was not        *)
(* dropped for want of a certificate carried out, every offer returned.    *)
AllServed ==
    \A m \in Msg \ dropped :
        /\ m \in Entries(done)
        /\ issued[m].kind = "OFFER" => m \in answered[issued[m].worker]

Waiting(w, r) == Len(queue[w]) + Len(queue[Server]) + Len(queue[r])

(* What it takes for the three pipes to block.                             *)
CycleIsFull ==
    \A w \in SWorker, r \in RWorker : Cycle(w, r) => Waiting(w, r) >= 3 * PipeCap + 3

=============================================================================
