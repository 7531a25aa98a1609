----------------------- MODULE MessagePipeline_proofs -----------------------
(***************************************************************************)
(* Notifications, order and whereabouts of the requests, for any number of *)
(* workers, streams and requests, any assignment of streams to workers and *)
(* any size of the pipes.                                                  *)
(***************************************************************************)
EXTENDS MessagePipeline, FiniteSetTheorems, TLAPS

Increasing(q) == \A i, j \in 1 .. Len(q) : i < j => q[i] < q[j]

NoRepeats(q) == \A i, j \in 1 .. Len(q) : i # j => q[i] # q[j]

(* Every queue holds a message at most once; RtcServer and the RtcWorkers  *)
(* get theirs in the order of issue.                                       *)
InQueue ==
    /\ \A t \in Thread : NoRepeats(queue[t])
    /\ \A t \in RWorker \cup {Server} : Increasing(queue[t])

(* RtcServer has handed on everything issued before what it still has.     *)
ServerLast ==
    \A m \in Entries(queue[Server]) :
        /\ \A k \in Entries(done) : k < m
        /\ \A r \in RWorker : \A k \in Entries(queue[r]) : k < m

(* A worker has carried out everything of its streams issued before.       *)
WorkerLast ==
    \A r \in RWorker : \A m \in Entries(queue[r]), k \in Entries(done) :
        Route[issued[k].stream] = r => k < m

(* What was answered has been carried out.                                 *)
AnsweredDone == \A w \in SWorker : answered[w] \subseteq Entries(done)

IInv ==
    /\ TokenPerMessage /\ InQueue /\ ServerLast /\ WorkerLast
    /\ StreamOrder /\ Accounted /\ AnsweredDone

-----------------------------------------------------------------------------
(* What taking the first element of a queue leaves.                        *)
LEMMA Pop ==
    ASSUME NEW S, NEW q \in Seq(S), q # <<>>, NoRepeats(q)
    PROVE  /\ Head(q) \in S /\ Tail(q) \in Seq(S) /\ Len(Tail(q)) = Len(q) - 1
           /\ Head(q) \in Entries(q)
           /\ Entries(Tail(q)) = Entries(q) \ {Head(q)}
           /\ NoRepeats(Tail(q))
           /\ Increasing(q) => /\ Increasing(Tail(q))
                               /\ \A x \in Entries(Tail(q)) : Head(q) < x
  <1>1. /\ Len(q) \in Nat \ {0} /\ Head(q) = q[1] /\ Tail(q) \in Seq(S) /\ Len(Tail(q)) = Len(q) - 1
        /\ \A i \in 1 .. Len(q) - 1 : Tail(q)[i] = q[i + 1]
    OBVIOUS
  <1>2. Head(q) \in S /\ Head(q) \in Entries(q)
    BY <1>1 DEF Entries
  <1>3. Entries(Tail(q)) = Entries(q) \ {Head(q)}
    <2>1. ASSUME NEW x \in Entries(Tail(q)) PROVE x \in Entries(q) /\ x # Head(q)
      BY <1>1 DEF Entries, NoRepeats
    <2>2. ASSUME NEW x \in Entries(q), x # Head(q) PROVE x \in Entries(Tail(q))
      <3>1. PICK i \in 1 .. Len(q) : q[i] = x
        BY DEF Entries
      <3>2. i - 1 \in 1 .. Len(q) - 1 /\ Tail(q)[i - 1] = x
        BY <3>1, <2>2, <1>1
      <3> QED BY <3>2, <1>1 DEF Entries
    <2> QED BY <2>1, <2>2
  <1>4. NoRepeats(Tail(q))
    BY <1>1 DEF NoRepeats
  <1>5. Increasing(q) => Increasing(Tail(q)) /\ \A x \in Entries(Tail(q)) : Head(q) < x
    BY <1>1 DEF Increasing, Entries
  <1> QED BY <1>1, <1>2, <1>3, <1>4, <1>5

(* What appending an element to a queue makes of it.                       *)
LEMMA Put ==
    ASSUME NEW S, NEW q \in Seq(S), NEW m \in S
    PROVE  /\ Append(q, m) \in Seq(S) /\ Len(Append(q, m)) = Len(q) + 1
           /\ Entries(Append(q, m)) = Entries(q) \cup {m}
           /\ NoRepeats(q) /\ m \notin Entries(q) => NoRepeats(Append(q, m))
           /\ Increasing(q) /\ (\A x \in Entries(q) : x < m) => Increasing(Append(q, m))
  <1>1. /\ Append(q, m) \in Seq(S) /\ Len(Append(q, m)) = Len(q) + 1 /\ Len(q) \in Nat
        /\ Append(q, m)[Len(q) + 1] = m
        /\ \A i \in 1 .. Len(q) : Append(q, m)[i] = q[i]
    OBVIOUS
  <1>2. Entries(Append(q, m)) = Entries(q) \cup {m}
    <2>1. ASSUME NEW x \in Entries(Append(q, m)) PROVE x \in Entries(q) \cup {m}
      BY <1>1 DEF Entries
    <2>2. ASSUME NEW x \in Entries(q) PROVE x \in Entries(Append(q, m))
      BY <1>1 DEF Entries
    <2>3. m \in Entries(Append(q, m))
      BY <1>1 DEF Entries
    <2> QED BY <2>1, <2>2, <2>3
  <1>3. NoRepeats(q) /\ m \notin Entries(q) => NoRepeats(Append(q, m))
    BY <1>1 DEF NoRepeats, Entries
  <1>4. Increasing(q) /\ (\A x \in Entries(q) : x < m) => Increasing(Append(q, m))
    <2> SUFFICES ASSUME Increasing(q), \A x \in Entries(q) : x < m,
                        NEW i \in 1 .. Len(q) + 1, NEW j \in 1 .. Len(q) + 1, i < j
                 PROVE  Append(q, m)[i] < Append(q, m)[j]
      BY <1>1 DEF Increasing
    <2>1. i \in 1 .. Len(q) /\ Append(q, m)[i] = q[i] /\ q[i] \in Entries(q)
      BY <1>1 DEF Entries
    <2>2. CASE j = Len(q) + 1
      BY <2>1, <2>2, <1>1
    <2>3. CASE j # Len(q) + 1
      BY <2>1, <2>3, <1>1 DEF Increasing
    <2> QED BY <2>2, <2>3
  <1> QED BY <1>1, <1>2, <1>3, <1>4

(* The threads, and who is none of the others.                             *)
LEMMA Threads ==
    /\ Server \in Thread /\ SWorker \subseteq Thread /\ RWorker \subseteq Thread
    /\ Server \notin SWorker /\ Server \notin RWorker
    /\ \A w \in SWorker : w \notin RWorker
    /\ Thread = SWorker \cup RWorker \cup {Server}
  BY WorkerAssumption, ServerAssumption DEF Thread

LEMMA OwingFinite ==
    ASSUME NEW t \in Thread
    PROVE  IsFiniteSet(Owing(t)) /\ Cardinality(Owing(t)) \in Nat
  <1>1. IsFiniteSet(Thread)
    BY WorkerAssumption, FS_AddElement DEF Thread
  <1>2. Owing(t) \subseteq Thread
    BY DEF Owing
  <1> QED BY <1>1, <1>2, FS_Subset, FS_CardinalityType

(* A push makes the sender owe a notification to the receiver alone.       *)
LEMMA OwingAfterPush ==
    ASSUME owes \in [Thread -> Thread], NEW from \in Thread, NEW to \in Thread,
           from # to, Idle(from), owes' = [owes EXCEPT ![from] = to]
    PROVE  \A t \in Thread : Cardinality(Owing(t)') =
                               Cardinality(Owing(t)) + (IF t = to THEN 1 ELSE 0)
  <1>1. \A t \in Thread \ {to} : Owing(t)' = Owing(t)
    BY DEF Owing, Idle
  <1>2. Owing(to)' = Owing(to) \cup {from} /\ from \notin Owing(to)
    BY DEF Owing, Idle
  <1>3. Cardinality(Owing(to)') = Cardinality(Owing(to)) + 1
    BY <1>2, OwingFinite, FS_AddElement
  <1>4. \A t \in Thread : Cardinality(Owing(t)) \in Nat
    BY OwingFinite
  <1> QED BY <1>1, <1>3, <1>4

LEMMA OwingAfterNotify ==
    ASSUME owes \in [Thread -> Thread], NEW t \in Thread, NEW to \in Thread,
           to = owes[t], t # to, owes' = [owes EXCEPT ![t] = t]
    PROVE  \A u \in Thread : Cardinality(Owing(u)') =
                               Cardinality(Owing(u)) - (IF u = to THEN 1 ELSE 0)
  <1>1. \A u \in Thread \ {to} : Owing(u)' = Owing(u)
    BY DEF Owing
  <1>2. Owing(to)' = Owing(to) \ {t} /\ t \in Owing(to)
    BY DEF Owing
  <1>3. Cardinality(Owing(to)') = Cardinality(Owing(to)) - 1
    BY <1>2, OwingFinite, FS_RemoveElement
  <1>4. \A u \in Thread : Cardinality(Owing(u)) \in Nat
    BY OwingFinite
  <1> QED BY <1>1, <1>3, <1>4

-----------------------------------------------------------------------------
(* The threads that have message m in their queue.                         *)
Places(m) == {t \in Thread : m \in Entries(queue[t])}

(* The alternatives of Accounted.                                          *)
AtServer(m) == Places(m) = {Server} /\ m \notin Entries(done) \cup dropped
AtWorker(m) == Places(m) = {Route[issued[m].stream]} /\ m \notin Entries(done) \cup dropped
Lost(m) == Places(m) = {} /\ m \in dropped \ Entries(done)
CarriedOut(m) ==
    /\ m \in Entries(done) \ dropped
    /\ LET q == issued[m]
       IN \/ q.kind = "COMMAND" /\ Places(m) = {}
          \/ q.kind = "OFFER" /\ Places(m) = {q.worker} /\ m \notin answered[q.worker]
          \/ q.kind = "OFFER" /\ Places(m) = {} /\ m \in answered[q.worker]

LEMMA AccountedIs ==
    Accounted <=> \A m \in Msg : AtServer(m) \/ AtWorker(m) \/ Lost(m) \/ CarriedOut(m)
  BY DEF Accounted, AtServer, AtWorker, Lost, CarriedOut, Places

LEMMA AccountedNext ==
    Accounted' <=> \A m \in Msg' : (AtServer(m) \/ AtWorker(m) \/ Lost(m) \/ CarriedOut(m))'
  BY DEF Accounted, AtServer, AtWorker, Lost, CarriedOut, Places

(* What the queues of a correct state hold.                                *)
LEMMA QueueFacts ==
    ASSUME TypeOK, NEW t \in Thread
    PROVE  /\ queue[t] \in Seq(Msg) /\ Entries(queue[t]) \subseteq Msg
           /\ Len(queue[t]) \in Nat /\ pipe[t] \in Nat
           /\ Entries(done) \subseteq Msg
           /\ Len(issued) \in Nat /\ \A m \in Msg : issued[m] \in Request
  BY DEF TypeOK, Entries, Msg

LEMMA InitInv == Init => IInv
  <1> SUFFICES ASSUME Init PROVE IInv
    OBVIOUS
  <1>1. TypeOK
    BY PipeAssumption DEF Init, TypeOK, Msg
  <1>2. \A t \in Thread : Owing(t) = {} /\ Len(queue[t]) = 0 /\ pipe[t] = 0
    BY DEF Init, Owing
  <1>3. \A t \in Thread : Cardinality(Owing(t)) = 0
    BY <1>2, FS_EmptySet
  <1>3a. TokenPerMessage
    BY <1>1, <1>2, <1>3 DEF TokenPerMessage
  <1>4. \A t \in Thread : Entries(queue[t]) = {}
    BY <1>2 DEF Entries
  <1>5. InQueue
    BY <1>2, Threads DEF InQueue, NoRepeats, Increasing
  <1>6. ServerLast /\ WorkerLast
    BY <1>4, Threads DEF ServerLast, WorkerLast
  <1>7. StreamOrder /\ Accounted
    BY DEF Init, StreamOrder, Accounted, Msg
  <1>8. AnsweredDone
    BY DEF Init, AnsweredDone
  <1> QED BY <1>3a, <1>5, <1>6, <1>7, <1>8 DEF IInv

-----------------------------------------------------------------------------
(* push_msg() by a signalling worker: the youngest message goes to the end *)
(* of RtcServer's queue.                                                   *)
LEMMA IssueKeeps ==
    ASSUME IInv, NEW w \in SWorker, Issue(w)
    PROVE  IInv'
  <1>0. PICK n \in Nat : n = Len(issued) + 1
    BY DEF IInv, TokenPerMessage, TypeOK
  <1>1. /\ TypeOK /\ w \in Thread /\ Server \in Thread /\ w # Server /\ Idle(w)
        /\ n \in Nat /\ n \notin Msg /\ Msg' = Msg \cup {n} /\ \A m \in Msg : m < n
        /\ queue' = [queue EXCEPT ![Server] = Append(@, n)]
        /\ owes' = [owes EXCEPT ![w] = Server]
        /\ UNCHANGED <<pipe, done, dropped, answered>>
    <2>1. PICK q \in Asked : issued' = Append(issued, q)
      BY DEF Issue
    <2>2. TypeOK /\ issued \in Seq(Request)
      BY DEF IInv, TokenPerMessage, TypeOK
    <2>3. Len(issued') = n /\ Len(issued) \in Nat
      BY <1>0, <2>1, <2>2
    <2> QED BY <1>0, <2>2, <2>3, Threads DEF Issue, Push, Msg
  <1>2. issued' \in Seq(Request) /\ \A m \in Msg : issued'[m] = issued[m]
    <2>1. PICK q \in Asked : issued' = Append(issued, q)
      BY DEF Issue
    <2>2. q \in Request
      BY AskedAssumption
    <2> QED BY <1>0, <2>1, <2>2, <1>1 DEF TypeOK, Msg
  <1>3. /\ queue'[Server] = Append(queue[Server], n)
        /\ \A t \in Thread \ {Server} : queue'[t] = queue[t]
    BY <1>1 DEF TypeOK
  <1>4. \A t \in Thread : queue[t] \in Seq(Msg \cup {n}) /\ queue'[t] \in Seq(Msg \cup {n})
    BY <1>1, <1>3 DEF TypeOK
  <1>5. TypeOK'
    <2>1. queue' \in [Thread -> Seq(Msg')]
      BY <1>1, <1>4 DEF TypeOK
    <2>2. done' \in Seq(Msg') /\ dropped' \subseteq Msg' /\ answered' \in [SWorker -> SUBSET Msg']
      BY <1>1 DEF TypeOK
    <2>3. pipe' \in [Thread -> 0 .. PipeCap] /\ owes' \in [Thread -> Thread]
      BY <1>1 DEF TypeOK
    <2> QED BY <1>2, <2>1, <2>2, <2>3 DEF TypeOK
  <1>6. /\ Entries(queue'[Server]) = Entries(queue[Server]) \cup {n}
        /\ Len(queue'[Server]) = Len(queue[Server]) + 1
        /\ n \notin Entries(queue[Server]) /\ \A x \in Entries(queue[Server]) : x < n
        /\ NoRepeats(queue'[Server]) /\ Increasing(queue'[Server])
    <2>1. n \notin Entries(queue[Server]) /\ \A x \in Entries(queue[Server]) : x < n
      BY <1>1, QueueFacts
    <2>2. NoRepeats(queue[Server]) /\ Increasing(queue[Server])
      BY <1>1 DEF IInv, InQueue
    <2> QED BY <1>1, <1>3, <1>4, <2>1, <2>2, Put
  <1>7. TokenPerMessage'
    <2>1. \A t \in Thread : Cardinality(Owing(t)') =
                              Cardinality(Owing(t)) + (IF t = Server THEN 1 ELSE 0)
      BY <1>1, OwingAfterPush DEF TypeOK
    <2>3. \A t \in Thread : /\ Len(queue[t]) = pipe[t] + Cardinality(Owing(t)) /\ pipe'[t] = pipe[t]
                            /\ pipe[t] \in Nat /\ Cardinality(Owing(t)) \in Nat
      BY <1>1, QueueFacts, OwingFinite DEF IInv, TokenPerMessage
    <2>4. \A t \in Thread : Len(queue'[t]) = pipe'[t] + Cardinality(Owing(t)')
      <3> TAKE t \in Thread
      <3>1. CASE t = Server
        BY <3>1, <1>6, <2>1, <2>3
      <3>2. CASE t # Server
        BY <3>2, <1>3, <2>1, <2>3
      <3> QED BY <3>1, <3>2
    <2> QED BY <1>5, <2>4 DEF TokenPerMessage
  <1>8. InQueue'
    BY <1>3, <1>6, Threads DEF IInv, InQueue
  <1>9. ServerLast'
    <2>1. ASSUME NEW m \in Entries(queue'[Server]), NEW k \in Entries(done') PROVE k < m
      BY <1>1, <1>6, QueueFacts DEF IInv, ServerLast
    <2>2. ASSUME NEW m \in Entries(queue'[Server]), NEW r \in RWorker, NEW k \in Entries(queue'[r])
          PROVE  k < m
      BY <1>1, <1>3, <1>6, QueueFacts, Threads DEF IInv, ServerLast
    <2> QED BY <2>1, <2>2 DEF ServerLast
  <1>10. WorkerLast' /\ StreamOrder'
    <2>1. Entries(done) \subseteq Msg
      BY <1>1, QueueFacts
    <2>2. \A i \in 1 .. Len(done) : done[i] \in Msg
      BY <2>1 DEF Entries
    <2>3. \A k \in Entries(done) : issued'[k] = issued[k]
      BY <2>1, <1>2
    <2>4. WorkerLast'
      BY <1>1, <1>3, <2>3, Threads DEF IInv, WorkerLast
    <2>5. \A i \in 1 .. Len(done) : issued'[done[i]] = issued[done[i]]
      BY <2>2, <1>2
    <2>6. StreamOrder'
      BY <1>1, <2>5 DEF IInv, StreamOrder
    <2> QED BY <2>4, <2>6
  <1>11. Accounted'
    <2>1. AtServer(n)'
      <3>1. \A t \in Thread : n \in Entries(queue'[t]) <=> t = Server
        BY <1>1, <1>3, <1>6, QueueFacts
      <3>2. n \notin Entries(done') \cup dropped'
        BY <1>1, QueueFacts DEF TypeOK
      <3>3. {t \in Thread : n \in Entries(queue'[t])} = {Server}
        BY <3>1, <1>1
      <3> QED BY <3>2, <3>3, <1>1 DEF AtServer, Places
    <2>2. ASSUME NEW m \in Msg PROVE (AtServer(m) \/ AtWorker(m) \/ Lost(m) \/ CarriedOut(m))'
      <3>1. \A t \in Thread : m \in Entries(queue'[t]) <=> m \in Entries(queue[t])
        BY <1>1, <1>3, <1>6
      <3>2. Places(m)' = Places(m)
        BY <3>1 DEF Places
      <3>3. AtServer(m) \/ AtWorker(m) \/ Lost(m) \/ CarriedOut(m)
        BY AccountedIs DEF IInv
      <3> QED BY <3>2, <3>3, <1>1, <1>2 DEF AtServer, AtWorker, Lost, CarriedOut
    <2>3. \A m \in Msg' : (AtServer(m) \/ AtWorker(m) \/ Lost(m) \/ CarriedOut(m))'
      BY <2>1, <2>2, <1>1
    <2> QED BY <2>3, AccountedNext
  <1>12. AnsweredDone'
    BY <1>1 DEF IInv, AnsweredDone
  <1> QED BY <1>7, <1>8, <1>9, <1>10, <1>11, <1>12 DEF IInv

-----------------------------------------------------------------------------
(* q: the queues with m taken out of t's.                                  *)
TakenFrom(t, m, q) ==
    /\ m \in Msg /\ m \in Entries(queue[t]) /\ q \in [Thread -> Seq(Msg)]
    /\ Len(q[t]) = Len(queue[t]) - 1
    /\ Entries(q[t]) = Entries(queue[t]) \ {m}
    /\ \A u \in Thread \ {t} : q[u] = queue[u]
    /\ \A u \in Thread : NoRepeats(q[u])
    /\ Increasing(queue[t]) => Increasing(q[t]) /\ \A x \in Entries(q[t]) : m < x

(* A message is taken out of t's queue ...                                 *)
LEMMA Consumed ==
    ASSUME TypeOK, InQueue, NEW t \in Thread, queue[t] # <<>>
    PROVE  TakenFrom(t, Head(queue[t]), Popped(t))
  <1> DEFINE m == Head(queue[t])
             q == Popped(t)
  <1>1. /\ \A u \in Thread : queue[u] \in Seq(Msg) /\ NoRepeats(queue[u])
        /\ queue \in [Thread -> Seq(Msg)]
    BY DEF TypeOK, InQueue
  <1>2. /\ m \in Msg /\ m \in Entries(queue[t]) /\ Tail(queue[t]) \in Seq(Msg)
        /\ Len(Tail(queue[t])) = Len(queue[t]) - 1
        /\ Entries(Tail(queue[t])) = Entries(queue[t]) \ {m} /\ NoRepeats(Tail(queue[t]))
        /\ Increasing(queue[t]) => /\ Increasing(Tail(queue[t]))
                                   /\ \A x \in Entries(Tail(queue[t])) : m < x
    BY <1>1, Pop
  <1>3. /\ q \in [Thread -> Seq(Msg)] /\ q[t] = Tail(queue[t])
        /\ \A u \in Thread \ {t} : q[u] = queue[u]
    BY <1>1, <1>2 DEF Popped
  <1>4. \A u \in Thread : NoRepeats(q[u])
    BY <1>1, <1>2, <1>3
  <1> QED BY <1>2, <1>3, <1>4 DEF TakenFrom

(* ... and goes to the end of another's.                                   *)
Moved(t, to) == [Popped(t) EXCEPT ![to] = Append(@, Head(queue[t]))]

(* q: the queues with m taken out of t's and put into to's.                *)
MovedTo(t, to, m, q) ==
    /\ q \in [Thread -> Seq(Msg)]
    /\ Len(q[t]) = Len(queue[t]) - 1 /\ Len(q[to]) = Len(queue[to]) + 1
    /\ Entries(q[t]) = Entries(queue[t]) \ {m}
    /\ Entries(q[to]) = Entries(queue[to]) \cup {m}
    /\ \A u \in Thread \ {t, to} : q[u] = queue[u]
    /\ \A u \in Thread : NoRepeats(q[u])
    /\ Increasing(queue[t]) => Increasing(q[t]) /\ \A x \in Entries(q[t]) : m < x
    /\ Increasing(queue[to]) /\ (\A x \in Entries(queue[to]) : x < m) => Increasing(q[to])

LEMMA Forwarded ==
    ASSUME TypeOK, InQueue, NEW t \in Thread, queue[t] # <<>>, NEW to \in Thread, to # t,
           Head(queue[t]) \notin Entries(queue[to])
    PROVE  MovedTo(t, to, Head(queue[t]), Moved(t, to))
  <1> DEFINE m == Head(queue[t])
             q == Moved(t, to)
  <1>1. /\ \A u \in Thread : queue[u] \in Seq(Msg) /\ NoRepeats(queue[u])
        /\ queue \in [Thread -> Seq(Msg)]
    BY DEF TypeOK, InQueue
  <1>2. /\ m \in Msg /\ m \in Entries(queue[t]) /\ Tail(queue[t]) \in Seq(Msg)
        /\ Len(Tail(queue[t])) = Len(queue[t]) - 1
        /\ Entries(Tail(queue[t])) = Entries(queue[t]) \ {m} /\ NoRepeats(Tail(queue[t]))
        /\ Increasing(queue[t]) => /\ Increasing(Tail(queue[t]))
                                   /\ \A x \in Entries(Tail(queue[t])) : m < x
    BY <1>1, Pop
  <1>3. /\ Append(queue[to], m) \in Seq(Msg) /\ Len(Append(queue[to], m)) = Len(queue[to]) + 1
        /\ Entries(Append(queue[to], m)) = Entries(queue[to]) \cup {m}
        /\ NoRepeats(Append(queue[to], m))
        /\ Increasing(queue[to]) /\ (\A x \in Entries(queue[to]) : x < m)
           => Increasing(Append(queue[to], m))
    BY <1>1, <1>2, Put
  <1>4. /\ q \in [Thread -> Seq(Msg)] /\ q[t] = Tail(queue[t]) /\ q[to] = Append(queue[to], m)
        /\ \A u \in Thread \ {t, to} : q[u] = queue[u]
    BY <1>1, <1>2, <1>3 DEF Moved, Popped
  <1>5. \A u \in Thread : NoRepeats(q[u])
    BY <1>1, <1>2, <1>3, <1>4
  <1> QED BY <1>2, <1>3, <1>4, <1>5 DEF MovedTo

(* A token is used up with the message it announced.                       *)
LEMMA CountsAfterTake ==
    ASSUME TokenPerMessage, InQueue, NEW t \in Thread, Take(t), queue[t] # <<>>,
           queue' = Popped(t), owes' = owes
    PROVE  \A u \in Thread : Len(queue'[u]) = pipe'[u] + Cardinality(Owing(u)')
  <1>1. TypeOK /\ pipe \in [Thread -> 0 .. PipeCap] /\ pipe' = [pipe EXCEPT ![t] = @ - 1]
    BY DEF TokenPerMessage, TypeOK, Take
  <1>2. \A u \in Thread : Owing(u)' = Owing(u)
    BY DEF Owing
  <1>3. Len(queue'[t]) = Len(queue[t]) - 1 /\ \A u \in Thread \ {t} : queue'[u] = queue[u]
    <2>1. TakenFrom(t, Head(queue[t]), Popped(t))
      BY <1>1, Consumed
    <2> QED BY <1>1, <2>1 DEF TakenFrom
  <1>4. \A u \in Thread : /\ Len(queue[u]) = pipe[u] + Cardinality(Owing(u))
                          /\ Cardinality(Owing(u)) \in Nat /\ pipe[u] \in Nat
    BY <1>1, OwingFinite, QueueFacts DEF TokenPerMessage
  <1>5. ASSUME NEW u \in Thread PROVE Len(queue'[u]) = pipe'[u] + Cardinality(Owing(u)')
    <2>1. CASE u = t
      BY <1>1, <1>2, <1>3, <1>4, <2>1
    <2>2. CASE u # t
      <3>1. queue'[u] = queue[u] /\ pipe'[u] = pipe[u]
        BY <1>1, <1>3, <2>2
      <3> QED BY <1>2, <1>4, <3>1
    <2> QED BY <2>1, <2>2
  <1> QED BY <1>5

(* Forwarding owes a token to the next thread.                             *)
LEMMA CountsAfterForward ==
    ASSUME TokenPerMessage, InQueue, NEW t \in Thread, Take(t), queue[t] # <<>>,
           NEW to \in Thread, to # t, Head(queue[t]) \notin Entries(queue[to]),
           Push(t, to, Head(queue[t]), Popped(t))
    PROVE  \A u \in Thread : Len(queue'[u]) = pipe'[u] + Cardinality(Owing(u)')
  <1>1. /\ TypeOK /\ pipe \in [Thread -> 0 .. PipeCap] /\ pipe' = [pipe EXCEPT ![t] = @ - 1]
        /\ owes \in [Thread -> Thread] /\ owes' = [owes EXCEPT ![t] = to] /\ Idle(t)
        /\ queue' = Moved(t, to)
    BY DEF TokenPerMessage, TypeOK, Take, Push, Moved
  <1>2. \A u \in Thread : Cardinality(Owing(u)') = Cardinality(Owing(u)) + (IF u = to THEN 1 ELSE 0)
    BY <1>1, OwingAfterPush
  <1>3. /\ Len(queue'[t]) = Len(queue[t]) - 1 /\ Len(queue'[to]) = Len(queue[to]) + 1
        /\ \A u \in Thread \ {t, to} : queue'[u] = queue[u]
    <2>1. MovedTo(t, to, Head(queue[t]), Moved(t, to))
      BY <1>1, Forwarded
    <2> QED BY <1>1, <2>1 DEF MovedTo
  <1>4. ASSUME NEW u \in Thread PROVE Len(queue'[u]) = pipe'[u] + Cardinality(Owing(u)')
    <2>1. /\ Len(queue[u]) = pipe[u] + Cardinality(Owing(u))
          /\ Cardinality(Owing(u)) \in Nat /\ pipe[u] \in Nat
      BY <1>1, OwingFinite, QueueFacts DEF TokenPerMessage
    <2>2. CASE u = t
      <3>1. Len(queue'[u]) = Len(queue[u]) - 1 /\ pipe'[u] = pipe[u] - 1
        BY <1>1, <1>3, <2>2
      <3>2. Cardinality(Owing(u)') = Cardinality(Owing(u))
        BY <1>2, <2>1, <2>2
      <3> QED BY <2>1, <3>1, <3>2
    <2>3. CASE u = to
      <3>1. Len(queue'[u]) = Len(queue[u]) + 1 /\ pipe'[u] = pipe[u]
        BY <1>1, <1>3, <2>3
      <3>2. Cardinality(Owing(u)') = Cardinality(Owing(u)) + 1
        BY <1>2, <2>1, <2>3
      <3> QED BY <2>1, <3>1, <3>2
    <2>4. CASE u # t /\ u # to
      <3>1. Len(queue'[u]) = Len(queue[u]) /\ pipe'[u] = pipe[u]
        BY <1>1, <1>3, <2>4
      <3>2. Cardinality(Owing(u)') = Cardinality(Owing(u))
        BY <1>2, <2>1, <2>4
      <3> QED BY <2>1, <3>1, <3>2
    <2> QED BY <2>2, <2>3, <2>4
  <1> QED BY <1>4

(* A message is where it should be: at RtcServer, at its stream's worker,  *)
(* or, as an answered offer, at the signalling worker it came from.        *)
LEMMA Located ==
    ASSUME IInv, NEW t \in Thread, NEW m \in Entries(queue[t])
    PROVE  /\ m \in Msg /\ Places(m) = {t}
           /\ t = Server => m \notin Entries(done) \cup dropped
           /\ t \in RWorker => m \notin Entries(done) \cup dropped /\ Route[issued[m].stream] = t
           /\ t \in SWorker => /\ m \in Entries(done) \ dropped /\ m \notin answered[t]
                               /\ issued[m].kind = "OFFER" /\ issued[m].worker = t
  <1>1. m \in Msg /\ t \in Places(m) /\ issued[m] \in Request
    <2>1. TypeOK /\ Entries(queue[t]) \subseteq Msg /\ \A k \in Msg : issued[k] \in Request
      BY QueueFacts DEF IInv, TokenPerMessage
    <2> QED BY <2>1 DEF Places
  <1>2. AtServer(m) \/ AtWorker(m) \/ Lost(m) \/ CarriedOut(m)
    BY <1>1, AccountedIs DEF IInv
  <1>3. Route[issued[m].stream] \in RWorker /\ issued[m].worker \in SWorker
    BY <1>1, RouteAssumption DEF Request
  <1>4. CASE AtServer(m)
    BY <1>1, <1>4, Threads DEF AtServer
  <1>5. CASE AtWorker(m)
    BY <1>1, <1>3, <1>5, Threads DEF AtWorker
  <1>6. CASE CarriedOut(m)
    BY <1>1, <1>3, <1>6, Threads DEF CarriedOut
  <1> QED BY <1>1, <1>2, <1>4, <1>5, <1>6 DEF Lost

(* What does not touch a message leaves it accounted for.                  *)
LEMMA Untouched ==
    ASSUME IInv, NEW x \in Msg, issued' = issued,
           \A t \in Thread : x \in Entries(queue'[t]) <=> x \in Entries(queue[t]),
           x \in Entries(done') <=> x \in Entries(done), x \in dropped' <=> x \in dropped,
           \A w \in SWorker : x \in answered'[w] <=> x \in answered[w]
    PROVE  (AtServer(x) \/ AtWorker(x) \/ Lost(x) \/ CarriedOut(x))'
  <1>1. Places(x)' = Places(x)
    BY DEF Places
  <1>2. issued[x].worker \in SWorker
    <2>1. TypeOK /\ Server \in Thread
      BY Threads DEF IInv, TokenPerMessage
    <2>2. issued[x] \in Request
      BY <2>1, QueueFacts
    <2> QED BY <2>2 DEF Request
  <1>3. AtServer(x) \/ AtWorker(x) \/ Lost(x) \/ CarriedOut(x)
    BY AccountedIs DEF IInv
  <1> QED BY <1>1, <1>2, <1>3 DEF AtServer, AtWorker, Lost, CarriedOut

-----------------------------------------------------------------------------
(* notify() pays what was owed.                                            *)
LEMMA NotifyKeeps ==
    ASSUME IInv, NEW t \in Thread, Notify(t)
    PROVE  IInv'
  <1>1. PICK to \in Thread : to = owes[t] /\ to # t
    BY DEF IInv, TokenPerMessage, TypeOK, Notify, Idle
  <1>2. /\ TypeOK /\ pipe[to] < PipeCap /\ pipe' = [pipe EXCEPT ![to] = @ + 1]
        /\ owes' = [owes EXCEPT ![t] = t]
        /\ UNCHANGED <<issued, queue, done, dropped, answered>>
    BY <1>1 DEF IInv, TokenPerMessage, Notify, Room
  <1>3. TypeOK'
    BY <1>1, <1>2, PipeAssumption DEF TypeOK, Msg
  <1>4. \A u \in Thread : Cardinality(Owing(u)') = Cardinality(Owing(u)) - (IF u = to THEN 1 ELSE 0)
    BY <1>1, <1>2, OwingAfterNotify DEF TypeOK
  <1>5. ASSUME NEW u \in Thread PROVE Len(queue'[u]) = pipe'[u] + Cardinality(Owing(u)')
    <2>1. /\ Len(queue[u]) = pipe[u] + Cardinality(Owing(u)) /\ queue'[u] = queue[u]
          /\ Cardinality(Owing(u)) \in Nat /\ pipe[u] \in Nat
      BY <1>2, OwingFinite, QueueFacts DEF IInv, TokenPerMessage
    <2>2. CASE u = to
      <3>1. pipe'[u] = pipe[u] + 1
        BY <1>2, <2>2 DEF TypeOK
      <3>2. Cardinality(Owing(u)') = Cardinality(Owing(u)) - 1
        BY <1>4, <2>2
      <3> QED BY <2>1, <3>1, <3>2
    <2>3. CASE u # to
      <3>1. pipe'[u] = pipe[u]
        BY <1>2, <2>3 DEF TypeOK
      <3>2. Cardinality(Owing(u)') = Cardinality(Owing(u))
        BY <1>4, <2>1, <2>3
      <3> QED BY <2>1, <3>1, <3>2
    <2> QED BY <2>2, <2>3
  <1>6. TokenPerMessage'
    BY <1>3, <1>5 DEF TokenPerMessage
  <1>7. InQueue' /\ ServerLast' /\ WorkerLast' /\ StreamOrder'
    BY <1>2 DEF IInv, InQueue, ServerLast, WorkerLast, StreamOrder
  <1>8. Accounted' /\ AnsweredDone'
    BY <1>2 DEF IInv, Accounted, Msg, AnsweredDone
  <1> QED BY <1>6, <1>7, <1>8 DEF IInv

-----------------------------------------------------------------------------
(* What RtcServer hands on.                                                *)
LEMMA ForwardKeeps ==
    ASSUME IInv, Take(Server), queue[Server] # <<>>,
           Push(Server, GetWorker(Head(queue[Server])), Head(queue[Server]), Popped(Server)),
           UNCHANGED <<issued, done, dropped, answered>>
    PROVE  IInv'
  <1>1. PICK m, to : m = Head(queue[Server]) /\ to = GetWorker(m)
    OBVIOUS
  <1>2. TypeOK /\ InQueue /\ Server \in Thread
    BY Threads DEF IInv, TokenPerMessage
  <1>3. m \in Entries(queue[Server])
    <2>1. TakenFrom(Server, Head(queue[Server]), Popped(Server))
      BY <1>2, Consumed
    <2> QED BY <1>1, <2>1 DEF TakenFrom
  <1>4. m \in Msg /\ Places(m) = {Server} /\ m \notin Entries(done) \cup dropped
    BY <1>2, <1>3, Located
  <1>5. to \in RWorker /\ to \in Thread /\ to # Server /\ to = Route[issued[m].stream]
    <2>1. issued[m] \in Request
      BY <1>2, <1>4, QueueFacts
    <2> QED BY <1>1, <2>1, RouteAssumption, Threads DEF Request, GetWorker
  <1>6. m \notin Entries(queue[to])
    BY <1>4, <1>5 DEF Places
  <1>7. /\ queue' = Moved(Server, to) /\ owes' = [owes EXCEPT ![Server] = to]
        /\ pipe' = [pipe EXCEPT ![Server] = @ - 1] /\ pipe[Server] > 0
    BY <1>1 DEF Take, Push, Moved
  <1>8. /\ queue' \in [Thread -> Seq(Msg)]
        /\ Entries(queue'[Server]) = Entries(queue[Server]) \ {m}
        /\ Entries(queue'[to]) = Entries(queue[to]) \cup {m}
        /\ \A u \in Thread \ {Server, to} : queue'[u] = queue[u]
        /\ \A u \in Thread : NoRepeats(queue'[u])
        /\ Increasing(queue[Server]) =>
              Increasing(queue'[Server]) /\ \A x \in Entries(queue'[Server]) : m < x
        /\ Increasing(queue[to]) /\ (\A x \in Entries(queue[to]) : x < m) => Increasing(queue'[to])
    <2>1. Head(queue[Server]) \notin Entries(queue[to])
      BY <1>1, <1>6
    <2>2. MovedTo(Server, to, Head(queue[Server]), Moved(Server, to))
      BY <1>2, <1>5, <2>1, Forwarded
    <2> QED BY <1>1, <1>7, <2>2 DEF MovedTo
  <1>9. TokenPerMessage'
    <2>1. TypeOK'
      <3>1. pipe' \in [Thread -> 0 .. PipeCap] /\ owes' \in [Thread -> Thread]
        BY <1>2, <1>5, <1>7, PipeAssumption DEF TypeOK
      <3> QED BY <1>2, <1>8, <3>1 DEF TypeOK, Msg
    <2>2. \A u \in Thread : Len(queue'[u]) = pipe'[u] + Cardinality(Owing(u)')
      BY <1>1, <1>2, <1>5, <1>6, CountsAfterForward DEF IInv
    <2> QED BY <2>1, <2>2 DEF TokenPerMessage
  <1>10. /\ \A k \in Entries(done) : k < m
         /\ \A r \in RWorker : \A k \in Entries(queue[r]) : k < m
    BY <1>3 DEF IInv, ServerLast
  <1>11. /\ Increasing(queue'[Server]) /\ \A x \in Entries(queue'[Server]) : m < x
         /\ Increasing(queue'[to])
    BY <1>2, <1>5, <1>8, <1>10 DEF InQueue
  <1>12. InQueue'
    BY <1>2, <1>8, <1>11, Threads DEF InQueue
  <1>13. ServerLast'
    <2>1. ASSUME NEW x \in Entries(queue'[Server]), NEW r \in RWorker, NEW k \in Entries(queue'[r])
          PROVE  k < x
      <3>1. x \in Entries(queue[Server]) /\ m < x
        BY <1>8, <1>11
      <3>2. k \in Entries(queue[r]) \/ k = m
        BY <1>8, Threads
      <3> QED BY <3>1, <3>2 DEF IInv, ServerLast
    <2>2. ASSUME NEW x \in Entries(queue'[Server]), NEW k \in Entries(done') PROVE k < x
      BY <1>8 DEF IInv, ServerLast
    <2> QED BY <2>1, <2>2 DEF ServerLast
  <1>14. WorkerLast'
    <2> SUFFICES ASSUME NEW r \in RWorker, NEW x \in Entries(queue'[r]), NEW k \in Entries(done),
                        Route[issued[k].stream] = r
                 PROVE  k < x
      BY DEF WorkerLast
    <2>1. x \in Entries(queue[r]) \/ x = m
      BY <1>8, Threads
    <2> QED BY <2>1, <1>10 DEF IInv, WorkerLast
  <1>15. StreamOrder' /\ AnsweredDone'
    BY DEF IInv, StreamOrder, AnsweredDone
  <1>16. Accounted'
    <2>1. AtWorker(m)'
      <3>1. \A t \in Thread : m \in Entries(queue'[t]) <=> t = to
        BY <1>4, <1>5, <1>6, <1>8 DEF Places
      <3>2. {t \in Thread : m \in Entries(queue'[t])} = {to}
        BY <1>5, <3>1
      <3> QED BY <1>4, <1>5, <3>2 DEF AtWorker, Places
    <2>2. ASSUME NEW x \in Msg, x # m PROVE (AtServer(x) \/ AtWorker(x) \/ Lost(x) \/ CarriedOut(x))'
      <3>1. \A t \in Thread : x \in Entries(queue'[t]) <=> x \in Entries(queue[t])
        BY <1>8, <2>2
      <3> QED BY <3>1, Untouched
    <2> QED BY <2>1, <2>2, AccountedNext DEF Msg
  <1> QED BY <1>9, <1>12, <1>13, <1>14, <1>15, <1>16 DEF IInv

(* What RtcServer drops for want of a certificate.                         *)
LEMMA DropKeeps ==
    ASSUME IInv, Take(Server), queue[Server] # <<>>, queue' = Popped(Server),
           dropped' = dropped \cup {Head(queue[Server])},
           UNCHANGED <<issued, owes, done, answered>>
    PROVE  IInv'
  <1>1. PICK m : m = Head(queue[Server])
    OBVIOUS
  <1>2. TypeOK /\ InQueue /\ Server \in Thread
    BY Threads DEF IInv, TokenPerMessage
  <1>3. TakenFrom(Server, m, queue')
    <2>1. TakenFrom(Server, Head(queue[Server]), Popped(Server))
      BY <1>2, Consumed
    <2> QED BY <1>1, <2>1
  <1>4. m \in Msg /\ Places(m) = {Server} /\ m \notin Entries(done) \cup dropped
    BY <1>2, <1>3, Located DEF TakenFrom
  <1>5. \A u \in Thread : Entries(queue'[u]) \subseteq Entries(queue[u])
    BY <1>3 DEF TakenFrom
  <1>6. TokenPerMessage'
    <2>1. pipe' \in [Thread -> 0 .. PipeCap]
      BY <1>2, PipeAssumption DEF TypeOK, Take
    <2>2. TypeOK'
      BY <1>1, <1>2, <1>3, <1>4, <2>1 DEF TypeOK, Msg, TakenFrom
    <2>3. \A u \in Thread : Len(queue'[u]) = pipe'[u] + Cardinality(Owing(u)')
      BY <1>2, CountsAfterTake DEF IInv
    <2> QED BY <2>2, <2>3 DEF TokenPerMessage
  <1>7. InQueue'
    BY <1>2, <1>3, Threads DEF InQueue, TakenFrom
  <1>8. ServerLast' /\ WorkerLast' /\ StreamOrder'
    <2>1. ServerLast'
      BY <1>5, Threads DEF IInv, ServerLast
    <2>2. WorkerLast'
      BY <1>5, Threads DEF IInv, WorkerLast
    <2> QED BY <2>1, <2>2 DEF IInv, StreamOrder
  <1>9. Accounted'
    <2>1. Lost(m)'
      <3>1. \A t \in Thread : m \notin Entries(queue'[t])
        BY <1>3, <1>4 DEF Places, TakenFrom
      <3> QED BY <1>1, <1>4, <3>1 DEF Lost, Places
    <2>2. ASSUME NEW x \in Msg, x # m PROVE (AtServer(x) \/ AtWorker(x) \/ Lost(x) \/ CarriedOut(x))'
      <3>1. \A t \in Thread : x \in Entries(queue'[t]) <=> x \in Entries(queue[t])
        BY <1>3, <2>2 DEF TakenFrom
      <3>2. x \in dropped' <=> x \in dropped
        BY <1>1, <2>2
      <3> QED BY <3>1, <3>2, Untouched
    <2> QED BY <2>1, <2>2, AccountedNext DEF Msg
  <1>10. AnsweredDone'
    BY DEF IInv, AnsweredDone
  <1> QED BY <1>6, <1>7, <1>8, <1>9, <1>10 DEF IInv

LEMMA DispatchKeeps == IInv /\ Dispatch => IInv'
  <1> SUFFICES ASSUME IInv, Dispatch PROVE IInv'
    OBVIOUS
  <1>1. Take(Server) /\ queue[Server] # <<>> /\ UNCHANGED <<issued, done, answered>>
    BY DEF Dispatch
  <1>2. CASE /\ Push(Server, GetWorker(Head(queue[Server])), Head(queue[Server]), Popped(Server))
             /\ UNCHANGED dropped
    BY <1>1, <1>2, ForwardKeeps
  <1>3. CASE /\ queue' = Popped(Server) /\ dropped' = dropped \cup {Head(queue[Server])}
             /\ UNCHANGED owes
    BY <1>1, <1>3, DropKeeps
  <1> QED BY <1>2, <1>3 DEF Dispatch

-----------------------------------------------------------------------------
(* A worker carries out the oldest message it has: the order is kept.      *)
LEMMA OrderKept ==
    ASSUME IInv, NEW r \in RWorker, NEW m \in Entries(queue[r]),
           done' = Append(done, m), issued' = issued, answered' = answered,
           \A u \in RWorker \cup {Server} : Entries(queue'[u]) \subseteq Entries(queue[u]),
           \A x \in Entries(queue'[r]) : m < x
    PROVE  /\ Entries(done') = Entries(done) \cup {m}
           /\ ServerLast' /\ WorkerLast' /\ StreamOrder' /\ AnsweredDone'
  <1>1. m \in Msg /\ Route[issued[m].stream] = r
    BY Located, Threads
  <1>2. done \in Seq(Msg)
    BY DEF IInv, TokenPerMessage, TypeOK
  <1>3. Entries(done') = Entries(done) \cup {m}
    BY <1>1, <1>2, Put
  <1>4. ServerLast'
    <2>1. ASSUME NEW x \in Entries(queue'[Server]), NEW k \in Entries(done') PROVE k < x
      BY <1>3 DEF IInv, ServerLast
    <2>2. ASSUME NEW x \in Entries(queue'[Server]), NEW u \in RWorker, NEW k \in Entries(queue'[u])
          PROVE  k < x
      BY DEF IInv, ServerLast
    <2> QED BY <2>1, <2>2 DEF ServerLast
  <1>5. WorkerLast'
    <2> SUFFICES ASSUME NEW u \in RWorker, NEW x \in Entries(queue'[u]), NEW k \in Entries(done'),
                        Route[issued[k].stream] = u
                 PROVE  k < x
      BY DEF WorkerLast
    <2>1. CASE k = m
      BY <1>1, <2>1
    <2>2. CASE k \in Entries(done)
      BY <2>2 DEF IInv, WorkerLast
    <2> QED BY <1>3, <2>1, <2>2
  <1>6. StreamOrder'
    <2> SUFFICES ASSUME NEW i \in 1 .. Len(done'), NEW j \in 1 .. Len(done'), i < j,
                        issued[done'[i]].stream = issued[done'[j]].stream
                 PROVE  done'[i] < done'[j]
      BY DEF StreamOrder
    <2>1. /\ Len(done') = Len(done) + 1 /\ Len(done) \in Nat /\ done'[Len(done) + 1] = m
          /\ \A k \in 1 .. Len(done) : done'[k] = done[k]
      BY <1>1, <1>2
    <2>2. i \in 1 .. Len(done) /\ done'[i] = done[i] /\ done[i] \in Entries(done)
      BY <2>1 DEF Entries
    <2>3. CASE j = Len(done) + 1
      <3>1. done'[j] = m /\ Route[issued[done[i]].stream] = r
        BY <1>1, <2>1, <2>2, <2>3
      <3> QED BY <2>2, <3>1 DEF IInv, WorkerLast
    <2>4. CASE j # Len(done) + 1
      <3>1. j \in 1 .. Len(done) /\ done'[j] = done[j]
        BY <2>1, <2>4
      <3> QED BY <2>2, <3>1 DEF IInv, StreamOrder
    <2> QED BY <2>3, <2>4
  <1>7. AnsweredDone'
    BY <1>3 DEF IInv, AnsweredDone
  <1> QED BY <1>3, <1>4, <1>5, <1>6, <1>7

(* A command: nothing is sent.                                             *)
LEMMA CommandKeeps ==
    ASSUME IInv, NEW r \in RWorker, Take(r), queue[r] # <<>>, queue' = Popped(r),
           issued[Head(queue[r])].kind = "COMMAND", done' = Append(done, Head(queue[r])),
           UNCHANGED <<issued, owes, dropped, answered>>
    PROVE  IInv'
  <1>1. PICK m : m = Head(queue[r])
    OBVIOUS
  <1>2. TypeOK /\ InQueue /\ r \in Thread
    BY Threads DEF IInv, TokenPerMessage
  <1>3. TakenFrom(r, m, queue')
    <2>1. TakenFrom(r, Head(queue[r]), Popped(r))
      BY <1>2, Consumed
    <2> QED BY <1>1, <2>1
  <1>4. /\ m \in Entries(queue[r]) /\ m \in Msg /\ Places(m) = {r}
        /\ m \notin Entries(done) \cup dropped /\ issued[m].kind = "COMMAND"
    BY <1>1, <1>2, <1>3, Located DEF TakenFrom
  <1>5. \A u \in Thread : Entries(queue'[u]) \subseteq Entries(queue[u])
    BY <1>3 DEF TakenFrom
  <1>6. \A x \in Entries(queue'[r]) : m < x
    BY <1>2, <1>3 DEF InQueue, TakenFrom
  <1>7. /\ Entries(done') = Entries(done) \cup {m}
        /\ ServerLast' /\ WorkerLast' /\ StreamOrder' /\ AnsweredDone'
    BY <1>1, <1>4, <1>5, <1>6, OrderKept, Threads
  <1>8. TokenPerMessage'
    <2>1. pipe' \in [Thread -> 0 .. PipeCap]
      BY <1>2, PipeAssumption DEF TypeOK, Take
    <2>2. done' \in Seq(Msg)
      BY <1>1, <1>2, <1>4 DEF TypeOK
    <2>3. TypeOK'
      BY <1>2, <1>3, <2>1, <2>2 DEF TypeOK, Msg, TakenFrom
    <2>4. \A u \in Thread : Len(queue'[u]) = pipe'[u] + Cardinality(Owing(u)')
      BY <1>2, CountsAfterTake DEF IInv
    <2> QED BY <2>3, <2>4 DEF TokenPerMessage
  <1>9. InQueue'
    BY <1>2, <1>3, Threads DEF InQueue, TakenFrom
  <1>10. Accounted'
    <2>1. CarriedOut(m)'
      <3>1. \A t \in Thread : m \notin Entries(queue'[t])
        BY <1>3, <1>4 DEF Places, TakenFrom
      <3>2. {t \in Thread : m \in Entries(queue'[t])} = {}
        BY <3>1
      <3> QED BY <1>4, <1>7, <3>2 DEF CarriedOut, Places
    <2>2. ASSUME NEW x \in Msg, x # m PROVE (AtServer(x) \/ AtWorker(x) \/ Lost(x) \/ CarriedOut(x))'
      <3>1. \A t \in Thread : x \in Entries(queue'[t]) <=> x \in Entries(queue[t])
        BY <1>3, <2>2 DEF TakenFrom
      <3>2. x \in Entries(done') <=> x \in Entries(done)
        BY <1>7, <2>2
      <3> QED BY <3>1, <3>2, Untouched
    <2> QED BY <2>1, <2>2, AccountedNext DEF Msg
  <1> QED BY <1>7, <1>8, <1>9, <1>10 DEF IInv

(* An offer goes back to the signalling worker it came from.               *)
LEMMA OfferKeeps ==
    ASSUME IInv, NEW r \in RWorker, Take(r), queue[r] # <<>>,
           Push(r, issued[Head(queue[r])].worker, Head(queue[r]), Popped(r)),
           issued[Head(queue[r])].kind = "OFFER", done' = Append(done, Head(queue[r])),
           UNCHANGED <<issued, dropped, answered>>
    PROVE  IInv'
  <1>1. PICK m, to : m = Head(queue[r]) /\ to = issued[m].worker
    OBVIOUS
  <1>2. TypeOK /\ InQueue /\ r \in Thread
    BY Threads DEF IInv, TokenPerMessage
  <1>3. m \in Entries(queue[r])
    <2>1. TakenFrom(r, Head(queue[r]), Popped(r))
      BY <1>2, Consumed
    <2> QED BY <1>1, <2>1 DEF TakenFrom
  <1>4. /\ m \in Msg /\ Places(m) = {r} /\ m \notin Entries(done) \cup dropped
        /\ issued[m].kind = "OFFER"
    BY <1>1, <1>2, <1>3, Located
  <1>5. to \in SWorker /\ to \in Thread /\ to \notin RWorker \cup {Server} /\ to # r
    <2>1. issued[m] \in Request
      BY <1>2, <1>4, QueueFacts
    <2> QED BY <1>1, <2>1, Threads DEF Request
  <1>6. m \notin Entries(queue[to])
    BY <1>4, <1>5 DEF Places
  <1>7. /\ queue' = Moved(r, to) /\ owes' = [owes EXCEPT ![r] = to]
        /\ pipe' = [pipe EXCEPT ![r] = @ - 1] /\ pipe[r] > 0
    BY <1>1 DEF Take, Push, Moved
  <1>8. MovedTo(r, to, m, queue')
    <2>1. Head(queue[r]) \notin Entries(queue[to])
      BY <1>1, <1>6
    <2>2. MovedTo(r, to, Head(queue[r]), Moved(r, to))
      BY <1>2, <1>5, <2>1, Forwarded
    <2> QED BY <1>1, <1>7, <2>2
  <1>9. \A u \in RWorker \cup {Server} : Entries(queue'[u]) \subseteq Entries(queue[u])
    BY <1>5, <1>8, Threads DEF MovedTo
  <1>10. Increasing(queue'[r]) /\ \A x \in Entries(queue'[r]) : m < x
    BY <1>2, <1>8 DEF InQueue, MovedTo
  <1>11. /\ Entries(done') = Entries(done) \cup {m}
         /\ ServerLast' /\ WorkerLast' /\ StreamOrder' /\ AnsweredDone'
    BY <1>1, <1>3, <1>9, <1>10, OrderKept
  <1>12. TokenPerMessage'
    <2>1. pipe' \in [Thread -> 0 .. PipeCap] /\ owes' \in [Thread -> Thread]
      BY <1>2, <1>5, <1>7, PipeAssumption DEF TypeOK
    <2>2. done' \in Seq(Msg)
      BY <1>1, <1>2, <1>4 DEF TypeOK
    <2>3. TypeOK'
      BY <1>2, <1>8, <2>1, <2>2 DEF TypeOK, Msg, MovedTo
    <2>4. \A u \in Thread : Len(queue'[u]) = pipe'[u] + Cardinality(Owing(u)')
      BY <1>1, <1>2, <1>5, <1>6, CountsAfterForward DEF IInv
    <2> QED BY <2>3, <2>4 DEF TokenPerMessage
  <1>13. InQueue'
    BY <1>2, <1>5, <1>8, <1>10, Threads DEF InQueue, MovedTo
  <1>14. Accounted'
    <2>1. CarriedOut(m)'
      <3>1. \A t \in Thread : m \in Entries(queue'[t]) <=> t = to
        BY <1>4, <1>5, <1>6, <1>8 DEF Places, MovedTo
      <3>2. {t \in Thread : m \in Entries(queue'[t])} = {to}
        BY <1>5, <3>1
      <3>3. m \notin answered[to]
        BY <1>4, <1>5 DEF IInv, AnsweredDone
      <3> QED BY <1>1, <1>4, <1>11, <3>2, <3>3 DEF CarriedOut, Places
    <2>2. ASSUME NEW x \in Msg, x # m PROVE (AtServer(x) \/ AtWorker(x) \/ Lost(x) \/ CarriedOut(x))'
      <3>1. \A t \in Thread : x \in Entries(queue'[t]) <=> x \in Entries(queue[t])
        BY <1>8, <2>2 DEF MovedTo
      <3>2. x \in Entries(done') <=> x \in Entries(done)
        BY <1>11, <2>2
      <3> QED BY <3>1, <3>2, Untouched
    <2> QED BY <2>1, <2>2, AccountedNext DEF Msg
  <1> QED BY <1>11, <1>12, <1>13, <1>14 DEF IInv

LEMMA ProcessKeeps ==
    ASSUME IInv, NEW r \in RWorker, Process(r)
    PROVE  IInv'
  <1>1. /\ Take(r) /\ queue[r] # <<>> /\ done' = Append(done, Head(queue[r]))
        /\ UNCHANGED <<issued, dropped, answered>>
    BY DEF Process
  <1>2. CASE issued[Head(queue[r])].kind = "OFFER"
    <2>1. Push(r, issued[Head(queue[r])].worker, Head(queue[r]), Popped(r))
      BY <1>2 DEF Process
    <2> QED BY <1>1, <1>2, <2>1, OfferKeeps
  <1>3. CASE issued[Head(queue[r])].kind # "OFFER"
    <2>1. queue' = Popped(r) /\ UNCHANGED owes
      BY <1>3 DEF Process
    <2>2. r \in Thread /\ TypeOK /\ InQueue
      BY Threads DEF IInv, TokenPerMessage
    <2>3. Head(queue[r]) \in Msg
      BY <1>1, <2>2, Consumed DEF TakenFrom
    <2>4. issued[Head(queue[r])] \in Request
      BY <2>2, <2>3, QueueFacts
    <2>5. issued[Head(queue[r])].kind = "COMMAND"
      BY <1>3, <2>4 DEF Request
    <2> QED BY <1>1, <2>1, <2>5, CommandKeeps
  <1> QED BY <1>2, <1>3

-----------------------------------------------------------------------------
(* The answer arrives.                                                     *)
LEMMA DeliverKeeps ==
    ASSUME IInv, NEW w \in SWorker, Deliver(w)
    PROVE  IInv'
  <1>1. PICK m : m = Head(queue[w])
    OBVIOUS
  <1>2. /\ TypeOK /\ InQueue /\ w \in Thread /\ Take(w) /\ queue[w] # <<>> /\ queue' = Popped(w)
        /\ answered' = [answered EXCEPT ![w] = @ \cup {m}]
        /\ UNCHANGED <<issued, owes, done, dropped>>
    BY <1>1, Threads DEF IInv, TokenPerMessage, Deliver
  <1>3. TakenFrom(w, m, queue')
    <2>1. TakenFrom(w, Head(queue[w]), Popped(w))
      BY <1>2, Consumed
    <2> QED BY <1>1, <1>2, <2>1
  <1>4. /\ m \in Msg /\ Places(m) = {w} /\ m \in Entries(done) \ dropped
        /\ issued[m].kind = "OFFER" /\ issued[m].worker = w
    BY <1>2, <1>3, Located DEF TakenFrom
  <1>5. \A u \in RWorker \cup {Server} : queue'[u] = queue[u]
    BY <1>3, Threads DEF TakenFrom
  <1>6. TokenPerMessage'
    <2>1. pipe' \in [Thread -> 0 .. PipeCap]
      BY <1>2, PipeAssumption DEF TypeOK, Take
    <2>2. TypeOK'
      BY <1>2, <1>3, <1>4, <2>1 DEF TypeOK, Msg, TakenFrom
    <2>3. \A u \in Thread : Len(queue'[u]) = pipe'[u] + Cardinality(Owing(u)')
      BY <1>2, CountsAfterTake DEF IInv
    <2> QED BY <2>2, <2>3 DEF TokenPerMessage
  <1>7. InQueue'
    BY <1>2, <1>3, <1>5, Threads DEF InQueue, TakenFrom
  <1>8. ServerLast' /\ WorkerLast' /\ StreamOrder'
    BY <1>2, <1>5 DEF IInv, ServerLast, WorkerLast, StreamOrder
  <1>9. AnsweredDone'
    BY <1>2, <1>4 DEF IInv, AnsweredDone, TypeOK
  <1>10. Accounted'
    <2>1. CarriedOut(m)'
      <3>1. \A t \in Thread : m \notin Entries(queue'[t])
        BY <1>3, <1>4 DEF Places, TakenFrom
      <3>2. {t \in Thread : m \in Entries(queue'[t])} = {}
        BY <3>1
      <3>3. m \in answered'[w]
        BY <1>2 DEF TypeOK
      <3> QED BY <1>2, <1>4, <3>2, <3>3 DEF CarriedOut, Places
    <2>2. ASSUME NEW x \in Msg, x # m PROVE (AtServer(x) \/ AtWorker(x) \/ Lost(x) \/ CarriedOut(x))'
      <3>1. \A t \in Thread : x \in Entries(queue'[t]) <=> x \in Entries(queue[t])
        BY <1>3, <2>2 DEF TakenFrom
      <3>2. \A u \in SWorker : x \in answered'[u] <=> x \in answered[u]
        BY <1>2, <2>2 DEF TypeOK
      <3> QED BY <1>2, <3>1, <3>2, Untouched
    <2> QED BY <1>2, <2>1, <2>2, AccountedNext DEF Msg
  <1> QED BY <1>6, <1>7, <1>8, <1>9, <1>10 DEF IInv

-----------------------------------------------------------------------------
LEMMA StutterKeeps == IInv /\ UNCHANGED vars => IInv'
  BY DEF IInv, vars, TokenPerMessage, TypeOK, Msg, Owing, InQueue, ServerLast, WorkerLast,
         StreamOrder, Accounted, AnsweredDone

(* The invariant is inductive.                                             *)
LEMMA Inductive == IInv /\ [Next]_vars => IInv'
  <1> SUFFICES ASSUME IInv, [Next]_vars PROVE IInv'
    OBVIOUS
  <1>1. ASSUME NEW w \in SWorker, Issue(w) PROVE IInv'
    BY <1>1, IssueKeeps
  <1>2. ASSUME NEW w \in SWorker, Deliver(w) PROVE IInv'
    BY <1>2, DeliverKeeps
  <1>3. CASE Dispatch
    BY <1>3, DispatchKeeps
  <1>4. ASSUME NEW r \in RWorker, Process(r) PROVE IInv'
    BY <1>4, ProcessKeeps
  <1>5. ASSUME NEW t \in Thread, Notify(t) PROVE IInv'
    BY <1>5, NotifyKeeps
  <1>6. CASE Done \/ Deadlocked
    BY <1>6, StutterKeeps DEF Done, Deadlocked
  <1>7. CASE UNCHANGED vars
    BY <1>7, StutterKeeps
  <1> QED BY <1>1, <1>2, <1>3, <1>4, <1>5, <1>6, <1>7 DEF Next

LEMMA Invariance == Spec => []IInv
  <1>1. Init => IInv
    BY InitInv
  <1>2. IInv /\ [Next]_vars => IInv'
    BY Inductive
  <1> QED BY <1>1, <1>2, PTL DEF Spec

(* A notification for each message, none without: whichever of push and    *)
(* notify the threads have got to, recv_notify() finds a message.          *)
THEOREM NotificationsMatch == Spec => []TokenPerMessage
  <1>1. IInv => TokenPerMessage
    BY DEF IInv
  <1> QED BY <1>1, Invariance, PTL

(* The commands of a stream are carried out in the order of their issue.   *)
THEOREM CommandsInOrder == Spec => []StreamOrder
  <1>1. IInv => StreamOrder
    BY DEF IInv
  <1> QED BY <1>1, Invariance, PTL

(* No request is lost, duplicated or answered to another worker.           *)
THEOREM NothingGoesAstray == Spec => []Accounted
  <1>1. IInv => Accounted
    BY DEF IInv
  <1> QED BY <1>1, Invariance, PTL

-----------------------------------------------------------------------------
(* The threads of a cycle are three, all of them in a blocked write.       *)
LEMMA CycleFacts ==
    ASSUME IInv, NEW w \in SWorker, NEW r \in RWorker, Cycle(w, r)
    PROVE  /\ w \in Thread /\ r \in Thread /\ Server \in Thread
           /\ owes \in [Thread -> Thread] /\ pipe \in [Thread -> 0 .. PipeCap]
           /\ \A t \in {w, Server, r} : /\ ~Idle(t) /\ ~Room(owes[t])
                                       /\ pipe[t] = PipeCap
                                       /\ \E u \in Thread : u \in Owing(t)
  <1>1. /\ w \in Thread /\ r \in Thread /\ Server \in Thread
        /\ w # Server /\ w # r /\ r # Server
    BY Threads
  <1>2. owes \in [Thread -> Thread] /\ pipe \in [Thread -> 0 .. PipeCap]
    BY DEF IInv, TokenPerMessage, TypeOK
  <1>3. owes[w] = Server /\ owes[Server] = r /\ owes[r] = w /\ ~Room(w) /\ ~Room(Server) /\ ~Room(r)
    BY DEF Cycle
  <1>4. \A t \in {w, Server, r} : ~Idle(t) /\ ~Room(owes[t])
    BY <1>1, <1>3 DEF Idle
  <1>5. \A t \in {w, Server, r} : pipe[t] = PipeCap
    BY <1>1, <1>2, <1>3, PipeAssumption DEF Room
  <1>6. r \in Owing(w) /\ w \in Owing(Server) /\ Server \in Owing(r)
    BY <1>1, <1>3 DEF Owing
  <1> QED BY <1>1, <1>2, <1>4, <1>5, <1>6

LEMMA CycleIsFullHolds == IInv => CycleIsFull
  <1> SUFFICES ASSUME IInv, NEW w \in SWorker, NEW r \in RWorker, Cycle(w, r)
               PROVE  Waiting(w, r) >= 3 * PipeCap + 3
    BY DEF CycleIsFull
  <1>1. ASSUME NEW t \in {w, Server, r} PROVE Len(queue[t]) \in Nat /\ Len(queue[t]) >= PipeCap + 1
    <2>1. t \in Thread /\ pipe[t] = PipeCap /\ \E u \in Thread : u \in Owing(t)
      BY <1>1, CycleFacts
    <2>2. Len(queue[t]) = pipe[t] + Cardinality(Owing(t))
      BY <2>1 DEF IInv, TokenPerMessage
    <2>3. Cardinality(Owing(t)) \in Nat /\ Cardinality(Owing(t)) # 0
      BY <2>1, OwingFinite, FS_EmptySet
    <2> QED BY <2>1, <2>2, <2>3, PipeAssumption
  <1>2. PipeCap \in Nat
    BY PipeAssumption
  <1>3. \A a, b, c \in Nat : a >= PipeCap + 1 /\ b >= PipeCap + 1 /\ c >= PipeCap + 1
                              => a + b + c >= 3 * PipeCap + 3
    BY <1>2
  <1>4. Len(queue[w]) + Len(queue[Server]) + Len(queue[r]) >= 3 * PipeCap + 3
    BY <1>1, <1>3
  <1> QED BY <1>4 DEF Waiting

(* The deadlock of the three pipes takes 3 * PipeCap + 3 requests, all of  *)
(* them in the queues of the three threads.                                *)
THEOREM CycleTakesMany == Spec => []CycleIsFull
  BY Invariance, CycleIsFullHolds, PTL

(* No thread leaves a blocked write while nobody reads its pipe, and none  *)
(* reads its pipe in the middle of a write.                                *)
LEMMA CycleKeeps ==
    ASSUME IInv, [Next]_vars, NEW w \in SWorker, NEW r \in RWorker, Cycle(w, r)
    PROVE  Cycle(w, r)'
  <1> DEFINE C == {w, Server, r}
  <1>1. /\ C \subseteq Thread /\ owes \in [Thread -> Thread] /\ pipe \in [Thread -> 0 .. PipeCap]
        /\ \A t \in C : ~Idle(t) /\ ~Room(owes[t])
    BY CycleFacts
  <1>2. SUFFICES \A t \in C : owes'[t] = owes[t] /\ pipe'[t] = pipe[t]
    BY <1>2 DEF Cycle, Room
  <1>3. ASSUME NEW u \in Thread, NEW to, Idle(u), owes' = [owes EXCEPT ![u] = to]
        PROVE  \A t \in C : owes'[t] = owes[t]
    BY <1>1, <1>3
  <1>4. ASSUME NEW u \in Thread, Take(u) PROVE Idle(u) /\ \A t \in C : pipe'[t] = pipe[t]
    BY <1>1, <1>4 DEF Take
  <1>5. ASSUME NEW u \in SWorker, Issue(u) PROVE \A t \in C : owes'[t] = owes[t] /\ pipe'[t] = pipe[t]
    BY <1>3, <1>5, Threads DEF Issue, Push
  <1>6. ASSUME NEW u \in SWorker, Deliver(u) PROVE \A t \in C : owes'[t] = owes[t] /\ pipe'[t] = pipe[t]
    BY <1>4, <1>6, Threads DEF Deliver
  <1>7. CASE Dispatch
    <2>1. Take(Server) /\ (owes' = owes \/ \E to : owes' = [owes EXCEPT ![Server] = to])
      BY <1>7 DEF Dispatch, Push
    <2> QED BY <1>3, <1>4, <2>1, Threads
  <1>8. ASSUME NEW u \in RWorker, Process(u) PROVE \A t \in C : owes'[t] = owes[t] /\ pipe'[t] = pipe[t]
    <2>1. Take(u) /\ (owes' = owes \/ \E to : owes' = [owes EXCEPT ![u] = to])
      BY <1>8 DEF Process, Push
    <2> QED BY <1>3, <1>4, <2>1, Threads
  <1>9. ASSUME NEW u \in Thread, Notify(u) PROVE \A t \in C : owes'[t] = owes[t] /\ pipe'[t] = pipe[t]
    <2>1. /\ Room(owes[u]) /\ pipe' = [pipe EXCEPT ![owes[u]] = @ + 1]
          /\ owes' = [owes EXCEPT ![u] = u]
      BY <1>9 DEF Notify
    <2>2. u \notin C
      BY <1>1, <2>1
    <2>3. owes[u] \notin C
      BY <2>1 DEF Cycle
    <2> QED BY <1>1, <2>1, <2>2, <2>3
  <1>10. CASE Done \/ Deadlocked \/ UNCHANGED vars
    BY <1>10 DEF Done, Deadlocked, vars
  <1> QED BY <1>5, <1>6, <1>7, <1>8, <1>9, <1>10 DEF Next

(* Once the three pipes have closed the cycle it is never opened again.    *)
THEOREM CycleIsForGood ==
    ASSUME NEW w \in SWorker, NEW r \in RWorker
    PROVE  Spec => [][Cycle(w, r) => Cycle(w, r)']_vars
  BY Invariance, CycleKeeps, PTL DEF Spec
=============================================================================
