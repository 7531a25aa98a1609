------------------------ MODULE StreamManager_proofs ------------------------
(***************************************************************************)
(* The tables of RtcStreamManager and the objects they point to agree in   *)
(* every reachable state, for any users, stream names and number of        *)
(* streams.                                                                *)
(***************************************************************************)
EXTENDS StreamManager, TLAPS

(* Streams not created yet leave no trace.                                 *)
FreshStreams == \A s \in Id : s > made => stream[s] = NULL /\ pc[s] = "none"

IInv == /\ TypeOK /\ TablesSound /\ NothingLeaked /\ PcOutlivesUse
        /\ FreshStreams

(* Objects that differ from the current ones only in state, timer and      *)
(* answer: what the handlers have done to them before they remove one.     *)
SameStreams(streams) ==
    /\ streams \in [Id -> Stream \cup {NULL}]
    /\ \A s \in Id : /\ streams[s] = NULL <=> stream[s] = NULL
                     /\ stream[s] # NULL => /\ streams[s].type = stream[s].type
                                            /\ streams[s].uid = stream[s].uid
                                            /\ streams[s].name = stream[s].name

LEMMA NullNotId == NULL \notin Id
  BY NullAssumption

LEMMA InitInv == Init => IInv
  <1> SUFFICES ASSUME Init PROVE IInv
    OBVIOUS
  <1>1. TypeOK
    BY MaxStreamsAssumption DEF Init, TypeOK, Id
  <1>2. TablesSound /\ NothingLeaked /\ PcOutlivesUse /\ FreshStreams
    BY DEF Init, TablesSound, NothingLeaked, PcOutlivesUse, FreshStreams, Live
  <1> QED BY <1>1, <1>2 DEF IInv

(* Stream is a set of records: a stream object is not NULL.                *)
LEMMA LiveIsStream ==
  ASSUME TypeOK, NEW s \in Live
  PROVE  s \in Id /\ stream[s] # NULL /\ stream[s] \in Stream
  BY DEF TypeOK, Live

(* _remove_push_stream() keeps the tables sound.                           *)
LEMMA RemovePushKeeps ==
  ASSUME IInv, NEW u \in Uid, NEW n \in Name, NEW streams,
         SameStreams(streams), RemovePush(u, n, streams)
  PROVE  IInv'
  <1> USE NullNotId DEF RemovePush
  <1>1. PushOf(u, n) \subseteq Id /\ \A s \in PushOf(u, n) : push[n] = s /\ s \in Live
    BY DEF PushOf, Live
  <1>2. \A s \in Id : stream'[s] = IF s \in PushOf(u, n) THEN NULL ELSE streams[s]
    BY DEF Without
  <1>3. \A s \in Id : pc'[s] = IF s \in PushOf(u, n) THEN "dying" ELSE pc[s]
    BY DEF Destroy
  <1>4. \A s \in Id : s \in Live' <=> s \in Live /\ s \notin PushOf(u, n)
    BY <1>1, <1>2 DEF Live, SameStreams
  <1>5. \A s \in Live' : /\ stream'[s].type = stream[s].type
                         /\ stream'[s].uid = stream[s].uid
                         /\ stream'[s].name = stream[s].name
    <2> TAKE s \in Live'
    <2>1. s \in Id /\ s \in Live /\ s \notin PushOf(u, n)
      BY <1>4 DEF Live
    <2>2. stream[s] # NULL
      BY <2>1 DEF Live
    <2> QED BY <1>2, <2>1, <2>2 DEF SameStreams
  <1>6. \A m \in Name : push'[m] = IF PushOf(u, n) # {} /\ m = n THEN NULL ELSE push[m]
    BY DEF IInv, TypeOK
  <1>7. TypeOK'
    <2>1. push' \in [Name -> Id \cup {NULL}]
      BY DEF IInv, TypeOK
    <2>2. stream' \in [Id -> Stream \cup {NULL}]
      BY DEF SameStreams, Without
    <2>3. pc' \in [Id -> {"none", "live", "dying", "freed"}]
      BY DEF Destroy, IInv, TypeOK
    <2> QED BY <2>1, <2>2, <2>3 DEF IInv, TypeOK
  <1>8. TablesSound'
    <2> SUFFICES ASSUME NEW m \in Name
                 PROVE  /\ push'[m] # NULL =>
                             /\ push'[m] \in Live'
                             /\ stream'[push'[m]].type = "push"
                             /\ stream'[push'[m]].name = m
                        /\ pull'[m] # NULL =>
                             /\ pull'[m] \in Live'
                             /\ stream'[pull'[m]].type = "pull"
                             /\ stream'[pull'[m]].name = m
      BY DEF TablesSound
    <2>1. ASSUME push'[m] # NULL
          PROVE  /\ push'[m] \in Live'
                 /\ stream'[push'[m]].type = "push" /\ stream'[push'[m]].name = m
      <3>1. push'[m] = push[m] /\ push[m] # NULL
        BY <1>6, <2>1
      <3>2. push[m] \in Live /\ stream[push[m]].type = "push" /\ stream[push[m]].name = m
        BY <3>1 DEF IInv, TablesSound
      <3>3. push[m] \notin PushOf(u, n)
        <4> SUFFICES ASSUME push[m] \in PushOf(u, n) PROVE FALSE
          OBVIOUS
        <4>1. push[n] = push[m]
          BY <1>1
        <4>2. n = m
          BY <3>1, <3>2, <4>1 DEF IInv, TablesSound
        <4> QED BY <1>6, <2>1, <4>2
      <3>4. push[m] \in Live'
        BY <1>4, <3>2, <3>3 DEF Live
      <3> QED BY <1>5, <3>1, <3>2, <3>4
    <2>2. ASSUME pull'[m] # NULL
          PROVE  /\ pull'[m] \in Live'
                 /\ stream'[pull'[m]].type = "pull" /\ stream'[pull'[m]].name = m
      <3>1. pull'[m] = pull[m]
        OBVIOUS
      <3>2. pull[m] \in Live /\ stream[pull[m]].type = "pull" /\ stream[pull[m]].name = m
        BY <2>2, <3>1 DEF IInv, TablesSound
      <3>3. pull[m] \notin PushOf(u, n)
        <4> SUFFICES ASSUME pull[m] \in PushOf(u, n) PROVE FALSE
          OBVIOUS
        <4>1. push[n] = pull[m] /\ push[n] # NULL
          BY <1>1
        <4>2. stream[push[n]].type = "push"
          BY <4>1 DEF IInv, TablesSound
        <4> QED BY <3>2, <4>1, <4>2
      <3>4. pull[m] \in Live'
        BY <1>4, <3>2, <3>3 DEF Live
      <3> QED BY <1>5, <3>1, <3>2, <3>4
    <2> QED BY <2>1, <2>2
  <1>9. NothingLeaked'
    <2> SUFFICES ASSUME NEW s \in Live'
                 PROVE  \/ push'[stream'[s].name] = s
                        \/ pull'[stream'[s].name] = s
                        \/ s \in displaced' /\ stream'[s].type = "pull"
      BY DEF NothingLeaked
    <2>1. s \in Live /\ s \notin PushOf(u, n) /\ s \in Id
      BY <1>4 DEF Live
    <2>2. stream'[s].name = stream[s].name /\ stream'[s].type = stream[s].type
      BY <1>5
    <2>3. stream[s].name \in Name
      BY <2>1, LiveIsStream DEF IInv, Stream
    <2>4. CASE push[stream[s].name] = s
      <3>1. ~(PushOf(u, n) # {} /\ stream[s].name = n)
        BY <1>1, <2>1, <2>4
      <3> QED BY <1>6, <2>2, <2>3, <2>4, <3>1
    <2> QED BY <2>1, <2>2, <2>4 DEF IInv, NothingLeaked
  <1>10. PcOutlivesUse'
    <2>1. \A s \in Id : stream'[s] # NULL <=> pc'[s] = "live"
      BY <1>2, <1>3 DEF IInv, PcOutlivesUse, SameStreams
    <2>2. running \in Id \cup {NULL} /\ running' = running
      BY DEF IInv, TypeOK
    <2>3. running # NULL => pc'[running] \in {"live", "dying"}
      BY <1>3, <2>2 DEF IInv, PcOutlivesUse
    <2> QED BY <2>1, <2>2, <2>3 DEF PcOutlivesUse
  <1>11. FreshStreams'
    <2>1. \A s \in Id : s > made => s \notin PushOf(u, n)
      BY <1>1 DEF IInv, FreshStreams, Live
    <2> QED BY <1>2, <1>3, <2>1 DEF IInv, FreshStreams, SameStreams
  <1> QED BY <1>7, <1>8, <1>9, <1>10, <1>11 DEF IInv

(* _remove_pull_stream() keeps the tables sound.                           *)
LEMMA RemovePullKeeps ==
  ASSUME IInv, NEW u \in Uid, NEW n \in Name, NEW streams,
         SameStreams(streams), RemovePull(u, n, streams)
  PROVE  IInv'
  <1> USE NullNotId DEF RemovePull
  <1>1. PullOf(u, n) \subseteq Id /\ \A s \in PullOf(u, n) : pull[n] = s /\ s \in Live
    BY DEF PullOf, Live
  <1>2. \A s \in Id : stream'[s] = IF s \in PullOf(u, n) THEN NULL ELSE streams[s]
    BY DEF Without
  <1>3. \A s \in Id : pc'[s] = IF s \in PullOf(u, n) THEN "dying" ELSE pc[s]
    BY DEF Destroy
  <1>4. \A s \in Id : s \in Live' <=> s \in Live /\ s \notin PullOf(u, n)
    BY <1>1, <1>2 DEF Live, SameStreams
  <1>5. \A s \in Live' : /\ stream'[s].type = stream[s].type
                         /\ stream'[s].uid = stream[s].uid
                         /\ stream'[s].name = stream[s].name
    <2> TAKE s \in Live'
    <2>1. s \in Id /\ s \in Live /\ s \notin PullOf(u, n)
      BY <1>4 DEF Live
    <2>2. stream[s] # NULL
      BY <2>1 DEF Live
    <2> QED BY <1>2, <2>1, <2>2 DEF SameStreams
  <1>6. \A m \in Name : pull'[m] = IF PullOf(u, n) # {} /\ m = n THEN NULL ELSE pull[m]
    BY DEF IInv, TypeOK
  <1>7. TypeOK'
    <2>1. pull' \in [Name -> Id \cup {NULL}]
      BY DEF IInv, TypeOK
    <2>2. stream' \in [Id -> Stream \cup {NULL}]
      BY DEF SameStreams, Without
    <2>3. pc' \in [Id -> {"none", "live", "dying", "freed"}]
      BY DEF Destroy, IInv, TypeOK
    <2> QED BY <2>1, <2>2, <2>3 DEF IInv, TypeOK
  <1>8. TablesSound'
    <2> SUFFICES ASSUME NEW m \in Name
                 PROVE  /\ pull'[m] # NULL =>
                             /\ pull'[m] \in Live'
                             /\ stream'[pull'[m]].type = "pull"
                             /\ stream'[pull'[m]].name = m
                        /\ push'[m] # NULL =>
                             /\ push'[m] \in Live'
                             /\ stream'[push'[m]].type = "push"
                             /\ stream'[push'[m]].name = m
      BY DEF TablesSound
    <2>1. ASSUME pull'[m] # NULL
          PROVE  /\ pull'[m] \in Live'
                 /\ stream'[pull'[m]].type = "pull" /\ stream'[pull'[m]].name = m
      <3>1. pull'[m] = pull[m] /\ pull[m] # NULL
        BY <1>6, <2>1
      <3>2. pull[m] \in Live /\ stream[pull[m]].type = "pull" /\ stream[pull[m]].name = m
        BY <3>1 DEF IInv, TablesSound
      <3>3. pull[m] \notin PullOf(u, n)
        <4> SUFFICES ASSUME pull[m] \in PullOf(u, n) PROVE FALSE
          OBVIOUS
        <4>1. pull[n] = pull[m]
          BY <1>1
        <4>2. n = m
          BY <3>1, <3>2, <4>1 DEF IInv, TablesSound
        <4> QED BY <1>6, <2>1, <4>2
      <3>4. pull[m] \in Live'
        BY <1>4, <3>2, <3>3 DEF Live
      <3> QED BY <1>5, <3>1, <3>2, <3>4
    <2>2. ASSUME push'[m] # NULL
          PROVE  /\ push'[m] \in Live'
                 /\ stream'[push'[m]].type = "push" /\ stream'[push'[m]].name = m
      <3>1. push'[m] = push[m]
        OBVIOUS
      <3>2. push[m] \in Live /\ stream[push[m]].type = "push" /\ stream[push[m]].name = m
        BY <2>2, <3>1 DEF IInv, TablesSound
      <3>3. push[m] \notin PullOf(u, n)
        <4> SUFFICES ASSUME push[m] \in PullOf(u, n) PROVE FALSE
          OBVIOUS
        <4>1. pull[n] = push[m] /\ pull[n] # NULL
          BY <1>1
        <4>2. stream[pull[n]].type = "pull"
          BY <4>1 DEF IInv, TablesSound
        <4> QED BY <3>2, <4>1, <4>2
      <3>4. push[m] \in Live'
        BY <1>4, <3>2, <3>3 DEF Live
      <3> QED BY <1>5, <3>1, <3>2, <3>4
    <2> QED BY <2>1, <2>2
  <1>9. NothingLeaked'
    <2> SUFFICES ASSUME NEW s \in Live'
                 PROVE  \/ pull'[stream'[s].name] = s
                        \/ push'[stream'[s].name] = s
                        \/ s \in displaced' /\ stream'[s].type = "pull"
      BY DEF NothingLeaked
    <2>1. s \in Live /\ s \notin PullOf(u, n) /\ s \in Id
      BY <1>4 DEF Live
    <2>2. stream'[s].name = stream[s].name /\ stream'[s].type = stream[s].type
      BY <1>5
    <2>3. stream[s].name \in Name
      BY <2>1, LiveIsStream DEF IInv, Stream
    <2>4. CASE pull[stream[s].name] = s
      <3>1. ~(PullOf(u, n) # {} /\ stream[s].name = n)
        BY <1>1, <2>1, <2>4
      <3> QED BY <1>6, <2>2, <2>3, <2>4, <3>1
    <2> QED BY <2>1, <2>2, <2>4 DEF IInv, NothingLeaked
  <1>10. PcOutlivesUse'
    <2>1. \A s \in Id : stream'[s] # NULL <=> pc'[s] = "live"
      BY <1>2, <1>3 DEF IInv, PcOutlivesUse, SameStreams
    <2>2. running \in Id \cup {NULL} /\ running' = running
      BY DEF IInv, TypeOK
    <2>3. running # NULL => pc'[running] \in {"live", "dying"}
      BY <1>3, <2>2 DEF IInv, PcOutlivesUse
    <2> QED BY <2>1, <2>2, <2>3 DEF PcOutlivesUse
  <1>11. FreshStreams'
    <2>1. \A s \in Id : s > made => s \notin PullOf(u, n)
      BY <1>1 DEF IInv, FreshStreams, Live
    <2> QED BY <1>2, <1>3, <2>1 DEF IInv, FreshStreams, SameStreams
  <1> QED BY <1>7, <1>8, <1>9, <1>10, <1>11 DEF IInv

-----------------------------------------------------------------------------
(* create_push_stream(): the old publisher is in the table, so it is live, *)
(* of type push, and no other slot points to it.                           *)
LEMMA CreatePushKeeps ==
  ASSUME IInv, NEW u \in Uid, NEW n \in Name, create_push_stream(u, n)
  PROVE  IInv'
  <1> DEFINE new == made + 1
  <1> USE NullNotId
  <1>1. new \in Id /\ made' = new /\ stream[new] = NULL /\ pc[new] = "none"
    <2>1. made \in Nat /\ made < MaxStreams
      BY MaxStreamsAssumption DEF IInv, TypeOK, create_push_stream
    <2>2. new \in Id /\ new > made
      BY <2>1, MaxStreamsAssumption DEF Id
    <2> QED BY <2>2 DEF IInv, FreshStreams, create_push_stream
  <1>2. push[n] \in Id => push[n] \in Live /\ push[n] # new
    BY <1>1 DEF IInv, TablesSound, Live
  <1>3. NewStream("push", u, n) \in Stream /\ NewStream("push", u, n).type = "push"
        /\ NewStream("push", u, n).name = n
    BY DEF NewStream, Stream, State
  <1>4. NewStream("push", u, n) # NULL
    BY <1>3, NullAssumption
  <1>5. \A s \in Id : stream'[s] = IF s = new THEN NewStream("push", u, n)
                                   ELSE IF s = push[n] THEN NULL ELSE stream[s]
    BY <1>1 DEF create_push_stream, Without
  <1>6. \A s \in Id : pc'[s] = IF s = new THEN "live"
                               ELSE IF s = push[n] THEN "dying" ELSE pc[s]
    BY <1>1 DEF create_push_stream, Destroy
  <1>7. \A m \in Name : push'[m] = IF m = n THEN new ELSE push[m]
    BY <1>1 DEF create_push_stream, IInv, TypeOK
  <1>8. TypeOK'
    <2>1. push' \in [Name -> Id \cup {NULL}]
      BY <1>1 DEF create_push_stream, IInv, TypeOK
    <2>2. stream' \in [Id -> Stream \cup {NULL}]
      BY <1>1, <1>3 DEF create_push_stream, Without, IInv, TypeOK
    <2>3. pc' \in [Id -> {"none", "live", "dying", "freed"}]
      BY <1>1 DEF create_push_stream, Destroy, IInv, TypeOK
    <2>4. made' \in 0 .. MaxStreams
      BY <1>1 DEF Id
    <2> QED BY <2>1, <2>2, <2>3, <2>4 DEF create_push_stream, IInv, TypeOK
  <1>9. \A s \in Id : s \in Live' <=> s = new \/ (s \in Live /\ s # push[n])
    BY <1>1, <1>2, <1>4, <1>5 DEF Live
  <1>10. TablesSound'
    <2> SUFFICES ASSUME NEW m \in Name
                 PROVE  /\ push'[m] # NULL =>
                             /\ push'[m] \in Live'
                             /\ stream'[push'[m]].type = "push"
                             /\ stream'[push'[m]].name = m
                        /\ pull'[m] # NULL =>
                             /\ pull'[m] \in Live'
                             /\ stream'[pull'[m]].type = "pull"
                             /\ stream'[pull'[m]].name = m
      BY DEF TablesSound
    <2>1. ASSUME m = n
          PROVE  /\ push'[m] \in Live'
                 /\ stream'[push'[m]].type = "push" /\ stream'[push'[m]].name = m
      <3>1. push'[m] = new /\ new \in Live' /\ stream'[new] = NewStream("push", u, n)
        BY <1>1, <1>5, <1>7, <1>9, <2>1
      <3> QED BY <1>3, <2>1, <3>1
    <2>2. ASSUME push'[m] # NULL, m # n
          PROVE  /\ push'[m] \in Live'
                 /\ stream'[push'[m]].type = "push" /\ stream'[push'[m]].name = m
      <3>1. push'[m] = push[m] /\ push[m] # NULL
        BY <1>7, <2>2
      <3>2. push[m] \in Live /\ stream[push[m]].type = "push" /\ stream[push[m]].name = m
        BY <3>1 DEF IInv, TablesSound
      <3>3. push[m] # push[n]
        BY <2>2, <3>1, <3>2 DEF IInv, TablesSound
      <3>4. push[m] \in Id /\ push[m] # new
        BY <1>1, <3>2 DEF Live
      <3> QED BY <1>5, <1>9, <3>1, <3>2, <3>3, <3>4
    <2>3. ASSUME pull'[m] # NULL
          PROVE  /\ pull'[m] \in Live'
                 /\ stream'[pull'[m]].type = "pull" /\ stream'[pull'[m]].name = m
      <3>1. pull'[m] = pull[m] /\ pull[m] # NULL
        BY <2>3 DEF create_push_stream
      <3>2. pull[m] \in Live /\ stream[pull[m]].type = "pull" /\ stream[pull[m]].name = m
        BY <3>1 DEF IInv, TablesSound
      <3>3. pull[m] # push[n]
        <4>1. CASE push[n] = NULL
          BY <3>1, <4>1
        <4>2. CASE push[n] # NULL
          <5>1. stream[push[n]].type = "push"
            BY <4>2 DEF IInv, TablesSound
          <5> QED BY <3>2, <5>1
        <4> QED BY <4>1, <4>2
      <3>4. pull[m] \in Id /\ pull[m] # new
        BY <1>1, <3>2 DEF Live
      <3> QED BY <1>5, <1>9, <3>1, <3>2, <3>3, <3>4
    <2> QED BY <2>1, <2>2, <2>3
  <1>11. NothingLeaked'
    <2> SUFFICES ASSUME NEW s \in Live'
                 PROVE  \/ push'[stream'[s].name] = s
                        \/ pull'[stream'[s].name] = s
                        \/ s \in displaced' /\ stream'[s].type = "pull"
      BY DEF NothingLeaked
    <2>1. CASE s = new
      <3>1. stream'[s].name = n /\ push'[n] = new
        BY <1>1, <1>3, <1>5, <1>7, <2>1
      <3> QED BY <2>1, <3>1
    <2>2. CASE s # new
      <3>1. s \in Live /\ s # push[n] /\ s \in Id
        BY <1>9, <2>2 DEF Live
      <3>2. stream'[s] = stream[s]
        BY <1>5, <2>2, <3>1
      <3>3. stream[s].name \in Name
        BY <3>1, LiveIsStream DEF IInv, Stream
      <3>4. CASE push[stream[s].name] = s
        BY <1>7, <3>1, <3>2, <3>3, <3>4
      <3> QED BY <3>1, <3>2, <3>4 DEF IInv, NothingLeaked, create_push_stream
    <2> QED BY <2>1, <2>2
  <1>12. PcOutlivesUse'
    <2>1. \A s \in Id : stream'[s] # NULL <=> pc'[s] = "live"
      BY <1>2, <1>4, <1>5, <1>6 DEF IInv, PcOutlivesUse
    <2>2. running' = NULL
      BY DEF create_push_stream
    <2> QED BY <2>1, <2>2 DEF PcOutlivesUse
  <1>13. FreshStreams'
    <2>1. \A s \in Id : s > new => s > made /\ s # new /\ s # push[n]
      <3> SUFFICES ASSUME NEW s \in Id, s > new PROVE s > made /\ s # new /\ s # push[n]
        OBVIOUS
      <3>1. s > made /\ s # new
        BY MaxStreamsAssumption DEF IInv, TypeOK, Id
      <3> QED BY <1>2, <3>1 DEF IInv, FreshStreams, Live
    <2> QED BY <1>1, <1>5, <1>6, <2>1 DEF IInv, FreshStreams
  <1> QED BY <1>8, <1>10, <1>11, <1>12, <1>13 DEF IInv

(* create_pull_stream(): a pull stream of the same user is deleted and its *)
(* slot is taken; one of another user leaves its slot and is recorded.     *)
LEMMA CreatePullKeeps ==
  ASSUME IInv, NEW u \in Uid, NEW n \in Name, create_pull_stream(u, n)
  PROVE  IInv'
  <1> DEFINE new == made + 1
             dead == PullOf(u, n)
  <1> USE NullNotId
  <1>1. new \in Id /\ made' = new /\ stream[new] = NULL /\ pc[new] = "none"
    <2>1. made \in Nat /\ made < MaxStreams
      BY MaxStreamsAssumption DEF IInv, TypeOK, create_pull_stream
    <2>2. new \in Id /\ new > made
      BY <2>1, MaxStreamsAssumption DEF Id
    <2> QED BY <2>2 DEF IInv, FreshStreams, create_pull_stream
  <1>2. /\ \A s \in dead : s = pull[n] /\ s \in Live /\ s \in Id /\ s # new
        /\ pull[n] # NULL => pull[n] \in Live
    BY <1>1 DEF PullOf, Live, IInv, TablesSound
  <1>3. NewStream("pull", u, n) \in Stream /\ NewStream("pull", u, n).type = "pull"
        /\ NewStream("pull", u, n).name = n
    BY DEF NewStream, Stream, State
  <1>4. NewStream("pull", u, n) # NULL
    BY <1>3, NullAssumption
  <1>5. \A s \in Id : stream'[s] = IF s = new THEN NewStream("pull", u, n)
                                   ELSE IF s \in dead THEN NULL ELSE stream[s]
    BY <1>1 DEF create_pull_stream, Without
  <1>6. \A s \in Id : pc'[s] = IF s = new THEN "live"
                               ELSE IF s \in dead THEN "dying" ELSE pc[s]
    BY <1>1 DEF create_pull_stream, Destroy
  <1>7. \A m \in Name : pull'[m] = IF m = n THEN new ELSE pull[m]
    BY <1>1 DEF create_pull_stream, IInv, TypeOK
  <1>8. TypeOK'
    <2>1. pull' \in [Name -> Id \cup {NULL}]
      BY <1>1 DEF create_pull_stream, IInv, TypeOK
    <2>2. stream' \in [Id -> Stream \cup {NULL}]
      BY <1>1, <1>3 DEF create_pull_stream, Without, IInv, TypeOK
    <2>3. pc' \in [Id -> {"none", "live", "dying", "freed"}]
      BY <1>1 DEF create_pull_stream, Destroy, IInv, TypeOK
    <2>4. made' \in 0 .. MaxStreams
      BY <1>1 DEF Id
    <2>5. displaced' \subseteq Id
      BY DEF create_pull_stream, IInv, TypeOK
    <2> QED BY <2>1, <2>2, <2>3, <2>4, <2>5 DEF create_pull_stream, IInv, TypeOK
  <1>9. \A s \in Id : s \in Live' <=> s = new \/ (s \in Live /\ s \notin dead)
    BY <1>1, <1>2, <1>4, <1>5 DEF Live
  <1>10. TablesSound'
    <2> SUFFICES ASSUME NEW m \in Name
                 PROVE  /\ push'[m] # NULL =>
                             /\ push'[m] \in Live'
                             /\ stream'[push'[m]].type = "push"
                             /\ stream'[push'[m]].name = m
                        /\ pull'[m] # NULL =>
                             /\ pull'[m] \in Live'
                             /\ stream'[pull'[m]].type = "pull"
                             /\ stream'[pull'[m]].name = m
      BY DEF TablesSound
    <2>1. ASSUME m = n
          PROVE  /\ pull'[m] \in Live'
                 /\ stream'[pull'[m]].type = "pull" /\ stream'[pull'[m]].name = m
      <3>1. pull'[m] = new /\ new \in Live' /\ stream'[new] = NewStream("pull", u, n)
        BY <1>1, <1>5, <1>7, <1>9, <2>1
      <3> QED BY <1>3, <2>1, <3>1
    <2>2. ASSUME pull'[m] # NULL, m # n
          PROVE  /\ pull'[m] \in Live'
                 /\ stream'[pull'[m]].type = "pull" /\ stream'[pull'[m]].name = m
      <3>1. pull'[m] = pull[m] /\ pull[m] # NULL
        BY <1>7, <2>2
      <3>2. pull[m] \in Live /\ stream[pull[m]].type = "pull" /\ stream[pull[m]].name = m
        BY <3>1 DEF IInv, TablesSound
      <3>3. pull[m] # pull[n]
        BY <2>2, <3>1, <3>2 DEF IInv, TablesSound
      <3>4. pull[m] \in Id /\ pull[m] # new /\ pull[m] \notin dead
        BY <1>1, <1>2, <3>2, <3>3 DEF Live
      <3> QED BY <1>5, <1>9, <3>1, <3>2, <3>4
    <2>3. ASSUME push'[m] # NULL
          PROVE  /\ push'[m] \in Live'
                 /\ stream'[push'[m]].type = "push" /\ stream'[push'[m]].name = m
      <3>1. push'[m] = push[m] /\ push[m] # NULL
        BY <2>3 DEF create_pull_stream
      <3>2. push[m] \in Live /\ stream[push[m]].type = "push" /\ stream[push[m]].name = m
        BY <3>1 DEF IInv, TablesSound
      <3>3. push[m] \notin dead
        <4> SUFFICES ASSUME push[m] \in dead PROVE FALSE
          OBVIOUS
        <4>1. push[m] = pull[n] /\ pull[n] # NULL
          BY <1>2, <3>1
        <4>2. stream[pull[n]].type = "pull"
          BY <4>1 DEF IInv, TablesSound
        <4> QED BY <3>2, <4>1, <4>2
      <3>4. push[m] \in Id /\ push[m] # new
        BY <1>1, <3>2 DEF Live
      <3> QED BY <1>5, <1>9, <3>1, <3>2, <3>3, <3>4
    <2> QED BY <2>1, <2>2, <2>3
  <1>11. NothingLeaked'
    <2> SUFFICES ASSUME NEW s \in Live'
                 PROVE  \/ push'[stream'[s].name] = s
                        \/ pull'[stream'[s].name] = s
                        \/ s \in displaced' /\ stream'[s].type = "pull"
      BY DEF NothingLeaked
    <2>1. CASE s = new
      <3>1. stream'[s].name = n /\ pull'[n] = new
        BY <1>1, <1>3, <1>5, <1>7, <2>1
      <3> QED BY <2>1, <3>1
    <2>2. CASE s # new
      <3>1. s \in Live /\ s \notin dead /\ s \in Id
        BY <1>9, <2>2 DEF Live
      <3>2. stream'[s] = stream[s]
        BY <1>5, <2>2, <3>1
      <3>3. stream[s].name \in Name
        BY <3>1, LiveIsStream DEF IInv, Stream
      <3>4. CASE push[stream[s].name] = s
        BY <3>2, <3>4 DEF create_pull_stream
      <3>5. CASE pull[stream[s].name] = s /\ stream[s].name # n
        BY <1>7, <3>2, <3>3, <3>5
      <3>6. CASE pull[stream[s].name] = s /\ stream[s].name = n
        <4>1. s \in displaced'
          BY <3>1, <3>6 DEF create_pull_stream
        <4>2. stream[s].type = "pull"
          BY <3>1, <3>6 DEF IInv, TablesSound
        <4> QED BY <3>2, <4>1, <4>2
      <3>7. CASE s \in displaced /\ stream[s].type = "pull"
        BY <3>2, <3>7 DEF create_pull_stream
      <3> QED BY <3>1, <3>4, <3>5, <3>6, <3>7 DEF IInv, NothingLeaked
    <2> QED BY <2>1, <2>2
  <1>12. PcOutlivesUse'
    <2>1. \A s \in Id : stream'[s] # NULL <=> pc'[s] = "live"
      BY <1>2, <1>4, <1>5, <1>6 DEF IInv, PcOutlivesUse
    <2>2. running' = NULL
      BY DEF create_pull_stream
    <2> QED BY <2>1, <2>2 DEF PcOutlivesUse
  <1>13. FreshStreams'
    <2>1. \A s \in Id : s > new => s > made /\ s # new /\ s \notin dead
      <3> SUFFICES ASSUME NEW s \in Id, s > new PROVE s > made /\ s # new /\ s \notin dead
        OBVIOUS
      <3>1. s > made /\ s # new
        BY MaxStreamsAssumption DEF IInv, TypeOK, Id
      <3> QED BY <1>2, <3>1 DEF IInv, FreshStreams, Live
    <2> QED BY <1>1, <1>5, <1>6, <2>1 DEF IInv, FreshStreams
  <1> QED BY <1>8, <1>10, <1>11, <1>12, <1>13 DEF IInv

(* A handler that only changes a stream's state, timer or answer.          *)
LEMMA UpdateKeeps ==
  ASSUME IInv, SameStreams(stream'), UNCHANGED <<push, pull, pc, made, displaced>>,
         running' \in Id \cup {NULL}, running' # NULL => pc[running'] \in {"live", "dying"}
  PROVE  IInv'
  <1>1. \A s \in Id : s \in Live' <=> s \in Live
    BY DEF SameStreams, Live
  <1>2. \A s \in Live : /\ s \in Id /\ stream'[s].type = stream[s].type
                        /\ stream'[s].name = stream[s].name
    BY DEF SameStreams, Live
  <1>3. TypeOK'
    BY DEF IInv, TypeOK, SameStreams
  <1>4. TablesSound'
    BY <1>1, <1>2 DEF IInv, TablesSound
  <1>5. NothingLeaked'
    <2>1. \A s \in Live' : s \in Live
      BY <1>1 DEF Live
    <2> QED BY <1>2, <2>1 DEF IInv, NothingLeaked
  <1>6. PcOutlivesUse' /\ FreshStreams'
    BY DEF IInv, PcOutlivesUse, FreshStreams, SameStreams
  <1> QED BY <1>3, <1>4, <1>5, <1>6 DEF IInv

(* The same without a call into a PeerConnection or a return out of one.   *)
LEMMA UpdateRunning ==
  ASSUME IInv, SameStreams(stream'), UNCHANGED <<push, pull, pc, made, displaced, running>>
  PROVE  IInv'
  <1>1. running' \in Id \cup {NULL} /\ (running' # NULL => pc[running'] \in {"live", "dying"})
    BY DEF IInv, TypeOK, PcOutlivesUse
  <1> QED BY <1>1, UpdateKeeps

(* Removing the entry that carries a live stream's type, uid and name.     *)
LEMMA RemoveStreamKeeps ==
  ASSUME IInv, NEW s \in Live, NEW streams, SameStreams(streams), RemoveStream(s, streams)
  PROVE  IInv'
  <1>1. stream[s].uid \in Uid /\ stream[s].name \in Name
    BY LiveIsStream DEF IInv, Stream
  <1>2. CASE stream[s].type = "push"
    BY <1>1, <1>2, RemovePushKeeps DEF RemoveStream
  <1>3. CASE stream[s].type # "push"
    BY <1>1, <1>3, RemovePullKeeps DEF RemoveStream
  <1> QED BY <1>2, <1>3

(* Changing the state and the timer of a live stream.                      *)
LEMMA SetStateSame ==
  ASSUME TypeOK, NEW s \in Live, NEW state \in State, NEW timer \in {"armed", "off"}
  PROVE  SameStreams([stream EXCEPT ![s].state = state, ![s].timer = timer])
  <1> DEFINE after == [stream EXCEPT ![s].state = state, ![s].timer = timer]
             new == [stream[s] EXCEPT !.state = state, !.timer = timer]
  <1>1. s \in Id /\ stream[s] # NULL /\ stream[s] \in Stream
    BY LiveIsStream
  <1>2. new \in Stream /\ new.type = stream[s].type /\ new.uid = stream[s].uid
        /\ new.name = stream[s].name
    BY <1>1 DEF Stream
  <1>3. new # NULL
    BY <1>2, NullAssumption
  <1>4. after = [stream EXCEPT ![s] = new]
    BY <1>1 DEF TypeOK
  <1>5. \A t \in Id : after[t] = IF t = s THEN new ELSE stream[t]
    BY <1>1, <1>4 DEF TypeOK
  <1>6. after \in [Id -> Stream \cup {NULL}]
    BY <1>1, <1>2, <1>4 DEF TypeOK
  <1> HIDE DEF after, new
  <1>7. SameStreams(after)
    BY <1>1, <1>2, <1>3, <1>5, <1>6 DEF SameStreams
  <1> QED BY <1>7 DEF after

LEMMA AnswerKeeps ==
  ASSUME IInv, NEW u \in Uid, NEW n \in Name, set_answer(u, n)
  PROVE  IInv'
  <1>1. PICK s \in PushOf(u, n) \cup PullOf(u, n) :
           stream' = [stream EXCEPT ![s].answered = TRUE] /\ running' = s
    BY DEF set_answer
  <1>2. s \in Live
    BY DEF PushOf, PullOf
  <1>3. s \in Id /\ stream[s] # NULL /\ stream[s] \in Stream
    BY <1>2, LiveIsStream DEF IInv
  <1> DEFINE new == [stream[s] EXCEPT !.answered = TRUE]
  <1>4. new \in Stream /\ new.type = stream[s].type /\ new.uid = stream[s].uid
        /\ new.name = stream[s].name
    BY <1>3 DEF Stream
  <1>5. new # NULL
    BY <1>4, NullAssumption
  <1>6. stream' = [stream EXCEPT ![s] = new]
    BY <1>1, <1>3 DEF IInv, TypeOK
  <1> HIDE DEF new
  <1>7. SameStreams(stream')
    BY <1>3, <1>4, <1>5, <1>6 DEF SameStreams, IInv, TypeOK
  <1>8. running' = s /\ UNCHANGED <<push, pull, pc, made, displaced>>
    BY <1>1 DEF set_answer
  <1>9. pc[s] = "live"
    BY <1>3 DEF IInv, PcOutlivesUse
  <1> QED BY <1>3, <1>7, <1>8, <1>9, UpdateKeeps

LEMMA ConnectionStateKeeps ==
  ASSUME IInv, NEW s \in Id, NEW state \in State, _on_connection_state(s, state)
  PROVE  IInv'
  <1> DEFINE timer == IF state = "connected" THEN "off" ELSE stream[s].timer
             after == [stream EXCEPT ![s].state = state, ![s].timer = timer]
  <1>1. s \in Live
    BY DEF _on_connection_state
  <1>2. timer \in {"armed", "off"}
    BY <1>1, LiveIsStream DEF IInv, Stream
  <1>3. SameStreams(after)
    BY <1>1, <1>2, SetStateSame DEF IInv
  <1>4. CASE state = "failed"
    <2>1. RemoveStream(s, after)
      BY <1>4 DEF _on_connection_state
    <2> QED BY <1>1, <1>3, <2>1, RemoveStreamKeeps
  <1>5. CASE state # "failed"
    <2>1. stream' = after /\ UNCHANGED <<push, pull, pc, made, displaced, running>>
      BY <1>5 DEF _on_connection_state
    <2> QED BY <1>3, <2>1, UpdateRunning
  <1> QED BY <1>4, <1>5

LEMMA IceTimeoutKeeps ==
  ASSUME IInv, NEW s \in Id, ice_timeout_cb(s)
  PROVE  IInv'
  <1> DEFINE after == [stream EXCEPT ![s].timer = "off"]
  <1>1. s \in Live
    BY DEF ice_timeout_cb
  <1>2. stream[s].state \in State /\ stream[s] \in Stream /\ s \in Id
    BY <1>1, LiveIsStream DEF IInv, Stream
  <1>3. after = [stream EXCEPT ![s].state = stream[s].state, ![s].timer = "off"]
    BY <1>2 DEF IInv, TypeOK, Stream
  <1>4. SameStreams(after)
    BY <1>1, <1>2, <1>3, SetStateSame DEF IInv
  <1>5. CASE stream[s].state # "connected"
    <2>1. RemoveStream(s, after)
      BY <1>5 DEF ice_timeout_cb
    <2> QED BY <1>1, <1>4, <2>1, RemoveStreamKeeps
  <1>6. CASE stream[s].state = "connected"
    <2>1. stream' = after /\ UNCHANGED <<push, pull, pc, made, displaced, running>>
      BY <1>6 DEF ice_timeout_cb
    <2> QED BY <1>4, <2>1, UpdateRunning
  <1> QED BY <1>5, <1>6

LEMMA DestroyTimerKeeps ==
  ASSUME IInv, NEW s \in Id, destroy_timer_cb(s)
  PROVE  IInv'
  <1>1. pc[s] = "dying" /\ pc' = [pc EXCEPT ![s] = "freed"]
        /\ UNCHANGED <<push, pull, stream, made, displaced, running>>
    BY DEF destroy_timer_cb
  <1>2. TypeOK'
    BY <1>1 DEF IInv, TypeOK
  <1>3. TablesSound' /\ NothingLeaked'
    BY <1>1 DEF IInv, TablesSound, NothingLeaked, Live
  <1>4. \A t \in Id : pc'[t] = IF t = s THEN "freed" ELSE pc[t]
    BY <1>1 DEF IInv, TypeOK
  <1>5. running' = NULL
    BY <1>1 DEF destroy_timer_cb
  <1>6. PcOutlivesUse' /\ FreshStreams'
    BY <1>1, <1>4, <1>5 DEF IInv, PcOutlivesUse, FreshStreams
  <1> QED BY <1>2, <1>3, <1>6 DEF IInv

(* A handler of a PeerConnection is only called before that is deleted.    *)
LEMMA HandleKeeps ==
  ASSUME IInv, (\E s \in Id : handle(s)) \/ resume
  PROVE  IInv'
  <1>1. SameStreams(stream') /\ UNCHANGED <<push, pull, pc, made, displaced>>
    BY DEF handle, resume, SameStreams, IInv, TypeOK
  <1>2. running' \in Id \cup {NULL} /\ (running' # NULL => pc[running'] \in {"live", "dying"})
    BY DEF handle, resume
  <1> QED BY <1>1, <1>2, UpdateKeeps

-----------------------------------------------------------------------------
LEMMA StepInv == IInv /\ [Next]_vars => IInv'
  <1> SUFFICES ASSUME IInv, [Next]_vars PROVE IInv'
    OBVIOUS
  <1>1. ASSUME NEW u \in Uid, NEW n \in Name,
               \/ create_push_stream(u, n) \/ create_pull_stream(u, n)
               \/ stop_push(u, n) \/ stop_pull(u, n) \/ set_answer(u, n)
        PROVE  IInv'
    <2>1. CASE create_push_stream(u, n)
      BY <2>1, CreatePushKeeps
    <2>2. CASE create_pull_stream(u, n)
      BY <2>2, CreatePullKeeps
    <2>3. SameStreams(stream)
      BY DEF SameStreams, IInv, TypeOK
    <2>4. CASE stop_push(u, n)
      BY <2>3, <2>4, RemovePushKeeps DEF stop_push
    <2>5. CASE stop_pull(u, n)
      BY <2>3, <2>5, RemovePullKeeps DEF stop_pull
    <2>6. CASE set_answer(u, n)
      BY <2>6, AnswerKeeps
    <2> QED BY <1>1, <2>1, <2>2, <2>4, <2>5, <2>6
  <1>2. ASSUME NEW s \in Id, NEW state \in State, _on_connection_state(s, state)
        PROVE  IInv'
    BY <1>2, ConnectionStateKeeps
  <1>3. ASSUME NEW s \in Id, ice_timeout_cb(s) PROVE IInv'
    BY <1>3, IceTimeoutKeeps
  <1>4. ASSUME NEW s \in Id, destroy_timer_cb(s) PROVE IInv'
    BY <1>4, DestroyTimerKeeps
  <1>5. CASE UNCHANGED vars
    <2>1. Live' = Live
      BY <1>5 DEF vars, Live
    <2> QED BY <1>5, <2>1 DEF vars, IInv, TypeOK, TablesSound, NothingLeaked,
                              PcOutlivesUse, FreshStreams
  <1>6. CASE (\E s \in Id : handle(s)) \/ resume
    BY <1>6, HandleKeeps
  <1> QED BY <1>1, <1>2, <1>3, <1>4, <1>5, <1>6 DEF Next, Command, Event

(* The tables, the objects and the PeerConnections agree in every          *)
(* reachable state: IInv is inductive.                                     *)
THEOREM Inductive == Spec => []IInv
  BY InitInv, StepInv, PTL DEF Spec

(* The tables and the objects keep their types.                            *)
THEOREM TypeCorrect == Spec => []TypeOK
  BY Inductive, PTL DEF IInv

(* RtcStreamManager never follows a pointer to a deleted stream.           *)
THEOREM TablesSafe == Spec => []TablesSound
  <1>1. IInv => TablesSound
    BY DEF IInv
  <1> QED BY <1>1, Inductive, PTL

(* Only a pull displaced by another user's is ever out of the tables.      *)
THEOREM LeakSafe == Spec => []NothingLeaked
  <1>1. IInv => NothingLeaked
    BY DEF IInv
  <1> QED BY <1>1, Inductive, PTL

(* No PeerConnection is deleted under a handler of its own, nor before its *)
(* stream: deleting it waits for the event loop.                           *)
THEOREM PcSafe == Spec => []PcOutlivesUse
  <1>1. IInv => PcOutlivesUse
    BY DEF IInv
  <1> QED BY <1>1, Inductive, PTL

-----------------------------------------------------------------------------
(* A stream that is not displaced is the one its table holds.              *)
LEMMA RemoveStreamOwn ==
  ASSUME IInv, NEW t \in Live, t \notin displaced, NEW streams, SameStreams(streams),
         RemoveStream(t, streams), NEW s \in Id, s # t, stream[s] # NULL
  PROVE  stream'[s] # NULL
  <1>1. t \in Id /\ stream[t] # NULL /\ stream[t] \in Stream
    BY LiveIsStream DEF IInv
  <1>2. stream[t].name \in Name /\ t # NULL
    BY <1>1, NullNotId DEF Stream
  <1>3. push[stream[t].name] = t \/ pull[stream[t].name] = t
    BY DEF IInv, NothingLeaked
  <1>4. streams[s] # NULL
    BY DEF SameStreams
  <1>5. CASE stream[t].type = "push"
    <2>1. push[stream[t].name] = t
      BY <1>2, <1>3, <1>5 DEF IInv, TablesSound
    <2>2. s \notin PushOf(stream[t].uid, stream[t].name)
      BY <2>1 DEF PushOf
    <2> QED BY <1>4, <1>5, <2>2 DEF RemoveStream, RemovePush, Without
  <1>6. CASE stream[t].type # "push"
    <2>1. pull[stream[t].name] = t
      BY <1>2, <1>3, <1>6 DEF IInv, TablesSound
    <2>2. s \notin PullOf(stream[t].uid, stream[t].name)
      BY <2>1 DEF PullOf
    <2> QED BY <1>4, <1>6, <2>2 DEF RemoveStream, RemovePull, Without
  <1> QED BY <1>5, <1>6

LEMMA OwnRemovalHolds == IInv /\ [Next]_vars => OwnRemovalStep
  <1> SUFFICES ASSUME IInv, [Next]_vars, NEW s \in Id, NEW t \in Id,
                      s # t, stream[s] # NULL, stream'[s] = NULL,
                      stream[t] # NULL, stream'[t] # stream[t], t \notin displaced
               PROVE  FALSE
    BY DEF OwnRemovalStep
  <1> DEFINE new == made + 1
  <1>1. t \in Live
    BY DEF Live
  <1>2. new \in Id => stream[new] = NULL
    BY MaxStreamsAssumption DEF IInv, TypeOK, FreshStreams, Id
  <1>3. ASSUME NEW u \in Uid, NEW n \in Name, create_push_stream(u, n)
        PROVE  FALSE
    <2>1. t # new /\ s # new
      BY <1>2
    <2>2. /\ stream'[s] = IF s = push[n] THEN NULL ELSE stream[s]
          /\ stream'[t] = IF t = push[n] THEN NULL ELSE stream[t]
      BY <1>3, <2>1 DEF create_push_stream, Without
    <2> QED BY <2>2
  <1>4. ASSUME NEW u \in Uid, NEW n \in Name, create_pull_stream(u, n)
        PROVE  FALSE
    <2>1. t # new /\ s # new
      BY <1>2
    <2>2. /\ stream'[s] = IF s \in PullOf(u, n) THEN NULL ELSE stream[s]
          /\ stream'[t] = IF t \in PullOf(u, n) THEN NULL ELSE stream[t]
      BY <1>4, <2>1 DEF create_pull_stream, Without
    <2> QED BY <2>2 DEF PullOf
  <1>5. ASSUME NEW u \in Uid, NEW n \in Name, stop_push(u, n) PROVE FALSE
    <2>1. s \in PushOf(u, n) /\ t \in PushOf(u, n)
      BY <1>5 DEF stop_push, RemovePush, Without
    <2> QED BY <2>1 DEF PushOf
  <1>6. ASSUME NEW u \in Uid, NEW n \in Name, stop_pull(u, n) PROVE FALSE
    <2>1. s \in PullOf(u, n) /\ t \in PullOf(u, n)
      BY <1>6 DEF stop_pull, RemovePull, Without
    <2> QED BY <2>1 DEF PullOf
  <1>7. ASSUME NEW u \in Uid, NEW n \in Name, set_answer(u, n) PROVE FALSE
    <2>1. PICK x \in PushOf(u, n) \cup PullOf(u, n) :
             stream' = [stream EXCEPT ![x].answered = TRUE]
      BY <1>7 DEF set_answer
    <2>2. x = t /\ s # x
      BY <2>1 DEF IInv, TypeOK, PushOf, PullOf, Live
    <2>3. stream'[s] = stream[s]
      BY <2>1, <2>2 DEF IInv, TypeOK
    <2> QED BY <2>3
  <1>8. ASSUME NEW x \in Id, NEW state \in State, _on_connection_state(x, state)
        PROVE  FALSE
    <2> DEFINE timer == IF state = "connected" THEN "off" ELSE stream[x].timer
               after == [stream EXCEPT ![x].state = state, ![x].timer = timer]
    <2>1. x \in Live
      BY <1>8 DEF _on_connection_state
    <2>2. timer \in {"armed", "off"}
      BY <2>1, LiveIsStream DEF IInv, Stream
    <2>3. SameStreams(after)
      BY <2>1, <2>2, SetStateSame DEF IInv
    <2>4. stream' = after \/ RemoveStream(x, after)
      BY <1>8 DEF _on_connection_state
    <2> HIDE DEF timer
    <2>5. \A y \in Id : y # x => after[y] = stream[y]
      BY DEF IInv, TypeOK
    <2>6. CASE stream' = after
      BY <2>3, <2>6 DEF SameStreams
    <2>7. CASE RemoveStream(x, after)
      <3>1. CASE x = t
        BY <2>3, <2>7, <3>1, <1>1, RemoveStreamOwn
      <3>2. CASE x # t
        <4>2. \E P \in {PushOf(stream[x].uid, stream[x].name),
                        PullOf(stream[x].uid, stream[x].name)} :
                 \A y \in Id : stream'[y] = IF y \in P THEN NULL ELSE after[y]
          BY <2>7 DEF RemoveStream, RemovePush, RemovePull, Without
        <4>3. PICK P \in {PushOf(stream[x].uid, stream[x].name),
                          PullOf(stream[x].uid, stream[x].name)} :
                 \A y \in Id : stream'[y] = IF y \in P THEN NULL ELSE after[y]
          BY <4>2
        <4>4. s \in P
          BY <2>3, <4>3 DEF SameStreams
        <4>5. t \in P
          BY <2>5, <3>2, <4>3
        <4> QED BY <4>4, <4>5 DEF PushOf, PullOf
      <3> QED BY <3>1, <3>2
    <2> QED BY <2>4, <2>6, <2>7
  <1>9. ASSUME NEW x \in Id, ice_timeout_cb(x) PROVE FALSE
    <2> DEFINE after == [stream EXCEPT ![x].timer = "off"]
    <2>1. x \in Live
      BY <1>9 DEF ice_timeout_cb
    <2>2. stream[x].state \in State /\ stream[x] \in Stream /\ x \in Id
      BY <2>1, LiveIsStream DEF IInv, Stream
    <2>3. after = [stream EXCEPT ![x].state = stream[x].state, ![x].timer = "off"]
      BY <2>2 DEF IInv, TypeOK, Stream
    <2>4. SameStreams(after)
      BY <2>1, <2>2, <2>3, SetStateSame DEF IInv
    <2>5. stream' = after \/ RemoveStream(x, after)
      BY <1>9 DEF ice_timeout_cb
    <2>6. \A y \in Id : y # x => after[y] = stream[y]
      BY DEF IInv, TypeOK
    <2>7. CASE stream' = after
      BY <2>4, <2>7 DEF SameStreams
    <2>8. CASE RemoveStream(x, after)
      <3>1. CASE x = t
        BY <2>4, <2>8, <3>1, <1>1, RemoveStreamOwn
      <3>2. CASE x # t
        <4>1. \E P \in {PushOf(stream[x].uid, stream[x].name),
                        PullOf(stream[x].uid, stream[x].name)} :
                 \A y \in Id : stream'[y] = IF y \in P THEN NULL ELSE after[y]
          BY <2>8 DEF RemoveStream, RemovePush, RemovePull, Without
        <4>2. PICK P \in {PushOf(stream[x].uid, stream[x].name),
                          PullOf(stream[x].uid, stream[x].name)} :
                 \A y \in Id : stream'[y] = IF y \in P THEN NULL ELSE after[y]
          BY <4>1
        <4>3. s \in P
          BY <2>4, <4>2 DEF SameStreams
        <4>4. t \in P
          BY <2>6, <3>2, <4>2
        <4> QED BY <4>3, <4>4 DEF PushOf, PullOf
      <3> QED BY <3>1, <3>2
    <2> QED BY <2>5, <2>7, <2>8
  <1>10. ASSUME NEW x \in Id, destroy_timer_cb(x) PROVE FALSE
    BY <1>10 DEF destroy_timer_cb
  <1>11. CASE UNCHANGED vars
    BY <1>11 DEF vars
  <1>12. CASE (\E x \in Id : handle(x)) \/ resume
    BY <1>12 DEF handle, resume
  <1> QED BY <1>3, <1>4, <1>5, <1>6, <1>7, <1>8, <1>9, <1>10, <1>11, <1>12
          DEF Next, Command, Event

(* The failure or the timeout of a stream that was not displaced deletes   *)
(* no other stream.                                                        *)
THEOREM OwnRemovalSafe == Spec => OwnRemoval
  BY Inductive, OwnRemovalHolds, PTL DEF Spec, OwnRemoval
=============================================================================
