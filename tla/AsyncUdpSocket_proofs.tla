----------------------- MODULE AsyncUdpSocket_proofs -----------------------
(***************************************************************************)
(* The send queue of the socket is sound for every size of the kernel's    *)
(* buffer and any number of packets.                                       *)
(***************************************************************************)
EXTENDS AsyncUdpSocket, SequenceTheorems, TLAPS

(* The conjunction the steps preserve: the properties need each other.     *)
IndInv == TypeOK /\ NoLostWakeup /\ InOrder /\ Accounted

LEMMA InitInd == Init => IndInv
  <1> SUFFICES ASSUME Init PROVE IndInv
    OBVIOUS
  <1>1. list = <<>> /\ wire = <<>> /\ Entries(list) = {} /\ Entries(wire) = {}
    BY DEF Init, Entries
  <1>2. TypeOK
    BY SendRoomAssumption DEF Init, TypeOK
  <1>3. NoLostWakeup
    BY <1>1 DEF NoLostWakeup
  <1>4. InOrder
    BY <1>1 DEF InOrder, Increasing
  <1>5. Accounted
    BY <1>1 DEF Init, Accounted
  <1> QED BY <1>2, <1>3, <1>4, <1>5 DEF IndInv

(* The two halves of the list.                                             *)
LEMMA Halves ==
  ASSUME TypeOK, NEW k \in 0 .. Len(list)
  PROVE  /\ Take(k) \in Seq(1 .. calls) /\ Len(Take(k)) = k
         /\ \A i \in 1 .. k : Take(k)[i] = list[i]
         /\ Leave(k) \in Seq(1 .. calls) /\ Len(Leave(k)) = Len(list) - k
         /\ \A i \in 1 .. Len(list) - k : Leave(k)[i] = list[k + i]
  BY DEF TypeOK, Take, Leave

(* What a loop over the list does to the wire and to what remains: the     *)
(* first k packets go out, and a failed one is taken off.                  *)
LEMMA AfterTake ==
  ASSUME TypeOK, InOrder, NEW k \in 0 .. Len(list)
  PROVE  LET w == wire \o Take(k)
         IN  /\ w \in Seq(1 .. calls)
             /\ Increasing(w)
             /\ Entries(w) = Entries(wire) \cup Entries(Take(k))
             /\ Increasing(Leave(k))
             /\ \A x \in Entries(w), y \in Entries(Leave(k)) : x < y
             /\ Entries(list) = Entries(Take(k)) \cup Entries(Leave(k))
  <1> DEFINE w == wire \o Take(k)
  <1>0. /\ Take(k) \in Seq(1 .. calls) /\ Len(Take(k)) = k
        /\ \A i \in 1 .. k : Take(k)[i] = list[i]
        /\ Leave(k) \in Seq(1 .. calls) /\ Len(Leave(k)) = Len(list) - k
        /\ \A i \in 1 .. Len(list) - k : Leave(k)[i] = list[k + i]
    BY Halves
  <1>1. /\ w \in Seq(1 .. calls) /\ Len(w) = Len(wire) + k
        /\ \A i \in 1 .. Len(w) : w[i] = IF i <= Len(wire) THEN wire[i] ELSE list[i - Len(wire)]
    <2>1. wire \in Seq(1 .. calls) /\ Take(k) \in Seq(1 .. calls) /\ Len(Take(k)) = k
      BY <1>0 DEF TypeOK
    <2>2. w \in Seq(1 .. calls) /\ Len(w) = Len(wire) + k
      BY <2>1, ConcatProperties
    <2>3. \A i \in 1 .. Len(w) : w[i] = IF i <= Len(wire) THEN wire[i] ELSE Take(k)[i - Len(wire)]
      BY <2>1, ConcatProperties
    <2>4. \A i \in 1 .. Len(w) : i > Len(wire) => i - Len(wire) \in 1 .. k
      BY <2>1, <2>2
    <2>5. \A i \in 1 .. k : Take(k)[i] = list[i]
      BY <1>0
    <2> QED BY <2>2, <2>3, <2>4, <2>5
  <1>2. \A i \in 1 .. Len(wire), j \in 1 .. Len(list) : wire[i] < list[j]
    BY DEF InOrder, Entries
  <1>3. Increasing(w)
    <2> SUFFICES ASSUME NEW i \in 1 .. Len(w), NEW j \in 1 .. Len(w), i < j
                 PROVE  w[i] < w[j]
      BY DEF Increasing
    <2>1. CASE j <= Len(wire)
      BY <1>1, <2>1 DEF InOrder, Increasing, TypeOK
    <2>2. CASE i <= Len(wire) /\ j > Len(wire)
      BY <1>1, <1>2, <2>2 DEF TypeOK
    <2>3. CASE i > Len(wire)
      <3>1. i - Len(wire) \in 1 .. Len(list) /\ j - Len(wire) \in 1 .. Len(list)
        BY <1>1, <2>3 DEF TypeOK
      <3>2. i - Len(wire) < j - Len(wire) /\ ~(i <= Len(wire)) /\ ~(j <= Len(wire))
        BY <1>1, <2>3 DEF TypeOK
      <3>3. w[i] = list[i - Len(wire)] /\ w[j] = list[j - Len(wire)]
        BY <1>1, <3>2
      <3> QED BY <3>1, <3>2, <3>3 DEF InOrder, Increasing
    <2> QED BY <2>1, <2>2, <2>3 DEF TypeOK
  <1>4. Entries(w) = Entries(wire) \cup Entries(Take(k))
    <2>1. \A i \in 1 .. Len(wire) : w[i] = wire[i] /\ i \in 1 .. Len(w)
      BY <1>1 DEF TypeOK
    <2>2. \A i \in 1 .. k : w[Len(wire) + i] = Take(k)[i] /\ Len(wire) + i \in 1 .. Len(w)
      BY <1>1, <1>0 DEF TypeOK
    <2>3. \A i \in 1 .. Len(w) : i \in 1 .. Len(wire) \/ i - Len(wire) \in 1 .. k
      BY <1>1 DEF TypeOK
    <2>4. \A i \in 1 .. Len(w) : w[i] \in Entries(wire) \cup Entries(Take(k))
      <3> TAKE i \in 1 .. Len(w)
      <3>1. CASE i \in 1 .. Len(wire)
        BY <2>1, <3>1 DEF Entries
      <3>2. CASE i - Len(wire) \in 1 .. k
        <4>1. w[i] = Take(k)[i - Len(wire)]
          BY <1>1, <3>2, <1>0 DEF TypeOK
        <4> QED BY <3>2, <4>1, <1>0 DEF Entries
      <3> QED BY <2>3, <3>1, <3>2
    <2>5. Entries(wire) \subseteq Entries(w)
      BY <2>1 DEF Entries
    <2>6. Entries(Take(k)) \subseteq Entries(w)
      <3>1. Len(Take(k)) = k
        BY <1>0
      <3> QED BY <2>2, <3>1 DEF Entries
    <2> QED BY <2>4, <2>5, <2>6 DEF Entries
  <1>5. Increasing(Leave(k))
    <2>1. \A i \in 1 .. Len(list) - k : k + i \in 1 .. Len(list)
      BY DEF TypeOK
    <2>2. Len(Leave(k)) = Len(list) - k
      BY <1>0
    <2> SUFFICES ASSUME NEW i \in 1 .. Len(list) - k, NEW j \in 1 .. Len(list) - k, i < j
                 PROVE  Leave(k)[i] < Leave(k)[j]
      BY <2>2 DEF Increasing
    <2>3. list[k + i] < list[k + j]
      BY <2>1 DEF InOrder, Increasing, TypeOK
    <2>4. Leave(k)[i] = list[k + i] /\ Leave(k)[j] = list[k + j]
      BY <1>0
    <2> QED BY <2>3, <2>4
  <1>6. Entries(list) = Entries(Take(k)) \cup Entries(Leave(k))
    <2>1. \A i \in 1 .. Len(list) : i \in 1 .. k \/ i - k \in 1 .. Len(list) - k
      BY DEF TypeOK
    <2>2. \A i \in 1 .. Len(list) : list[i] \in Entries(Take(k)) \cup Entries(Leave(k))
      <3> TAKE i \in 1 .. Len(list)
      <3>1. CASE i \in 1 .. k
        BY <3>1, <1>0 DEF Entries
      <3>2. CASE i - k \in 1 .. Len(list) - k
        <4>1. k + (i - k) = i
          BY DEF TypeOK
        <4>2. Leave(k)[i - k] = list[i]
          BY <1>0, <3>2, <4>1
        <4>3. Len(Leave(k)) = Len(list) - k
          BY <1>0
        <4> QED BY <3>2, <4>2, <4>3 DEF Entries
      <3> QED BY <2>1, <3>1, <3>2
    <2>3. \A i \in 1 .. Len(list) - k : k + i \in 1 .. Len(list)
      BY DEF TypeOK
    <2>4. Entries(Leave(k)) \subseteq Entries(list)
      <3>1. Len(Leave(k)) = Len(list) - k
        BY <1>0
      <3>2. \A i \in 1 .. Len(list) - k : Leave(k)[i] \in Entries(list)
        BY <2>3, <1>0 DEF Entries
      <3> QED BY <3>1, <3>2 DEF Entries
    <2>5. Entries(Take(k)) \subseteq Entries(list)
      <3>1. 1 .. k \subseteq 1 .. Len(list)
        BY DEF TypeOK
      <3> QED BY <3>1, <1>0 DEF Entries
    <2> QED BY <2>2, <2>4, <2>5 DEF Entries
  <1>7. ASSUME NEW x \in Entries(w), NEW y \in Entries(Leave(k)) PROVE x < y
    <2>1. PICK j \in 1 .. Len(list) - k : y = list[k + j]
      <3>1. Len(Leave(k)) = Len(list) - k
        BY <1>0
      <3> QED BY <3>1, <1>0 DEF Entries
    <2>2. k + j \in 1 .. Len(list) /\ y \in Entries(list)
      BY <2>1 DEF Entries, TypeOK
    <2>3. CASE x \in Entries(wire)
      BY <2>2, <2>3 DEF InOrder
    <2>4. CASE x \in Entries(Take(k))
      <3>1. PICK i \in 1 .. k : x = list[i]
        <4>1. Len(Take(k)) = k
          BY <1>0
        <4> QED BY <2>4, <4>1, <1>0 DEF Entries
      <3>2. i \in 1 .. Len(list) /\ i < k + j
        BY <2>1 DEF TypeOK
      <3> QED BY <2>1, <2>2, <3>1, <3>2 DEF InOrder, Increasing
    <2> QED BY <1>4, <2>3, <2>4
  <1> QED BY <1>1, <1>3, <1>4, <1>5, <1>6, <1>7

(* Taking the failed packet off as well.                                   *)
LEMMA AfterFail ==
  ASSUME TypeOK, InOrder, NEW k \in 0 .. Len(list), k < Len(list)
  PROVE  /\ list[k + 1] \in 1 .. calls
         /\ Entries(Leave(k)) = {list[k + 1]} \cup Entries(Leave(k + 1))
         /\ Leave(k + 1) \in Seq(1 .. calls)
         /\ Increasing(Leave(k + 1))
         /\ list[k + 1] \notin Entries(Leave(k + 1))
         /\ list[k + 1] \notin Entries(wire \o Take(k))
  <1>1. k + 1 \in 0 .. Len(list) /\ k + 1 \in 1 .. Len(list)
    BY DEF TypeOK
  <1>2. list[k + 1] \in 1 .. calls
    BY <1>1 DEF TypeOK
  <1>3. Leave(k + 1) \in Seq(1 .. calls) /\ Increasing(Leave(k + 1))
    BY <1>1, Halves, AfterTake
  <1>4. /\ Len(Leave(k)) = Len(list) - k
        /\ \A i \in 1 .. Len(list) - k : Leave(k)[i] = list[k + i]
        /\ Len(Leave(k + 1)) = Len(list) - (k + 1)
        /\ \A i \in 1 .. Len(list) - (k + 1) : Leave(k + 1)[i] = list[(k + 1) + i]
    BY <1>1, Halves
  <1>5. \A i \in 1 .. Len(list) - (k + 1) : /\ i + 1 \in 1 .. Len(list) - k
                                           /\ Leave(k + 1)[i] = Leave(k)[i + 1]
    <2> TAKE i \in 1 .. Len(list) - (k + 1)
    <2>1. i + 1 \in 1 .. Len(list) - k /\ (k + 1) + i = k + (i + 1)
      BY DEF TypeOK
    <2> QED BY <1>4, <2>1
  <1>6. 1 \in 1 .. Len(list) - k /\ Leave(k)[1] = list[k + 1]
    BY <1>4 DEF TypeOK
  <1>7. \A i \in 1 .. Len(list) - k : i = 1 \/ (i - 1 \in 1 .. Len(list) - (k + 1)
                                             /\ Leave(k)[i] = Leave(k + 1)[i - 1])
    BY <1>4, <1>5 DEF TypeOK
  <1>8. Entries(Leave(k)) = {list[k + 1]} \cup Entries(Leave(k + 1))
    <2>1. Entries(Leave(k)) = {Leave(k)[i] : i \in 1 .. Len(list) - k}
      BY <1>4 DEF Entries
    <2>2. Entries(Leave(k + 1)) = {Leave(k + 1)[i] : i \in 1 .. Len(list) - (k + 1)}
      BY <1>4 DEF Entries
    <2>3. Entries(Leave(k)) \subseteq {list[k + 1]} \cup Entries(Leave(k + 1))
      BY <1>6, <1>7, <2>1, <2>2
    <2>4. {list[k + 1]} \cup Entries(Leave(k + 1)) \subseteq Entries(Leave(k))
      BY <1>5, <1>6, <2>1, <2>2
    <2> QED BY <2>3, <2>4
  <1>9. list[k + 1] \notin Entries(Leave(k + 1))
    <2>1. list[k + 1] \in Entries(Take(k + 1))
      <3>1. Len(Take(k + 1)) = k + 1 /\ Take(k + 1)[k + 1] = list[k + 1]
        <4>1. k + 1 \in 1 .. k + 1
          OBVIOUS
        <4> QED BY <1>1, <4>1, Halves
      <3> QED BY <1>1, <3>1 DEF Entries
    <2>2. list[k + 1] \in Entries(wire \o Take(k + 1))
      BY <1>1, <2>1, AfterTake
    <2>3. \A x \in Entries(wire \o Take(k + 1)), y \in Entries(Leave(k + 1)) : x < y
      BY <1>1, AfterTake
    <2>4. ~(list[k + 1] < list[k + 1])
      BY <1>2 DEF TypeOK
    <2> QED BY <2>2, <2>3, <2>4
  <1>10. list[k + 1] \notin Entries(wire \o Take(k))
    <2>1. \A x \in Entries(wire \o Take(k)), y \in Entries(Leave(k)) : x < y
      BY AfterTake
    <2>2. ~(list[k + 1] < list[k + 1])
      BY <1>2 DEF TypeOK
    <2> QED BY <1>8, <2>1, <2>2
  <1> QED BY <1>2, <1>3, <1>8, <1>9, <1>10

(* The queue part of the invariant, of n calls, the wire w, the list l and *)
(* the refused and dropped packets r and d.                                *)
Good(n, w, l, r, d) ==
    /\ w \in Seq(1 .. n) /\ l \in Seq(1 .. n) /\ r \subseteq 1 .. n /\ d \subseteq 1 .. n
    /\ Increasing(w) /\ Increasing(l)
    /\ \A x \in Entries(w), y \in Entries(l) : x < y
    /\ r \cap (Entries(w) \cup Entries(l) \cup d) = {}
    /\ d \cap (Entries(w) \cup Entries(l)) = {}
    /\ 1 .. n = r \cup d \cup Entries(w) \cup Entries(l)

LEMMA IndGood == IndInv => Good(calls, wire, list, refused, dropped)
  BY DEF IndInv, TypeOK, InOrder, Accounted, Good

(* A loop over the list that ends with an empty list or with EAGAIN.       *)
LEMMA LoopTakes ==
  ASSUME IndInv, NEW k \in 0 .. Len(list)
  PROVE  Good(calls, wire \o Take(k), Leave(k), refused, dropped)
  <1> DEFINE w == wire \o Take(k)
  <1>1. TypeOK /\ InOrder /\ Accounted
    BY DEF IndInv
  <1>2. Entries(w) \cup Entries(Leave(k)) = Entries(wire) \cup Entries(list)
    BY <1>1, AfterTake
  <1>3. /\ w \in Seq(1 .. calls) /\ Leave(k) \in Seq(1 .. calls)
        /\ Increasing(w) /\ Increasing(Leave(k))
        /\ \A x \in Entries(w), y \in Entries(Leave(k)) : x < y
    BY <1>1, AfterTake, Halves
  <1> QED BY <1>1, <1>2, <1>3 DEF Good, Accounted, TypeOK

(* A loop that ends with a send error.                                     *)
LEMMA LoopFails ==
  ASSUME IndInv, NEW k \in 0 .. Len(list), k < Len(list)
  PROVE  Good(calls, wire \o Take(k), Leave(k + 1), refused, dropped \cup {list[k + 1]})
  <1> DEFINE w == wire \o Take(k)  p == list[k + 1]
  <1>1. TypeOK /\ InOrder /\ Good(calls, w, Leave(k), refused, dropped)
    BY LoopTakes DEF IndInv
  <1>2. /\ p \in 1 .. calls
        /\ Entries(Leave(k)) = {p} \cup Entries(Leave(k + 1))
        /\ Leave(k + 1) \in Seq(1 .. calls) /\ Increasing(Leave(k + 1))
        /\ p \notin Entries(Leave(k + 1)) /\ p \notin Entries(w)
    BY <1>1, AfterFail
  <1> HIDE DEF w, p
  <1>3. Good(calls, w, Leave(k + 1), refused, dropped \cup {p})
    BY <1>1, <1>2 DEF Good
  <1> QED BY <1>3 DEF w, p

(* What becomes of the new packet: refused, queued, or sent.               *)
LEMMA NewRefused ==
  ASSUME NEW n \in Nat, NEW w, NEW l, NEW r, NEW d, Good(n, w, l, r, d)
  PROVE  Good(n + 1, w, l, r \cup {n + 1}, d)
  <1>1. 1 .. n + 1 = (1 .. n) \cup {n + 1} /\ n + 1 \notin 1 .. n
    OBVIOUS
  <1>2. w \in Seq(1 .. n + 1) /\ l \in Seq(1 .. n + 1)
    BY <1>1 DEF Good
  <1>3. Entries(w) \cup Entries(l) \cup d \subseteq 1 .. n
    BY DEF Good
  <1> QED BY <1>1, <1>2, <1>3 DEF Good

LEMMA Extended ==
  ASSUME NEW n \in Nat, NEW s \in Seq(1 .. n), Increasing(s)
  PROVE  /\ Append(s, n + 1) \in Seq(1 .. n + 1)
         /\ Increasing(Append(s, n + 1))
         /\ Entries(Append(s, n + 1)) = Entries(s) \cup {n + 1}
  <1> DEFINE t == Append(s, n + 1)
  <1>1. /\ t \in Seq(1 .. n + 1) /\ Len(t) = Len(s) + 1 /\ t[Len(s) + 1] = n + 1
        /\ \A i \in 1 .. Len(s) : t[i] = s[i] /\ s[i] \in 1 .. n
    OBVIOUS
  <1>2. 1 .. Len(t) = (1 .. Len(s)) \cup {Len(s) + 1}
    BY <1>1
  <1>3. Entries(t) = Entries(s) \cup {n + 1}
    BY <1>1, <1>2 DEF Entries
  <1>4. Increasing(t)
    <2> SUFFICES ASSUME NEW i \in 1 .. Len(t), NEW j \in 1 .. Len(t), i < j
                 PROVE  t[i] < t[j]
      BY DEF Increasing
    <2>1. i \in 1 .. Len(s)
      BY <1>1
    <2>2. CASE j \in 1 .. Len(s)
      BY <1>1, <2>1, <2>2 DEF Increasing
    <2>3. CASE j = Len(s) + 1
      BY <1>1, <2>1, <2>3
    <2> QED BY <1>2, <2>2, <2>3
  <1> QED BY <1>1, <1>3, <1>4

LEMMA NewQueued ==
  ASSUME NEW n \in Nat, NEW w, NEW l, NEW r, NEW d, Good(n, w, l, r, d)
  PROVE  Good(n + 1, w, Append(l, n + 1), r, d)
  <1>1. 1 .. n + 1 = (1 .. n) \cup {n + 1} /\ \A x \in 1 .. n : x < n + 1 /\ x # n + 1
    OBVIOUS
  <1>2. w \in Seq(1 .. n + 1) /\ l \in Seq(1 .. n) /\ Increasing(l)
    BY <1>1 DEF Good
  <1>3. /\ Append(l, n + 1) \in Seq(1 .. n + 1)
        /\ Increasing(Append(l, n + 1))
        /\ Entries(Append(l, n + 1)) = Entries(l) \cup {n + 1}
    BY <1>2, Extended
  <1>4. Entries(w) \cup r \cup d \subseteq 1 .. n
    BY DEF Good
  <1> HIDE DEF Increasing, Entries
  <1> QED BY <1>1, <1>2, <1>3, <1>4 DEF Good

LEMMA NewSent ==
  ASSUME NEW n \in Nat, NEW w, NEW r, NEW d, Good(n, w, <<>>, r, d)
  PROVE  Good(n + 1, w \o <<n + 1>>, <<>>, r, d)
  <1>1. 1 .. n + 1 = (1 .. n) \cup {n + 1} /\ n + 1 \notin 1 .. n
    OBVIOUS
  <1>2. w \in Seq(1 .. n) /\ Increasing(w) /\ Entries(<<>>) = {}
    BY DEF Good, Entries
  <1>3. w \o <<n + 1>> = Append(w, n + 1)
    BY <1>2
  <1>4. /\ Append(w, n + 1) \in Seq(1 .. n + 1)
        /\ Increasing(Append(w, n + 1))
        /\ Entries(Append(w, n + 1)) = Entries(w) \cup {n + 1}
    BY <1>2, Extended
  <1>5. Increasing(<<>>) /\ <<>> \in Seq(1 .. n + 1)
    BY DEF Increasing
  <1> QED BY <1>1, <1>2, <1>3, <1>4, <1>5 DEF Good

-----------------------------------------------------------------------------
(* The WRITE callback.                                                     *)
LEMMA SendDataInd == IndInv /\ send_data => IndInv'
  <1> SUFFICES ASSUME IndInv, send_data PROVE IndInv'
    OBVIOUS
  <1> USE DEF send_data
  <1>1. PICK k \in 0 .. Len(list) :
           /\ \/ Flushed(k) /\ list' = <<>> /\ stop_io_event({"WRITE"}) /\ dropped' = dropped
              \/ Blocked(k) /\ list' = Leave(k) /\ dropped' = dropped /\ mask' = mask
              \/ Failed(k) /\ list' = Leave(k + 1) /\ dropped' = dropped \cup {list[k + 1]}
                 /\ mask' = mask
           /\ wire' = wire \o Take(k) /\ buffered' = buffered + k
    OBVIOUS
  <1>2. Good(calls', wire', list', refused', dropped')
    <2>1. CASE Flushed(k) /\ list' = <<>> /\ dropped' = dropped
      <3>1. Leave(k) = <<>>
        BY <2>1, Halves DEF Flushed, IndInv
      <3> QED BY <1>1, <2>1, <3>1, LoopTakes
    <2>2. CASE Blocked(k) /\ list' = Leave(k) /\ dropped' = dropped
      BY <1>1, <2>2, LoopTakes
    <2>3. CASE Failed(k) /\ list' = Leave(k + 1) /\ dropped' = dropped \cup {list[k + 1]}
      BY <1>1, <2>3, LoopFails DEF Failed
    <2> QED BY <1>1, <2>1, <2>2, <2>3
  <1>3. InOrder' /\ Accounted'
    BY <1>2 DEF Good, InOrder, Accounted
  <1>4. NoLostWakeup'
    BY <1>1 DEF NoLostWakeup, stop_io_event
  <1>5. TypeOK'
    <2>1. buffered' \in 0 .. SendRoom
      BY <1>1, SendRoomAssumption DEF IndInv, TypeOK, Flushed, Blocked, Failed, Room
    <2>2. mask' \subseteq {"READ", "WRITE"}
      BY <1>1 DEF IndInv, TypeOK, stop_io_event
    <2> QED BY <1>2, <2>1, <2>2 DEF IndInv, TypeOK, Good, recvVars
  <1> QED BY <1>3, <1>4, <1>5 DEF IndInv

(* send_to() with each of the outcomes of _add_udp_packet().               *)
LEMMA SendToInd == IndInv /\ send_to => IndInv'
  <1> SUFFICES ASSUME IndInv, send_to PROVE IndInv'
    OBVIOUS
  <1> DEFINE p == calls + 1
  <1>1. /\ calls' = p /\ UNCHANGED recvVars
        /\ calls \in Nat /\ TypeOK
    BY DEF send_to, IndInv, TypeOK
  <1>2. PICK k \in 0 .. Len(list) :
           AddFails(k, p) \/ AddBlocked(k, p) \/ AddSends(k, p) \/ AddError(k, p)
    BY DEF send_to
  <1>3. Flushed(k) => Leave(k) = <<>>
    BY <1>1, Halves DEF Flushed
  <1>4. /\ Good(calls', wire', list', refused', dropped')
        /\ list' # <<>> => "WRITE" \in mask'
        /\ mask' \subseteq {"READ", "WRITE"}
        /\ buffered' \in 0 .. SendRoom
    <2>1. CASE AddFails(k, p)
      <3>1. Good(p, wire', list', refused', dropped')
        BY <1>1, <2>1, LoopFails, NewRefused DEF AddFails, Failed
      <3>2. list # <<>>
        BY <1>1, <2>1 DEF AddFails, Failed, TypeOK
      <3> QED BY <1>1, <2>1, <3>1, <3>2, SendRoomAssumption
              DEF AddFails, Failed, Room, IndInv, NoLostWakeup, TypeOK
    <2>2. CASE AddBlocked(k, p)
      <3>1. Good(p, wire', list', refused', dropped')
        BY <1>1, <2>2, LoopTakes, NewQueued DEF AddBlocked, SendAgain
      <3> QED BY <1>1, <2>2, <3>1, SendRoomAssumption
              DEF AddBlocked, Blocked, Flushed, Room, SendAgain, start_io_event, TypeOK
    <2>3. CASE AddSends(k, p)
      <3>1. Good(calls, wire \o Take(k), <<>>, refused, dropped)
        BY <1>3, <2>3, LoopTakes DEF AddSends
      <3>2. Good(p, wire', list', refused', dropped')
        BY <1>1, <2>3, <3>1, NewSent DEF AddSends
      <3>3. buffered' \in 0 .. SendRoom
        BY <1>1, <2>3, SendRoomAssumption DEF AddSends, Room, TypeOK
      <3> QED BY <1>1, <2>3, <3>2, <3>3 DEF AddSends, TypeOK
    <2>4. CASE AddError(k, p)
      <3>1. Good(calls, wire \o Take(k), <<>>, refused, dropped)
        BY <1>3, <2>4, LoopTakes DEF AddError
      <3>2. Good(p, wire', list', refused', dropped')
        BY <1>1, <2>4, <3>1, NewRefused DEF AddError
      <3> QED BY <1>1, <2>4, <3>2, SendRoomAssumption DEF AddError, Flushed, Room, TypeOK
    <2> QED BY <1>2, <2>1, <2>2, <2>3, <2>4
  <1>5. InOrder' /\ Accounted'
    BY <1>4 DEF Good, InOrder, Accounted
  <1>6. TypeOK'
    BY <1>1, <1>4 DEF TypeOK, Good, recvVars
  <1> QED BY <1>4, <1>5, <1>6 DEF IndInv, NoLostWakeup

(* The invariant holds in every reachable state.                           *)
THEOREM Inductive == Spec => []IndInv
  <1>1. IndInv /\ [Next]_vars => IndInv'
    <2> SUFFICES ASSUME IndInv, [Next]_vars PROVE IndInv'
      OBVIOUS
    <2>1. CASE UNCHANGED <<calls, list, mask, wire, refused, dropped>> /\ TypeOK'
      BY <2>1 DEF IndInv, NoLostWakeup, InOrder, Accounted
    <2>2. CASE Transmit
      BY <2>1, <2>2, SendRoomAssumption DEF Transmit, recvVars, IndInv, TypeOK
    <2>3. CASE Arrive
      BY <2>1, <2>3 DEF Arrive, sendVars, IndInv, TypeOK
    <2>4. CASE recv_data
      <3>1. \A k \in 0 .. Len(inbox) : SubSeq(inbox, k + 2, Len(inbox)) \in Seq({"data", "bad"})
        BY DEF IndInv, TypeOK
      <3>2. inbox' \in Seq({"data", "bad"})
        <4>1. PICK k \in 0 .. Len(inbox) :
                 inbox' = <<>> \/ inbox' = SubSeq(inbox, k + 2, Len(inbox))
          BY <2>4 DEF recv_data
        <4>2. <<>> \in Seq({"data", "bad"})
          OBVIOUS
        <4> QED BY <3>1, <4>1, <4>2
      <3>3. signalled' \in Nat
        BY <2>4 DEF recv_data, IndInv, TypeOK
      <3> QED BY <2>1, <2>4, <3>2, <3>3 DEF recv_data, sendVars, IndInv, TypeOK
    <2>5. CASE Done \/ UNCHANGED vars
      BY <2>1, <2>5 DEF Done, vars, sendVars, recvVars, IndInv, TypeOK
    <2> QED BY <2>2, <2>3, <2>4, <2>5, SendDataInd, SendToInd DEF Next
  <1> QED BY InitInd, <1>1, PTL DEF Spec

(* The socket's state keeps its types, for any bounds.                     *)
THEOREM TypeCorrect == Spec => []TypeOK
  BY Inductive, PTL DEF IndInv

(* The WRITE event is requested whenever a packet waits.                   *)
THEOREM WakeupSafe == Spec => []NoLostWakeup
  BY Inductive, PTL DEF IndInv

(* Packets leave in the order of the send_to() calls and at most once.     *)
THEOREM OrderSafe == Spec => []InOrder
  BY Inductive, PTL DEF IndInv

(* send_to() returns -1 exactly for packets that never leave; every other  *)
(* packet is sent, queued or lost to a later send error.                   *)
THEOREM AccountSafe == Spec => []Accounted
  BY Inductive, PTL DEF IndInv
=============================================================================
