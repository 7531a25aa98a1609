------------------------- MODULE StunPort_proofs -------------------------
(***************************************************************************)
(* What StunMessage writes and signs is read and validated, whatever       *)
(* attributes a message has; and from it, what a port answers to whom,     *)
(* whose answers count and that each ping is settled once, for any numbers *)
(* of clients, addresses and transaction ids.                              *)
(***************************************************************************)
EXTENDS StunPort, FiniteSetTheorems, SequenceTheorems, WellFoundedInduction, TLAPS

(* Induction over the naturals, from the least counterexample.             *)
LEMMA CountUp ==
    ASSUME NEW S, 0 \in S, \A n \in Nat : n \in S => n + 1 \in S
    PROVE  Nat \subseteq S
  <1> DEFINE T == Nat \ S
  <1> SUFFICES ASSUME T # {} PROVE FALSE
    OBVIOUS
  <1>1. PICK R : R = {ss \in Nat \X Nat : ss[1] < ss[2]}
    OBVIOUS
  <1>2. IsWellFoundedOn(R, Nat)
    BY <1>1, NatLessThanWellFounded DEF OpToRel
  <1>3. PICK x \in T : \A y \in T : ~ (<<y, x>> \in R)
    <2>1. T \subseteq Nat
      OBVIOUS
    <2> HIDE DEF T
    <2> QED BY <1>2, <2>1, WFMin
  <1>4. x \in Nat /\ x # 0 /\ x - 1 \in Nat /\ x - 1 < x
    OBVIOUS
  <1>5. <<x - 1, x>> \in R
    BY <1>1, <1>4
  <1>6. x - 1 \in S
    BY <1>3, <1>4, <1>5
  <1>7. x = (x - 1) + 1
    BY <1>4
  <1> QED BY <1>3, <1>4, <1>6, <1>7

-----------------------------------------------------------------------------
(* The codec: lengths, signatures and what is found in a message.          *)

(* Lengths can be added up.                                                *)
Attributes(S) == \A attr \in S : attr.len \in Nat

(* What an attribute takes on the wire is a number.                        *)
LEMMA SizeIs == ASSUME NEW attr, attr.len \in Nat PROVE Size(attr) \in Nat
  BY DEF Size, Padded, k_stun_attribute_header_size

(* The length of a message, attribute by attribute.                        *)
LEMMA LengthSteps ==
    ASSUME NEW attrs, Len(attrs) \in Nat
    PROVE  \E f : /\ f[0] = 0 /\ WireLength(attrs) = f[Len(attrs)]
                  /\ \A n \in 1 .. Len(attrs) : f[n] = f[n - 1] + Size(attrs[n])
  <1> DEFINE N == Len(attrs)
             Is(f, m) == f = [n \in 0 .. m |-> IF n = 0 THEN 0 ELSE f[n - 1] + Size(attrs[n])]
             S == {m \in Nat : \E f : Is(f, m)}
  <1>1. 0 \in S
    <2>1. PICK f : f = [n \in 0 .. 0 |-> 0]
      OBVIOUS
    <2>2. Is(f, 0)
      BY <2>1
    <2> QED BY <2>2
  <1>2. ASSUME NEW m \in Nat, m \in S PROVE m + 1 \in S
    <2>1. PICK f : Is(f, m)
      BY <1>2
    <2>2. PICK g : g = [n \in 0 .. m + 1 |-> IF n <= m THEN f[n] ELSE f[m] + Size(attrs[m + 1])]
      OBVIOUS
    <2>3. Is(g, m + 1)
      <3>1. ASSUME NEW n \in 0 .. m + 1
            PROVE  g[n] = IF n = 0 THEN 0 ELSE g[n - 1] + Size(attrs[n])
        <4>1. CASE n = 0
          BY <2>1, <2>2, <4>1
        <4>2. CASE n \in 1 .. m
          <5>1. g[n] = f[n] /\ g[n - 1] = f[n - 1]
            BY <2>2, <4>2
          <5>2. f[n] = f[n - 1] + Size(attrs[n])
            BY <2>1, <4>2
          <5> QED BY <4>2, <5>1, <5>2
        <4>3. CASE n = m + 1
          <5>1. g[n] = f[m] + Size(attrs[m + 1]) /\ g[m] = f[m] /\ n - 1 = m
            BY <2>2, <4>3
          <5> QED BY <4>3, <5>1
        <4> QED BY <4>1, <4>2, <4>3
      <3> QED BY <2>2, <3>1
    <2> QED BY <2>3
  <1>3. N \in S
    <2> HIDE DEF S
    <2> QED BY <1>1, <1>2, CountUp
  <1>4. PICK f : Is(f, N)
    BY <1>3
  <1>5. PICK F : F = CHOOSE f_1 : Is(f_1, N)
    OBVIOUS
  <1>6. Is(F, N)
    BY <1>4, <1>5
  <1>7. WireLength(attrs) = F[N]
    BY <1>5 DEF WireLength
  <1> QED BY <1>6, <1>7

(* The same for a message under construction.                              *)
LEMMA BuildSteps ==
    ASSUME NEW type, NEW tid, NEW attrs, Len(attrs) \in Nat
    PROVE  \E f : /\ f[0] = NewMessage(type, tid) /\ Build(type, tid, attrs) = f[Len(attrs)]
                  /\ \A n \in 1 .. Len(attrs) : f[n] = add_attribute(f[n - 1], attrs[n])
  <1> DEFINE N == Len(attrs)
             Is(f, m) == f = [n \in 0 .. m |-> IF n = 0 THEN NewMessage(type, tid)
                                               ELSE add_attribute(f[n - 1], attrs[n])]
             S == {m \in Nat : \E f : Is(f, m)}
  <1>1. 0 \in S
    <2>1. PICK f : f = [n \in 0 .. 0 |-> NewMessage(type, tid)]
      OBVIOUS
    <2>2. Is(f, 0)
      BY <2>1
    <2> QED BY <2>2
  <1>2. ASSUME NEW m \in Nat, m \in S PROVE m + 1 \in S
    <2>1. PICK f : Is(f, m)
      BY <1>2
    <2>2. PICK g : g = [n \in 0 .. m + 1 |-> IF n <= m THEN f[n]
                                             ELSE add_attribute(f[m], attrs[m + 1])]
      OBVIOUS
    <2>3. Is(g, m + 1)
      <3>1. ASSUME NEW n \in 0 .. m + 1
            PROVE  g[n] = IF n = 0 THEN NewMessage(type, tid) ELSE add_attribute(g[n - 1], attrs[n])
        <4>1. CASE n = 0
          BY <2>1, <2>2, <4>1
        <4>2. CASE n \in 1 .. m
          <5>1. g[n] = f[n] /\ g[n - 1] = f[n - 1]
            BY <2>2, <4>2
          <5>2. f[n] = add_attribute(f[n - 1], attrs[n])
            BY <2>1, <4>2
          <5> QED BY <4>2, <5>1, <5>2
        <4>3. CASE n = m + 1
          <5>1. g[n] = add_attribute(f[m], attrs[m + 1]) /\ g[m] = f[m] /\ n - 1 = m
            BY <2>2, <4>3
          <5> QED BY <4>3, <5>1
        <4> QED BY <4>1, <4>2, <4>3
      <3> QED BY <2>2, <3>1
    <2> QED BY <2>3
  <1>3. N \in S
    <2> HIDE DEF S
    <2> QED BY <1>1, <1>2, CountUp
  <1>4. PICK f : Is(f, N)
    BY <1>3
  <1>5. PICK F : F = CHOOSE f_1 : Is(f_1, N)
    OBVIOUS
  <1>6. Is(F, N)
    BY <1>4, <1>5
  <1>7. Build(type, tid, attrs) = F[N]
    BY <1>5 DEF Build
  <1> QED BY <1>6, <1>7

(* One attribute more makes a message longer by what it takes.             *)
LEMMA LengthMore ==
    ASSUME NEW S, Attributes(S), NEW s \in Seq(S), NEW x \in S
    PROVE  WireLength(Append(s, x)) = WireLength(s) + Size(x)
  <1> DEFINE N == Len(s)
             r == Append(s, x)
  <1>1. N \in Nat /\ Len(r) = N + 1 /\ r[N + 1] = x /\ \A n \in 1 .. N : r[n] = s[n]
    OBVIOUS
  <1> HIDE DEF r
  <1>2. PICK f : /\ f[0] = 0 /\ WireLength(s) = f[N]
                 /\ \A n \in 1 .. N : f[n] = f[n - 1] + Size(s[n])
    BY <1>1, LengthSteps
  <1>3. PICK g : /\ g[0] = 0 /\ WireLength(r) = g[N + 1]
                 /\ \A n \in 1 .. N + 1 : g[n] = g[n - 1] + Size(r[n])
    <2>1. PICK n : n = Len(r)
      OBVIOUS
    <2>2. \E g : /\ g[0] = 0 /\ WireLength(r) = g[n]
                 /\ \A i \in 1 .. n : g[i] = g[i - 1] + Size(r[i])
      BY <1>1, <2>1, LengthSteps
    <2> QED BY <1>1, <2>1, <2>2
  <1> DEFINE T == {n \in Nat : n <= N => g[n] = f[n]}
  <1>4. 0 \in T
    BY <1>2, <1>3
  <1>5. ASSUME NEW n \in Nat, n \in T PROVE n + 1 \in T
    <2> SUFFICES ASSUME n + 1 <= N PROVE g[n + 1] = f[n + 1]
      OBVIOUS
    <2>1. n + 1 \in 1 .. N /\ n + 1 \in 1 .. N + 1 /\ (n + 1) - 1 = n /\ g[n] = f[n]
      BY <1>1, <1>5
    <2> QED BY <1>1, <1>2, <1>3, <2>1
  <1>6. N \in T
    <2> HIDE DEF T
    <2> QED BY <1>1, <1>4, <1>5, CountUp
  <1>7. g[N] = f[N] /\ N + 1 \in 1 .. N + 1 /\ (N + 1) - 1 = N
    BY <1>1, <1>6
  <1>8. WireLength(r) = WireLength(s) + Size(x)
    BY <1>1, <1>2, <1>3, <1>7
  <1> QED BY <1>8 DEF r

LEMMA LengthEmpty == WireLength(<<>>) = 0
  <1>1. Len(<<>>) = 0
    OBVIOUS
  <1>2. PICK f : f[0] = 0 /\ WireLength(<<>>) = f[Len(<<>>)]
    BY <1>1, LengthSteps
  <1> QED BY <1>1, <1>2

(* What add_attribute() makes, one call after the other: the length field  *)
(* is always that of the attributes.                                       *)
LEMMA BuildIs ==
    ASSUME NEW type, NEW tid, NEW S, Attributes(S), NEW attrs \in Seq(S)
    PROVE  Build(type, tid, attrs) =
               [type |-> type, tid |-> tid, length |-> WireLength(attrs), attrs |-> attrs]
  <1> DEFINE N == Len(attrs)
  <1>1. N \in Nat /\ \A n \in 1 .. N : attrs[n] \in S
    OBVIOUS
  <1>2. PICK f : /\ f[0] = NewMessage(type, tid) /\ Build(type, tid, attrs) = f[N]
                 /\ \A n \in 1 .. N : f[n] = add_attribute(f[n - 1], attrs[n])
    <2>1. Len(attrs) \in Nat
      BY <1>1
    <2>2. \E f : /\ f[0] = NewMessage(type, tid) /\ Build(type, tid, attrs) = f[Len(attrs)]
                 /\ \A n \in 1 .. Len(attrs) : f[n] = add_attribute(f[n - 1], attrs[n])
      BY <2>1, BuildSteps, SMT
    <2> QED BY <2>2
  <1> DEFINE upto(n) == SubSeq(attrs, 1, n)
             built(n) == [type |-> type, tid |-> tid, length |-> WireLength(upto(n)),
                          attrs |-> upto(n)]
  <1> DEFINE T == {n \in Nat : n <= N => f[n] = built(n)}
  <1>3. 0 \in T
    <2>1. upto(0) = <<>>
      BY SubSeqEmpty
    <2> QED BY <1>2, <2>1, LengthEmpty DEF NewMessage
  <1>4. ASSUME NEW n \in Nat, n \in T PROVE n + 1 \in T
    <2> SUFFICES ASSUME n + 1 <= N PROVE f[n + 1] = built(n + 1)
      OBVIOUS
    <2>1. n + 1 \in 1 .. N /\ (n + 1) - 1 = n /\ f[n] = built(n) /\ n <= N
      BY <1>1, <1>4
    <2>2. PICK s : s = upto(n)
      OBVIOUS
    <2>3. PICK x : x = attrs[n + 1]
      OBVIOUS
    <2>4. s \in Seq(S) /\ x \in S
      <3>1. \A i \in 1 .. n : attrs[i] \in S
        BY <1>1, <2>1
      <3> QED BY <1>1, <2>1, <2>2, <2>3, <3>1, SubSeqProperties
    <2>5. upto(n + 1) = Append(s, x)
      <3>1. upto(n + 1) = s \o <<x>>
        <4>1. 1 \in 1 .. N /\ n + 1 \in 1 .. N
          BY <1>1, <2>1
        <4>2. upto(n + 1) = SubSeq(attrs, 1, (n + 1) - 1) \o <<attrs[n + 1]>>
          BY <4>1, SubSeqRecursiveSecond
        <4> QED BY <2>1, <2>2, <2>3, <4>2
      <3> QED BY <2>4, <3>1, AppendIsConcat
    <2>6. WireLength(Append(s, x)) = WireLength(s) + Size(x)
      BY <2>4, LengthMore
    <2>7. f[n + 1] = add_attribute(built(n), x)
      BY <1>2, <2>1, <2>3
    <2> QED BY <2>2, <2>5, <2>6, <2>7 DEF add_attribute
  <1>5. N \in T
    <2> HIDE DEF T
    <2> QED BY <1>1, <1>3, <1>4, CountUp
  <1>6. upto(N) = attrs
    BY SubSeqFull
  <1>7. f[N] = built(N)
    BY <1>1, <1>5
  <1> HIDE DEF upto
  <1> QED BY <1>2, <1>6, <1>7

(* The least member of a set of numbers.                                   *)
LEMMA MinIs ==
    ASSUME NEW S \in SUBSET Nat, NEW x \in S, \A y \in S : x <= y
    PROVE  Min(S) = x
  <1>1. \A z \in S : (\A y \in S : z <= y) => z = x
    OBVIOUS
  <1> QED BY <1>1 DEF Min

(* An attribute with none of its type before it is the first of them.      *)
LEMMA FirstIs ==
    ASSUME NEW m, NEW type, DOMAIN m.attrs \subseteq Nat, NEW i \in DOMAIN m.attrs,
           m.attrs[i].type = type, \A j \in DOMAIN m.attrs : m.attrs[j].type = type => i <= j
    PROVE  First(m, type) = i
  <1>1. PICK P : P = {j \in DOMAIN m.attrs : m.attrs[j].type = type}
    OBVIOUS
  <1>2. P \in SUBSET Nat /\ i \in P /\ \A j \in P : i <= j
    BY <1>1
  <1>3. Min(P) = i
    BY <1>2, MinIs
  <1> QED BY <1>1, <1>3 DEF First

(* Two fields of a record changed at once.                                 *)
LEMMA Grown ==
    ASSUME NEW type, NEW tid, NEW l, NEW s, NEW k, NEW r, NEW m, NEW n,
           m = [type |-> type, tid |-> tid, length |-> l, attrs |-> s],
           n = [m EXCEPT !.length = k, !.attrs = r]
    PROVE  n = [type |-> type, tid |-> tid, length |-> k, attrs |-> r]
  <1>1. [m EXCEPT !.length = k] = [type |-> type, tid |-> tid, length |-> k, attrs |-> s]
    OBVIOUS
  <1>2. [[type |-> type, tid |-> tid, length |-> k, attrs |-> s] EXCEPT !.attrs = r]
           = [type |-> type, tid |-> tid, length |-> k, attrs |-> r]
    OBVIOUS
  <1>3. n = [[m EXCEPT !.length = k] EXCEPT !.attrs = r]
    OBVIOUS
  <1> QED BY <1>1, <1>2, <1>3

(* A message as it is built: the length field is that of the attributes.   *)
Message(type, tid, s) == [type |-> type, tid |-> tid, length |-> WireLength(s), attrs |-> s]

(* The same with another length field, as signatures are computed over it. *)
Sized(type, tid, s, length) == [type |-> type, tid |-> tid, length |-> length, attrs |-> s]

(* r is s with one more attribute.                                         *)
OneMore(S, s, x, r) ==
    /\ WireLength(r) = WireLength(s) + Size(x)
    /\ r \in Seq(S \cup {x}) /\ Attributes(S \cup {x})
    /\ Len(r) = Len(s) + 1 /\ DOMAIN r = 1 .. Len(s) + 1 /\ Len(s) \in Nat
    /\ r[Len(s) + 1] = x /\ \A i \in 1 .. Len(s) : r[i] = s[i]
    /\ SubSeq(r, 1, Len(s)) = s

(* What Append() makes of the attributes.                                  *)
LEMMA Appended ==
    ASSUME NEW S, Attributes(S), NEW s \in Seq(S), NEW x, x.len \in Nat, NEW r, r = Append(s, x)
    PROVE  OneMore(S, s, x, r)
  <1>1. PICK T : T = S \cup {x}
    OBVIOUS
  <1>2. Attributes(T) /\ x \in T
    BY <1>1 DEF Attributes
  <1>3. s \in Seq(T)
    BY <1>1, SeqMonotonic
  <1>4. WireLength(r) = WireLength(s) + Size(x)
    BY <1>2, <1>3, LengthMore
  <1>5. /\ r \in Seq(T) /\ Len(r) = Len(s) + 1 /\ Len(s) \in Nat
        /\ r[Len(s) + 1] = x /\ \A i \in 1 .. Len(s) : r[i] = s[i]
    BY <1>2, <1>3
  <1>6. DOMAIN r = 1 .. Len(s) + 1
    BY <1>5
  <1>7. SubSeq(r, 1, Len(s)) = s
    <2>1. \A i \in 1 .. Len(s) : r[i] \in T
      BY <1>3, <1>5
    <2>2. PICK q : q = SubSeq(r, 1, Len(s))
      OBVIOUS
    <2>3. /\ q \in Seq(T) /\ Len(q) = IF 1 <= Len(s) THEN Len(s) - 1 + 1 ELSE 0
          /\ \A i \in 1 .. Len(s) - 1 + 1 : q[i] = r[1 + i - 1]
      BY <1>5, <2>1, <2>2, SubSeqProperties
    <2>4. Len(q) = Len(s)
      BY <1>5, <2>3
    <2>5. \A i \in 1 .. Len(q) : q[i] = s[i]
      <3> SUFFICES ASSUME NEW i \in 1 .. Len(s) PROVE q[i] = s[i]
        BY <2>4
      <3>1. i \in 1 .. Len(s) - 1 + 1 /\ 1 + i - 1 = i
        BY <1>5
      <3>2. q[i] = r[i]
        BY <2>3, <3>1
      <3> QED BY <1>5, <3>2
    <2> QED BY <1>3, <2>2, <2>3, <2>4, <2>5, SeqEqual
  <1> QED BY <1>1, <1>2, <1>4, <1>5, <1>6, <1>7 DEF OneMore

(* An attribute goes to the end, and the length field stays right.         *)
LEMMA AddedLast ==
    ASSUME NEW type, NEW tid, NEW S, Attributes(S), NEW s \in Seq(S), NEW x, x.len \in Nat
    PROVE  add_attribute(Message(type, tid, s), x) = Message(type, tid, Append(s, x))
  <1>1. PICK r : r = Append(s, x)
    OBVIOUS
  <1>2. WireLength(r) = WireLength(s) + Size(x)
    <2>1. OneMore(S, s, x, r)
      BY <1>1, Appended, Zenon
    <2> QED BY <2>1 DEF OneMore
  <1>3. PICK m : m = Message(type, tid, s)
    OBVIOUS
  <1>4. m = [type |-> type, tid |-> tid, length |-> WireLength(s), attrs |-> s]
    BY <1>3 DEF Message
  <1>5. m.length = WireLength(s) /\ m.attrs = s
    BY <1>4
  <1>6. PICK n : n = add_attribute(m, x)
    OBVIOUS
  <1>7. n = [m EXCEPT !.length = WireLength(r), !.attrs = r]
    BY <1>1, <1>2, <1>5, <1>6 DEF add_attribute
  <1>8. n = [type |-> type, tid |-> tid, length |-> WireLength(r), attrs |-> r]
    BY <1>4, <1>7, Grown, Zenon
  <1> QED BY <1>1, <1>3, <1>6, <1>8 DEF Message

Signature(type, tid, s, password) ==
    Attribute("MESSAGE_INTEGRITY", 20,
              ComputeHmac(password, Sized(type, tid, s, WireLength(s) + 24)))

Crc(type, tid, s) ==
    Attribute("FINGERPRINT", 4, ComputeCrc32(Sized(type, tid, s, WireLength(s) + 8)))

(* The type, the length and the value of the two signatures.               *)
LEMMA Checks ==
    ASSUME NEW type, NEW tid, NEW s, NEW password
    PROVE  /\ \A x : x = Signature(type, tid, s, password) =>
                 /\ x.type = "MESSAGE_INTEGRITY" /\ x.len = 20 /\ x.len \in Nat /\ Size(x) = 24
                 /\ x.value = ComputeHmac(password, Sized(type, tid, s, WireLength(s) + 24))
           /\ \A x : x = Crc(type, tid, s) =>
                 /\ x.type = "FINGERPRINT" /\ x.len = 4 /\ x.len \in Nat /\ Size(x) = 8
                 /\ x.value = ComputeCrc32(Sized(type, tid, s, WireLength(s) + 8))
  <1>1. \A x : x.len = 20 => Size(x) = 24
    BY DEF Size, Padded, k_stun_attribute_header_size
  <1>2. \A x : x.len = 4 => Size(x) = 8
    BY DEF Size, Padded, k_stun_attribute_header_size
  <1> QED BY <1>1, <1>2 DEF Signature, Crc, Attribute

(* What the two signatures are computed over.                              *)
LEMMA SignedBytesAre ==
    ASSUME NEW type, NEW tid, NEW s, NEW m, m = Message(type, tid, s)
    PROVE  /\ SignedBytes(m, 20) = Sized(type, tid, s, WireLength(s) + 24)
           /\ SignedBytes(m, 4) = Sized(type, tid, s, WireLength(s) + 8)
  <1>1. m = [type |-> type, tid |-> tid, length |-> WireLength(s), attrs |-> s]
    BY DEF Message
  <1>2. \A k : [m EXCEPT !.length = k] = [type |-> type, tid |-> tid, length |-> k, attrs |-> s]
    BY <1>1
  <1>3. \A x : add_attribute(m, x).length = WireLength(s) + Size(x)
    BY <1>1 DEF add_attribute
  <1>4. /\ Size(Attribute("signature", 20, <<>>)) = 24
        /\ Size(Attribute("signature", 4, <<>>)) = 8
    BY DEF Size, Padded, Attribute, k_stun_attribute_header_size
  <1>5. /\ SignedBytes(m, 20) = [m EXCEPT !.length = WireLength(s) + 24]
        /\ SignedBytes(m, 4) = [m EXCEPT !.length = WireLength(s) + 8]
    BY <1>3, <1>4 DEF SignedBytes
  <1> QED BY <1>2, <1>5 DEF Sized

(* Both are put at the end of a message as it is built.                    *)
LEMMA SignedIs ==
    ASSUME NEW type, NEW tid, NEW S, Attributes(S), NEW s \in Seq(S), NEW password
    PROVE  /\ add_message_integrity(Message(type, tid, s), password)
                 = Message(type, tid, Append(s, Signature(type, tid, s, password)))
           /\ add_fingerprint(Message(type, tid, s))
                 = Message(type, tid, Append(s, Crc(type, tid, s)))
  <1>1. PICK m : m = Message(type, tid, s)
    OBVIOUS
  <1>2. Signature(type, tid, s, password).len \in Nat /\ Crc(type, tid, s).len \in Nat
    BY Checks
  <1>3. add_message_integrity(m, password) = add_attribute(m, Signature(type, tid, s, password))
    BY <1>1, SignedBytesAre DEF add_message_integrity, Signature
  <1>4. add_fingerprint(m) = add_attribute(m, Crc(type, tid, s))
    BY <1>1, SignedBytesAre DEF add_fingerprint, Crc
  <1>5. \A x : x.len \in Nat => add_attribute(m, x) = Message(type, tid, Append(s, x))
    BY <1>1, AddedLast
  <1> QED BY <1>1, <1>2, <1>3, <1>4, <1>5

(* s is what precedes the attribute after the i-th, in a message of r.      *)
PrefixOf(type, tid, r, s, i) ==
    \A w, k : w = Message(type, tid, r) => Prefix(w, i, k) = Sized(type, tid, s, k)

LEMMA PrefixIs ==
    ASSUME NEW type, NEW tid, NEW r, NEW s, NEW i, SubSeq(r, 1, i) = s
    PROVE  PrefixOf(type, tid, r, s, i)
  <1> SUFFICES ASSUME NEW w, NEW k, w = Message(type, tid, r)
               PROVE  Prefix(w, i, k) = Sized(type, tid, s, k)
    BY DEF PrefixOf
  <1> PICK l : l = WireLength(r)
    OBVIOUS
  <1>1. w = [type |-> type, tid |-> tid, length |-> l, attrs |-> r]
    BY DEF Message
  <1>2. w.attrs = r
    BY <1>1
  <1>3. [w EXCEPT !.attrs = s] = [type |-> type, tid |-> tid, length |-> l, attrs |-> s]
    BY <1>1
  <1>4. [w EXCEPT !.attrs = s, !.length = k] = [[w EXCEPT !.attrs = s] EXCEPT !.length = k]
    OBVIOUS
  <1>5. [[type |-> type, tid |-> tid, length |-> l, attrs |-> s] EXCEPT !.length = k]
          = [type |-> type, tid |-> tid, length |-> k, attrs |-> s]
    OBVIOUS
  <1>6. Prefix(w, i, k) = [w EXCEPT !.attrs = s, !.length = k]
    BY <1>2, Zenon DEF Prefix
  <1> QED BY <1>3, <1>4, <1>5, <1>6 DEF Sized

(* A message that ends with its fingerprint.                               *)
LEMMA Fingerprinted ==
    ASSUME NEW type, NEW tid, NEW S, Attributes(S), NEW s \in Seq(S), NEW w,
           w = add_fingerprint(Message(type, tid, s))
    PROVE  /\ validate_fingerprint(w) /\ read(w)
           /\ w = Message(type, tid, Append(s, Crc(type, tid, s)))
  <1>1. PICK x : x = Crc(type, tid, s)
    OBVIOUS
  <1>2. PICK r : r = Append(s, x)
    OBVIOUS
  <1>3. w = Message(type, tid, r)
    BY <1>1, <1>2, SignedIs
  <1>4. /\ x.len = 4 /\ x.len \in Nat /\ x.type = "FINGERPRINT" /\ Size(x) = 8
        /\ x.value = ComputeCrc32(Sized(type, tid, s, WireLength(s) + 8))
    BY <1>1, Checks
  <1>5. /\ WireLength(r) = WireLength(s) + Size(x) /\ Len(r) = Len(s) + 1 /\ Len(s) \in Nat
        /\ r[Len(s) + 1] = x /\ SubSeq(r, 1, Len(s)) = s
    <2>1. OneMore(S, s, x, r)
      BY <1>2, <1>4, Appended, Zenon
    <2> QED BY <2>1 DEF OneMore
  <1>6. w.attrs = r /\ w.length = WireLength(r)
    BY <1>3 DEF Message
  <1>7. read(w)
    BY <1>6 DEF read
  <1>8. Prefix(w, Len(s), WireLength(r)) = Sized(type, tid, s, WireLength(r))
    <2>1. PrefixOf(type, tid, r, s, Len(s))
      BY <1>5, PrefixIs
    <2> QED BY <1>3, <2>1 DEF PrefixOf
  <1>9. validate_fingerprint(w)
    <2>1. (Len(s) + 1) - 1 = Len(s) /\ Len(s) + 1 > 0
      BY <1>5
    <2> QED BY <1>4, <1>5, <1>6, <1>8, <2>1 DEF validate_fingerprint
  <1> QED BY <1>1, <1>2, <1>3, <1>7, <1>9

-----------------------------------------------------------------------------
(* Messages as they are sent: attributes, then the signature, then the     *)
(* fingerprint.                                                            *)
Signs == {"MESSAGE_INTEGRITY", "FINGERPRINT"}

Plain(S, s) ==
    Attributes(S) /\ s \in Seq(S) /\ \A i \in 1 .. Len(s) : s[i].type \notin Signs

(* m has the attributes of s and then signatures only.                     *)
Beyond(m, s) ==
    /\ Len(s) \in Nat
    /\ \E n \in Nat : /\ DOMAIN m.attrs = 1 .. n /\ Len(s) <= n
                      /\ \A i \in 1 .. Len(s) : m.attrs[i] = s[i]
                      /\ \A i \in 1 .. n : i > Len(s) => m.attrs[i].type \in Signs

(* The first attribute of a type.                                          *)
At(m, type, value) == ValueOf(m, type) = value /\ (Has(m, type) <=> type \in Kept)

LEMMA Found ==
    ASSUME NEW m, NEW s, Beyond(m, s), NEW type, NEW i \in 1 .. Len(s), s[i].type = type,
           \A j \in 1 .. Len(s) : s[j].type = type => i <= j, NEW value, s[i].value = value
    PROVE  At(m, type, value)
  <1>1. PICK n \in Nat : /\ DOMAIN m.attrs = 1 .. n /\ Len(s) <= n
                         /\ \A j \in 1 .. Len(s) : m.attrs[j] = s[j]
    BY DEF Beyond
  <1>2. i \in DOMAIN m.attrs /\ m.attrs[i].type = type /\ Len(s) \in Nat
    BY <1>1 DEF Beyond
  <1>3. \A j \in DOMAIN m.attrs : m.attrs[j].type = type => i <= j
    BY <1>1, <1>2
  <1>4. First(m, type) = i
    BY <1>1, <1>2, <1>3, FirstIs
  <1> QED BY <1>1, <1>2, <1>4 DEF ValueOf, Has, At

(* What was not added is not found.                                        *)
LEMMA NotFound ==
    ASSUME NEW m, NEW s, Beyond(m, s), NEW type, type \notin Signs,
           \A j \in 1 .. Len(s) : s[j].type # type
    PROVE  ~Has(m, type)
  <1>1. PICK n \in Nat : /\ DOMAIN m.attrs = 1 .. n /\ Len(s) <= n
                         /\ \A j \in 1 .. Len(s) : m.attrs[j] = s[j]
                         /\ \A j \in 1 .. n : j > Len(s) => m.attrs[j].type \in Signs
    BY DEF Beyond
  <1>2. Len(s) \in Nat
    BY DEF Beyond
  <1> QED BY <1>1, <1>2 DEF Has

(* A sequence that begins like a shorter one.                              *)
LEMMA StartsWith ==
    ASSUME NEW S, NEW s \in Seq(S), NEW T, NEW r \in Seq(T), Len(s) <= Len(r),
           \A i \in 1 .. Len(s) : r[i] = s[i], NEW n, n = Len(s)
    PROVE  SubSeq(r, 1, n) = s
  <1>1. n \in Nat /\ Len(r) \in Nat /\ \A i \in 1 .. n : r[i] \in T
    OBVIOUS
  <1>2. PICK q : q = SubSeq(r, 1, n)
    OBVIOUS
  <1>3. /\ q \in Seq(T) /\ Len(q) = IF 1 <= n THEN n - 1 + 1 ELSE 0
        /\ \A i \in 1 .. n - 1 + 1 : q[i] = r[1 + i - 1]
    BY <1>1, <1>2, SubSeqProperties
  <1>4. Len(q) = n
    BY <1>1, <1>3
  <1>5. \A i \in 1 .. Len(q) : q[i] = s[i]
    <2> SUFFICES ASSUME NEW i \in 1 .. n PROVE q[i] = s[i]
      BY <1>4
    <2>1. i \in 1 .. n - 1 + 1 /\ 1 + i - 1 = i
      BY <1>1
    <2>2. q[i] = r[i]
      BY <1>3, <2>1
    <2> QED BY <2>2
  <1> QED BY <1>2, <1>3, <1>4, <1>5, SeqEqual

(* A message that is whole, and signed with the password only.             *)
Whole(m, type, tid) == validate_fingerprint(m) /\ read(m) /\ m.type = type /\ m.tid = tid

SignedBy(m, password) == \A k : integrity_ok(m, k) <=> k = password

LEMMA FieldsOf ==
    ASSUME NEW type, NEW tid, NEW s, NEW m, m = Message(type, tid, s)
    PROVE  m.type = type /\ m.tid = tid /\ m.attrs = s /\ m.length = WireLength(s)
  BY DEF Message

(* A message with a fingerprint but no signature.                          *)
LEMMA Unsigned ==
    ASSUME NEW type, NEW tid, NEW S, NEW s, Plain(S, s), NEW m, m = Message(type, tid, s),
           NEW w, w = add_fingerprint(m)
    PROVE  Whole(w, type, tid) /\ Beyond(w, s) /\ ~Has(w, "MESSAGE_INTEGRITY")
  <1>1. Attributes(S) /\ s \in Seq(S) /\ \A i \in 1 .. Len(s) : s[i].type \notin Signs
    BY DEF Plain
  <1>2. PICK x : x = Crc(type, tid, s)
    OBVIOUS
  <1>3. PICK r : r = Append(s, x)
    OBVIOUS
  <1>4. w = Message(type, tid, r) /\ validate_fingerprint(w) /\ read(w)
    BY <1>1, <1>2, <1>3, Fingerprinted
  <1>5. w.type = type /\ w.tid = tid /\ w.attrs = r
    BY <1>4, FieldsOf
  <1>6. x.len \in Nat /\ x.type = "FINGERPRINT"
    BY <1>2, Checks
  <1>7. OneMore(S, s, x, r)
    BY <1>1, <1>3, <1>6, Appended, Zenon
  <1>8. /\ DOMAIN r = 1 .. Len(s) + 1 /\ Len(s) \in Nat
        /\ r[Len(s) + 1] = x /\ \A i \in 1 .. Len(s) : r[i] = s[i]
    BY <1>7 DEF OneMore
  <1>9. \A i \in 1 .. Len(s) + 1 : i > Len(s) => r[i].type = "FINGERPRINT"
    BY <1>6, <1>8
  <1>10. Beyond(w, s)
    <2>1. Len(s) + 1 \in Nat /\ Len(s) <= Len(s) + 1
      BY <1>8
    <2> QED BY <1>5, <1>8, <1>9, <2>1 DEF Beyond, Signs
  <1>11. \A i \in DOMAIN r : r[i].type # "MESSAGE_INTEGRITY"
    BY <1>1, <1>8, <1>9 DEF Signs
  <1> QED BY <1>4, <1>5, <1>10, <1>11 DEF Whole, Has

(* One with a signature, before the fingerprint is added.                  *)
Refusable(m, type, tid) == m.type = type /\ m.tid = tid /\ ~validate_fingerprint(m)

LEMMA Bare ==
    ASSUME NEW type, NEW tid, NEW S, NEW s, Plain(S, s), NEW m, m = Message(type, tid, s),
           NEW password, NEW w, w = add_message_integrity(m, password)
    PROVE  Refusable(w, type, tid)
  <1>1. Attributes(S) /\ s \in Seq(S)
    BY DEF Plain
  <1>2. PICK x : x = Signature(type, tid, s, password)
    OBVIOUS
  <1>3. PICK r : r = Append(s, x)
    OBVIOUS
  <1>4. w = Message(type, tid, r)
    BY <1>1, <1>2, <1>3, SignedIs
  <1>5. w.attrs = r /\ w.type = type /\ w.tid = tid
    BY <1>4, FieldsOf
  <1>6. x.len \in Nat /\ x.type = "MESSAGE_INTEGRITY"
    BY <1>2, Checks
  <1>7. OneMore(S, s, x, r)
    BY <1>1, <1>3, <1>6, Appended, Zenon
  <1>8. Len(r) = Len(s) + 1 /\ r[Len(s) + 1] = x
    BY <1>7 DEF OneMore
  <1> QED BY <1>5, <1>6, <1>8 DEF validate_fingerprint, Refusable

(* One with both: whoever has the password can tell who signed it.         *)
LEMMA Signed ==
    ASSUME NEW type, NEW tid, NEW S, NEW s, Plain(S, s), NEW m, m = Message(type, tid, s),
           NEW password, NEW v, v = add_message_integrity(m, password),
           NEW w, w = add_fingerprint(v)
    PROVE  Whole(w, type, tid) /\ Beyond(w, s) /\ SignedBy(w, password)
  <1>1. Attributes(S) /\ s \in Seq(S) /\ \A i \in 1 .. Len(s) : s[i].type \notin Signs
    BY DEF Plain
  <1>2. PICK x : x = Signature(type, tid, s, password)
    OBVIOUS
  <1>3. PICK r : r = Append(s, x)
    OBVIOUS
  <1>4. v = Message(type, tid, r)
    BY <1>1, <1>2, <1>3, SignedIs
  <1>5. /\ x.len \in Nat /\ x.type = "MESSAGE_INTEGRITY" /\ Size(x) = 24
        /\ x.value = ComputeHmac(password, Sized(type, tid, s, WireLength(s) + 24))
    BY <1>2, Checks
  <1>6. OneMore(S, s, x, r)
    BY <1>1, <1>3, <1>5, Appended, Zenon
  <1> PICK T : T = S \cup {x}
    OBVIOUS
  <1>7. /\ Attributes(T) /\ r \in Seq(T) /\ Len(r) = Len(s) + 1 /\ Len(s) \in Nat
        /\ r[Len(s) + 1] = x /\ \A i \in 1 .. Len(s) : r[i] = s[i]
        /\ WireLength(r) = WireLength(s) + 24
    BY <1>5, <1>6 DEF OneMore
  <1>8. PICK y : y = Crc(type, tid, r)
    OBVIOUS
  <1>9. PICK q : q = Append(r, y)
    OBVIOUS
  <1>10. w = Message(type, tid, q) /\ validate_fingerprint(w) /\ read(w)
    BY <1>4, <1>7, <1>8, <1>9, Fingerprinted
  <1>11. w.type = type /\ w.tid = tid /\ w.attrs = q
    BY <1>10, FieldsOf
  <1>12. y.len \in Nat /\ y.type = "FINGERPRINT"
    BY <1>8, Checks
  <1>13. OneMore(T, r, y, q)
    BY <1>7, <1>9, <1>12, Appended, Zenon
  <1> PICK U : U = T \cup {y}
    OBVIOUS
  <1>14. /\ q \in Seq(U) /\ Len(q) = Len(r) + 1 /\ DOMAIN q = 1 .. Len(r) + 1
         /\ q[Len(r) + 1] = y /\ \A i \in 1 .. Len(r) : q[i] = r[i]
         /\ SubSeq(q, 1, Len(r)) = r
    BY <1>13 DEF OneMore
  <1> PICK n : n = Len(s)
    OBVIOUS
  <1>15. /\ n \in Nat /\ q[n + 1] = x /\ q[n + 2] = y /\ \A i \in 1 .. n : q[i] = s[i]
         /\ DOMAIN q = 1 .. n + 2 /\ SubSeq(q, 1, n + 1) = r
    BY <1>7, <1>14
  <1>16. Beyond(w, s)
    <2>1. \A i \in 1 .. n + 2 : i > n => q[i].type \in Signs
      BY <1>5, <1>12, <1>15 DEF Signs
    <2>2. n + 2 \in Nat /\ n <= n + 2
      BY <1>15
    <2> QED BY <1>11, <1>15, <2>1, <2>2 DEF Beyond
  <1>17. SubSeq(q, 1, n) = s
    <2>1. Len(s) <= Len(q)
      BY <1>7, <1>14
    <2>2. \A i \in 1 .. Len(s) : q[i] = s[i]
      BY <1>15
    <2> QED BY <1>1, <1>14, <2>1, <2>2, StartsWith
  <1>18. First(w, "MESSAGE_INTEGRITY") = n + 1
    <2>1. \A j \in 1 .. n : q[j].type # "MESSAGE_INTEGRITY"
      BY <1>1, <1>15 DEF Signs
    <2>2. /\ DOMAIN w.attrs \subseteq Nat /\ n + 1 \in DOMAIN w.attrs
          /\ w.attrs[n + 1].type = "MESSAGE_INTEGRITY"
      BY <1>5, <1>11, <1>15
    <2>3. \A j \in DOMAIN w.attrs : w.attrs[j].type = "MESSAGE_INTEGRITY" => n + 1 <= j
      BY <1>11, <1>15, <2>1
    <2> QED BY <2>2, <2>3, FirstIs
  <1>19. Has(w, "MESSAGE_INTEGRITY")
    <2>1. n + 1 \in DOMAIN q
      BY <1>15
    <2> QED BY <1>5, <1>11, <1>15, <2>1 DEF Has, Kept
  <1>20. Prefix(w, n, WireLength(r)) = Sized(type, tid, s, WireLength(r))
    <2>1. PrefixOf(type, tid, q, s, n)
      BY <1>17, PrefixIs
    <2> QED BY <1>10, <2>1 DEF PrefixOf
  <1>21. (n + 1) - 1 = n
    BY <1>15
  <1>22. \A k : integrity_ok(w, k) <=> x.value = ComputeHmac(k, Sized(type, tid, s, WireLength(r)))
    BY <1>11, <1>15, <1>18, <1>19, <1>20, <1>21 DEF integrity_ok
  <1>23. \A b, k : ComputeHmac(password, b) = ComputeHmac(k, b) <=> k = password
    BY DEF ComputeHmac
  <1>24. SignedBy(w, password)
    BY <1>5, <1>7, <1>22, <1>23 DEF SignedBy
  <1> QED BY <1>10, <1>11, <1>16, <1>24 DEF Whole

(* stun.cpp: a message of any attributes that is written with              *)
(* add_attribute(), add_message_integrity() and add_fingerprint() is       *)
(* accepted by validate_fingerprint() and read(), and                      *)
(* validate_message_integrity() tells the password it was signed with from *)
(* every other; without the fingerprint it is refused.                     *)
THEOREM WhatIsSignedIsRead ==
    ASSUME NEW type, NEW tid, NEW S, NEW attrs, Plain(S, attrs), NEW password
    PROVE  LET m == add_message_integrity(Build(type, tid, attrs), password)
               w == add_fingerprint(m)
           IN /\ validate_fingerprint(w) /\ read(w) /\ w.type = type /\ w.tid = tid
              /\ \A k : integrity_ok(w, k) <=> k = password
              /\ ~validate_fingerprint(m)
  <1>1. PICK b : b = Build(type, tid, attrs)
    OBVIOUS
  <1>2. PICK m : m = add_message_integrity(b, password)
    OBVIOUS
  <1>3. PICK w : w = add_fingerprint(m)
    OBVIOUS
  <1>4. b = Message(type, tid, attrs)
    BY <1>1, BuildIs DEF Message, Plain
  <1>5. Whole(w, type, tid) /\ SignedBy(w, password)
    BY <1>2, <1>3, <1>4, Signed
  <1>6. ~validate_fingerprint(m)
    BY <1>2, <1>4, Bare DEF Refusable
  <1> QED BY <1>1, <1>2, <1>3, <1>5, <1>6 DEF Whole, SignedBy

(* A message is what its attributes make it.                               *)
LEMMA BuiltIs ==
    ASSUME NEW type, NEW tid, NEW S, NEW s, Plain(S, s), NEW m, m = Build(type, tid, s)
    PROVE  m = Message(type, tid, s)
  BY BuildIs DEF Message, Plain

-----------------------------------------------------------------------------
(* The attributes of the messages that are sent.                           *)
Common(attr) == attr.len \in Nat /\ attr.type \notin Signs

(* None of the attributes that are added is a signature.                   *)
LEMMA AttributesAre ==
    ASSUME NEW a, NEW b
    PROVE  /\ Common(Username(a, b)) /\ Common(Priority) /\ Common(Attribute("SOFTWARE", 5, <<"software">>))
           /\ Common(ErrorCode(a)) /\ Common(XorMappedAddress(a))
           /\ Common(Attribute("ICE_CONTROLLING", 8, <<"0">>)) /\ Common(Attribute("USE_CANDIDATE", 0, <<>>))
  BY DEF Common, Username, Priority, ErrorCode, XorMappedAddress, Attribute, Signs

LEMMA Lists ==
    ASSUME NEW x, NEW y, NEW z, NEW v
    PROVE  /\ Common(x) => \E S : Plain(S, <<x>>)
           /\ Common(x) /\ Common(y) => \E S : Plain(S, <<x, y>>)
           /\ Common(x) /\ Common(y) /\ Common(z) => \E S : Plain(S, <<x, y, z>>)
           /\ Common(x) /\ Common(y) /\ Common(z) /\ Common(v) => \E S : Plain(S, <<x, y, z, v>>)
  <1>1. /\ <<x>> \in Seq({x}) /\ <<x, y>> \in Seq({x, y})
        /\ <<x, y, z>> \in Seq({x, y, z}) /\ <<x, y, z, v>> \in Seq({x, y, z, v})
    OBVIOUS
  <1>2. Common(x) => Plain({x}, <<x>>)
    BY <1>1 DEF Plain, Common, Attributes
  <1>3. Common(x) /\ Common(y) => Plain({x, y}, <<x, y>>)
    BY <1>1 DEF Plain, Common, Attributes
  <1>4. Common(x) /\ Common(y) /\ Common(z) => Plain({x, y, z}, <<x, y, z>>)
    BY <1>1 DEF Plain, Common, Attributes
  <1>5. Common(x) /\ Common(y) /\ Common(z) /\ Common(v) => Plain({x, y, z, v}, <<x, y, z, v>>)
    BY <1>1 DEF Plain, Common, Attributes
  <1> QED BY <1>2, <1>3, <1>4, <1>5

(* Two sequences of one element each.                                      *)
LEMMA Pair ==
    ASSUME NEW x, NEW y
    PROVE  <<x>> \o <<y>> = <<x, y>>
  <1> PICK S : S = {x, y}
    OBVIOUS
  <1>1. <<x>> \in Seq(S) /\ <<y>> \in Seq(S) /\ <<x, y>> \in Seq(S)
    OBVIOUS
  <1>2. PICK q : q = <<x>> \o <<y>>
    OBVIOUS
  <1>3. q \in Seq(S) /\ Len(q) = 2 /\ q[1] = x /\ q[2] = y
    <2>1. /\ q \in Seq(S) /\ Len(q) = Len(<<x>>) + Len(<<y>>)
          /\ \A i \in 1 .. Len(<<x>>) + Len(<<y>>) :
                q[i] = IF i <= Len(<<x>>) THEN <<x>>[i] ELSE <<y>>[i - Len(<<x>>)]
      BY <1>1, <1>2, ConcatProperties
    <2>2. Len(<<x>>) = 1 /\ Len(<<y>>) = 1
      OBVIOUS
    <2> QED BY <2>1, <2>2
  <1>4. Len(<<x, y>>) = 2 /\ \A i \in 1 .. 2 : q[i] = <<x, y>>[i]
    BY <1>3
  <1> QED BY <1>1, <1>2, <1>3, <1>4, SeqEqual

(* A pair and one more element.                                            *)
LEMMA Triple ==
    ASSUME NEW x, NEW y, NEW z
    PROVE  <<x, y>> \o <<z>> = <<x, y, z>>
  <1> PICK S : S = {x, y, z}
    OBVIOUS
  <1>1. <<x, y>> \in Seq(S) /\ <<z>> \in Seq(S) /\ <<x, y, z>> \in Seq(S)
    OBVIOUS
  <1>2. PICK q : q = <<x, y>> \o <<z>>
    OBVIOUS
  <1>3. q \in Seq(S) /\ Len(q) = 3 /\ q[1] = x /\ q[2] = y /\ q[3] = z
    <2>1. /\ q \in Seq(S) /\ Len(q) = Len(<<x, y>>) + Len(<<z>>)
          /\ \A i \in 1 .. Len(<<x, y>>) + Len(<<z>>) :
                q[i] = IF i <= Len(<<x, y>>) THEN <<x, y>>[i] ELSE <<z>>[i - Len(<<x, y>>)]
      BY <1>1, <1>2, ConcatProperties
    <2>2. Len(<<x, y>>) = 2 /\ Len(<<z>>) = 1
      OBVIOUS
    <2> QED BY <2>1, <2>2
  <1>4. Len(<<x, y, z>>) = 3 /\ \A i \in 1 .. 3 : q[i] = <<x, y, z>>[i]
    BY <1>3
  <1> QED BY <1>1, <1>2, <1>3, <1>4, SeqEqual

(* What a client puts into a request.                                      *)
Wanted(c, shape) ==
    LET user == Username(IF shape = "other session" THEN Other ELSE Local, c)
    IN (IF shape = "no username" THEN <<>> ELSE <<user>>)
       \o (IF shape = "no priority" THEN <<>> ELSE <<Priority>>)
       \o (IF shape = "unknown attribute"
           THEN <<Attribute("SOFTWARE", 5, <<"software">>)>> ELSE <<>>)

Good == {"plain", "unknown attribute", "no priority"}

(* The attributes of the requests, shape by shape.                         *)
LEMMA WantedIs ==
    ASSUME NEW c, NEW shape \in Shape
    PROVE  /\ \E S : Plain(S, Wanted(c, shape))
           /\ shape = "no username" => Wanted(c, shape) = <<Priority>>
           /\ shape # "no username" =>
                 /\ Len(Wanted(c, shape)) \in Nat /\ Len(Wanted(c, shape)) > 0
                 /\ Wanted(c, shape)[1] = Username(IF shape = "other session" THEN Other ELSE Local, c)
           /\ shape = "no priority" => Wanted(c, shape) = <<Username(Local, c)>>
           /\ shape \in Good \ {"no priority"} =>
                 Len(Wanted(c, shape)) >= 2 /\ Wanted(c, shape)[2] = Priority
  <1> DEFINE soft == Attribute("SOFTWARE", 5, <<"software">>)
  <1>1. PICK u : u = Username(IF shape = "other session" THEN Other ELSE Local, c)
    OBVIOUS
  <1>2. PICK p : p = Priority
    OBVIOUS
  <1>3. PICK o : o = soft
    OBVIOUS
  <1>4. Common(u) /\ Common(p) /\ Common(o)
    BY <1>1, <1>2, <1>3, AttributesAre
  <1>5. PICK w : w = Wanted(c, shape)
    OBVIOUS
  <1>6. w = (IF shape = "no username" THEN <<>> ELSE <<u>>)
            \o (IF shape = "no priority" THEN <<>> ELSE <<p>>)
            \o (IF shape = "unknown attribute" THEN <<o>> ELSE <<>>)
    BY <1>1, <1>2, <1>3, <1>5 DEF Wanted
  <1> HIDE DEF soft
  <1>7. /\ <<u>> \o <<p>> = <<u, p>> /\ <<u, p>> \o <<o>> = <<u, p, o>>
        /\ <<u, p>> \o <<>> = <<u, p>> /\ <<>> \o <<p>> = <<p>> /\ <<p>> \o <<>> = <<p>>
        /\ <<u>> \o <<>> = <<u>>
    <2>1. <<u, p>> \in Seq({u, p}) /\ <<p>> \in Seq({p}) /\ <<u>> \in Seq({u})
      OBVIOUS
    <2>2. /\ <<u, p>> \o <<>> = <<u, p>> /\ <<>> \o <<p>> = <<p>> /\ <<p>> \o <<>> = <<p>>
          /\ <<u>> \o <<>> = <<u>>
      BY <2>1, ConcatEmptySeq
    <2> QED BY <2>2, Pair, Triple
  <1>8. CASE shape = "no username"
    <2>1. w = <<p>>
      BY <1>6, <1>7, <1>8
    <2> QED BY <1>2, <1>4, <1>5, <1>8, <2>1, Lists DEF Good
  <1>9. CASE shape = "no priority"
    <2>1. w = <<u>>
      BY <1>6, <1>7, <1>9
    <2>2. \E S : Plain(S, w)
      BY <1>4, <2>1, Lists
    <2>3. Len(w) \in Nat /\ Len(w) > 0 /\ w[1] = u
      BY <2>1
    <2> QED BY <1>1, <1>5, <1>9, <2>1, <2>2, <2>3 DEF Good
  <1>10. CASE shape = "unknown attribute"
    <2>1. w = <<u, p, o>>
      BY <1>6, <1>7, <1>10
    <2>2. \E S : Plain(S, w)
      BY <1>4, <2>1, Lists
    <2>3. Len(w) \in Nat /\ Len(w) > 0 /\ Len(w) >= 2 /\ w[1] = u /\ w[2] = p
      BY <2>1
    <2> QED BY <1>1, <1>2, <1>5, <1>10, <2>2, <2>3 DEF Good
  <1>11. CASE shape \notin {"no username", "no priority", "unknown attribute"}
    <2>1. w = <<u, p>>
      BY <1>6, <1>7, <1>11
    <2>2. \E S : Plain(S, w)
      BY <1>4, <2>1, Lists
    <2>3. Len(w) \in Nat /\ Len(w) > 0 /\ Len(w) >= 2 /\ w[1] = u /\ w[2] = p
      BY <2>1
    <2> QED BY <1>1, <1>2, <1>5, <1>11, <2>2, <2>3 DEF Good
  <1> QED BY <1>8, <1>9, <1>10, <1>11

-----------------------------------------------------------------------------
(* What get_stun_message() makes of each request.                          *)
LEMMA SignedHas ==
    ASSUME NEW m, NEW password, SignedBy(m, password)
    PROVE  Has(m, "MESSAGE_INTEGRITY")
  BY DEF SignedBy, integrity_ok

(* A message that begins with a user name has it.                          *)
LEMMA UserFound ==
    ASSUME NEW m, NEW s, Beyond(m, s), Len(s) > 0, NEW first, NEW second,
           s[1] = Username(first, second)
    PROVE  Has(m, "USERNAME") /\ ValueOf(m, "USERNAME") = <<"user", first, second>>
  <1>1. Len(s) \in Nat /\ 1 \in 1 .. Len(s) /\ \A j \in 1 .. Len(s) : 1 <= j
    BY DEF Beyond
  <1>2. s[1].type = "USERNAME" /\ s[1].value = <<"user", first, second>>
    BY DEF Username, Attribute
  <1>3. At(m, "USERNAME", <<"user", first, second>>)
    BY <1>1, <1>2, Found
  <1> QED BY <1>3 DEF Kept, At

SignedMeans(m, tid, first, password) ==
    /\ get_stun_message(m) = IF first = Local /\ password = Local
                              THEN "accepted" ELSE "unauthorized"
    /\ RemoteUfrag(m) = tid

(* A request with a user name and a signature is accepted if both are of   *)
(* this session.                                                           *)
LEMMA SignedVerdict ==
    ASSUME NEW m, NEW tid, Whole(m, "REQUEST", tid), NEW password, SignedBy(m, password),
           NEW s, Beyond(m, s), Len(s) > 0, NEW first, s[1] = Username(first, tid)
    PROVE  SignedMeans(m, tid, first, password)
  <1>1. Has(m, "USERNAME") /\ ValueOf(m, "USERNAME") = <<"user", first, tid>>
    BY UserFound
  <1>2. Has(m, "MESSAGE_INTEGRITY")
    BY SignedHas
  <1>3. integrity_ok(m, Local) <=> Local = password
    BY DEF SignedBy
  <1>4. <<"user", first, tid>>[2] = first /\ <<"user", first, tid>>[3] = tid
    OBVIOUS
  <1> QED BY <1>1, <1>2, <1>3, <1>4 DEF get_stun_message, RemoteUfrag, Whole, SignedMeans

(* Whether a request has a priority.                                       *)
LEMMA PriorityFound ==
    ASSUME NEW m, NEW s, Beyond(m, s), NEW a, NEW b, s[1] = Username(a, b)
    PROVE  /\ Len(s) >= 2 /\ s[2] = Priority => Has(m, "PRIORITY")
           /\ s = <<Username(a, b)>> => ~Has(m, "PRIORITY")
  <1>1. s[1].type = "USERNAME" /\ Priority.type = "PRIORITY"
    BY DEF Username, Priority, Attribute
  <1>2. ASSUME Len(s) >= 2, s[2] = Priority PROVE Has(m, "PRIORITY")
    <2>1. /\ Len(s) \in Nat /\ 2 \in 1 .. Len(s)
          /\ \A j \in 1 .. Len(s) : s[j].type = "PRIORITY" => 2 <= j
      BY <1>1, <1>2 DEF Beyond
    <2>2. At(m, "PRIORITY", s[2].value)
      BY <1>1, <1>2, <2>1, Found
    <2> QED BY <2>2 DEF Kept, At
  <1>3. ASSUME s = <<Username(a, b)>> PROVE ~Has(m, "PRIORITY")
    <2>1. \A j \in 1 .. Len(s) : s[j].type # "PRIORITY"
      BY <1>1, <1>3
    <2> QED BY <2>1, NotFound DEF Signs
  <1> QED BY <1>2, <1>3

(* Good requests, and no others, are accepted, with their fragment.        *)
Verdict(m, c, shape) ==
    /\ m.type = "REQUEST" /\ m.tid = c
    /\ get_stun_message(m) = "accepted" <=> shape \in Good
    /\ shape \in Good => RemoteUfrag(m) = c /\ (Has(m, "PRIORITY") <=> shape # "no priority")

LEMMA RequestVerdict ==
    ASSUME NEW c, NEW shape \in Shape, NEW m, m = BindingRequest(c, shape)
    PROVE  Verdict(m, c, shape)
  <1>0. PICK s : s = Wanted(c, shape)
    OBVIOUS
  <1>1. PICK b : b = Build("REQUEST", c, s)
    OBVIOUS
  <1>10. PICK password : password = IF shape \in {"other session", "wrong password"} THEN Other ELSE Local
    OBVIOUS
  <1>11. PICK first : first = IF shape = "other session" THEN Other ELSE Local
    OBVIOUS
  <1>2. PICK v : v = add_message_integrity(b, password)
    OBVIOUS
  <1>3. m = IF shape = "no fingerprint" THEN v
            ELSE IF shape = "no integrity" THEN add_fingerprint(b) ELSE add_fingerprint(v)
    BY <1>0, <1>1, <1>2, <1>10 DEF BindingRequest, Wanted
  <1>4. PICK S : Plain(S, s)
    BY <1>0, WantedIs
  <1>5. /\ shape = "no username" => s = <<Priority>>
        /\ shape # "no username" => Len(s) \in Nat /\ Len(s) > 0 /\ s[1] = Username(first, c)
        /\ shape = "no priority" => s = <<Username(Local, c)>>
        /\ shape \in Good \ {"no priority"} => Len(s) >= 2 /\ s[2] = Priority
    BY <1>0, <1>11, WantedIs
  <1>6. b = Message("REQUEST", c, s)
    BY <1>1, <1>4, BuiltIs
  <1>7. CASE shape = "no fingerprint"
    <2>1. m = v
      BY <1>3, <1>7
    <2>2. Refusable(v, "REQUEST", c)
      BY <1>2, <1>4, <1>6, Bare
    <2> QED BY <1>7, <2>1, <2>2 DEF Refusable, Verdict, get_stun_message, Good
  <1>8. CASE shape = "no integrity"
    <2>1. m = add_fingerprint(b)
      BY <1>3, <1>8
    <2>2. Whole(m, "REQUEST", c) /\ ~Has(m, "MESSAGE_INTEGRITY")
      BY <1>4, <1>6, <2>1, Unsigned
    <2> QED BY <1>8, <2>2 DEF Verdict, get_stun_message, Good, Whole
  <1>9. CASE shape \notin {"no fingerprint", "no integrity"}
    <2>1. m = add_fingerprint(v)
      BY <1>3, <1>9
    <2>2. Whole(m, "REQUEST", c) /\ Beyond(m, s) /\ SignedBy(m, password)
      BY <1>2, <1>4, <1>6, <2>1, Signed
    <2>3. CASE shape = "no username"
      <3>1. \A j \in 1 .. Len(s) : s[j].type # "USERNAME"
        <4>1. Priority.type # "USERNAME"
          BY DEF Priority, Attribute
        <4>2. s = <<Priority>>
          BY <1>5, <2>3
        <4>3. PICK p : p = Priority
          OBVIOUS
        <4>4. Len(s) = 1 /\ s[1] = p
          BY <4>2, <4>3
        <4>5. p.type # "USERNAME"
          BY <4>1, <4>3
        <4> QED BY <4>4, <4>5
      <3>2. ~Has(m, "USERNAME")
        BY <2>2, <3>1, NotFound DEF Signs
      <3> QED BY <2>2, <2>3, <3>2 DEF Verdict, get_stun_message, Good, Whole
    <2>4. CASE shape # "no username"
      <3>1. SignedMeans(m, c, first, password)
        BY <1>5, <2>2, <2>4, SignedVerdict
      <3>2. first = Local /\ password = Local <=> shape \in Good
        BY <1>9, <1>10, <1>11, <2>4 DEF Shape, Good, Local, Other
      <3>3. shape \in Good => (Has(m, "PRIORITY") <=> shape # "no priority")
        <4>1. CASE shape = "no priority"
          <5>1. PICK u : u = Username(Local, c)
            OBVIOUS
          <5>2. s = <<u>>
            BY <1>5, <4>1, <5>1
          <5>3. s[1] = u
            BY <5>2
          <5> QED BY <2>2, <4>1, <5>1, <5>2, <5>3, PriorityFound
        <4>2. CASE shape \in Good \ {"no priority"}
          <5>1. Len(s) >= 2 /\ s[2] = Priority /\ s[1] = Username(first, c)
            BY <1>5, <2>4, <4>2
          <5> QED BY <2>2, <4>2, <5>1, PriorityFound
        <4> QED BY <4>1, <4>2
      <3> QED BY <2>2, <3>1, <3>2, <3>3 DEF Verdict, Whole, SignedMeans
    <2> QED BY <2>3, <2>4
  <1> QED BY <1>7, <1>8, <1>9

-----------------------------------------------------------------------------
(* What the port and the clients send.                                     *)
LEMMA Plainly ==
    ASSUME NEW type, NEW tid, NEW attr, Common(attr), NEW m, m = Build(type, tid, <<attr>>)
    PROVE  \E S, s : Plain(S, s) /\ m = Message(type, tid, s)
  <1>1. PICK s : s = <<attr>>
    OBVIOUS
  <1>2. PICK S : Plain(S, s)
    BY <1>1, Lists
  <1>3. m = Message(type, tid, s)
    BY <1>1, <1>2, BuiltIs
  <1> QED BY <1>2, <1>3

Refusal(m, tid) == Whole(m, "ERROR", tid) /\ ~Has(m, "MESSAGE_INTEGRITY")

LEMMA ErrorMade ==
    ASSUME NEW tid, NEW code, NEW m, m = Build("ERROR", tid, <<ErrorCode(code)>>),
           NEW w, w = add_fingerprint(m)
    PROVE  Refusal(w, tid)
  <1>1. PICK x : x = ErrorCode(code)
    OBVIOUS
  <1>2. Common(x)
    BY <1>1, AttributesAre
  <1>3. PICK S, s : Plain(S, s) /\ m = Message("ERROR", tid, s)
    BY <1>1, <1>2, Plainly
  <1> QED BY <1>3, Unsigned DEF Refusal

(* A whole message that is signed.                                         *)
Reply(m, type, tid, password) == Whole(m, type, tid) /\ SignedBy(m, password)

LEMMA ReplyMade ==
    ASSUME NEW type, NEW tid, NEW attr, Common(attr), NEW m, m = Build(type, tid, <<attr>>),
           NEW password, NEW v, v = add_message_integrity(m, password), NEW w, w = add_fingerprint(v)
    PROVE  Reply(w, type, tid, password)
  <1>1. PICK S, s : Plain(S, s) /\ m = Message(type, tid, s)
    BY Plainly
  <1> QED BY <1>1, Signed DEF Reply

RefusedAt(d, a, tid) == d.addr = a /\ Refusal(d.msg, tid)

RepliedAt(d, a, tid) == d.addr = a /\ Reply(d.msg, "RESPONSE", tid, Local)

LEMMA PortRefuses ==
    ASSUME NEW a, NEW m, NEW code \in {400, 401}, NEW d \in send_binding_error_response(a, m, code),
           NEW tid, tid = m.tid
    PROVE  RefusedAt(d, a, tid)
  <1>1. PICK b : b = Build("ERROR", m.tid, <<ErrorCode(code)>>)
    OBVIOUS
  <1>2. PICK w : w = add_fingerprint(b)
    OBVIOUS
  <1>3. d = [addr |-> a, msg |-> w]
    BY <1>1, <1>2 DEF send_binding_error_response, Datagram
  <1>4. Refusal(w, m.tid)
    BY <1>1, <1>2, ErrorMade
  <1> QED BY <1>3, <1>4 DEF RefusedAt

LEMMA PortReplies ==
    ASSUME NEW a, NEW m, NEW tid, tid = m.tid
    PROVE  \E d : handle_stun_binding_request(a, m) = {d} /\ RepliedAt(d, a, tid)
  <1>1. PICK x : x = XorMappedAddress(a)
    OBVIOUS
  <1>2. PICK b : b = Build("RESPONSE", m.tid, <<x>>)
    OBVIOUS
  <1>3. PICK v : v = add_message_integrity(b, Local)
    OBVIOUS
  <1>4. PICK w : w = add_fingerprint(v)
    OBVIOUS
  <1>5. PICK d : d = [addr |-> a, msg |-> w]
    OBVIOUS
  <1>6. handle_stun_binding_request(a, m) = {d}
    BY <1>1, <1>2, <1>3, <1>4, <1>5 DEF handle_stun_binding_request, Datagram
  <1>7. Common(x)
    BY <1>1, AttributesAre
  <1>8. Reply(w, "RESPONSE", m.tid, Local)
    BY <1>2, <1>3, <1>4, <1>7, ReplyMade
  <1>9. d.addr = a /\ d.msg = w
    BY <1>5
  <1> QED BY <1>6, <1>8, <1>9 DEF RepliedAt

(* A ping of a connection with these credentials.                          *)
PingBy(m, tid, username, password) ==
    /\ Reply(m, "REQUEST", tid, password)
    /\ ValueOf(m, "USERNAME") = <<"user", username, Local>>

(* What ConnectionRequest::prepare() makes.                                *)
LEMMA PingMade ==
    ASSUME NEW conn, NEW t, NEW w, w = prepare(conn, t)
    PROVE  PingBy(w, t, conn.username, conn.password)
  <1>1. PICK x : x = Username(conn.username, Local)
    OBVIOUS
  <1>2. PICK y : y = Attribute("ICE_CONTROLLING", 8, <<"0">>)
    OBVIOUS
  <1>3. PICK z : z = Attribute("USE_CANDIDATE", 0, <<>>)
    OBVIOUS
  <1>4. PICK p : p = Priority
    OBVIOUS
  <1>5. PICK s : s = <<x, y, z, p>>
    OBVIOUS
  <1>6. PICK b : b = Build("REQUEST", t, s)
    OBVIOUS
  <1>7. PICK v : v = add_message_integrity(b, conn.password)
    OBVIOUS
  <1>8. w = add_fingerprint(v)
    BY <1>1, <1>2, <1>3, <1>4, <1>5, <1>6, <1>7 DEF prepare
  <1>9. Common(x) /\ Common(y) /\ Common(z) /\ Common(p)
    BY <1>1, <1>2, <1>3, <1>4, AttributesAre
  <1>10. PICK S : Plain(S, s)
    BY <1>5, <1>9, Lists
  <1>11. b = Message("REQUEST", t, s)
    BY <1>6, <1>10, BuiltIs
  <1>12. Whole(w, "REQUEST", t) /\ Beyond(w, s) /\ SignedBy(w, conn.password)
    BY <1>7, <1>8, <1>10, <1>11, Signed
  <1>13. Len(s) > 0 /\ s[1] = x
    BY <1>5
  <1>14. ValueOf(w, "USERNAME") = <<"user", conn.username, Local>>
    BY <1>1, <1>12, <1>13, UserFound
  <1> QED BY <1>12, <1>14 DEF PingBy, Reply

(* A client's answer is signed with its password or not at all.            *)
LEMMA AnswerMade ==
    ASSUME NEW c, NEW q, NEW a, NEW m \in ClientAnswer(c, q, a)
    PROVE  \/ Authentic(c, q) /\ (Reply(m, "RESPONSE", q.tid, c) \/ Reply(m, "ERROR", q.tid, c))
           \/ Refusal(m, q.tid)
  <1>1. CASE Authentic(c, q)
    <2>1. PICK x : x = XorMappedAddress(a)
      OBVIOUS
    <2>2. PICK y : y = ErrorCode(487)
      OBVIOUS
    <2>3. PICK b : /\ b \in {Build("RESPONSE", q.tid, <<x>>), Build("ERROR", q.tid, <<y>>)}
                   /\ m = add_fingerprint(add_message_integrity(b, c))
      BY <1>1, <2>1, <2>2 DEF ClientAnswer
    <2>4. PICK v : v = add_message_integrity(b, c)
      OBVIOUS
    <2>5. m = add_fingerprint(v)
      BY <2>3, <2>4
    <2>6. Common(x) /\ Common(y)
      BY <2>1, <2>2, AttributesAre
    <2>7. CASE b = Build("RESPONSE", q.tid, <<x>>)
      BY <1>1, <2>4, <2>5, <2>6, <2>7, ReplyMade
    <2>8. CASE b = Build("ERROR", q.tid, <<y>>)
      BY <1>1, <2>4, <2>5, <2>6, <2>8, ReplyMade
    <2> QED BY <2>3, <2>7, <2>8
  <1>2. CASE ~Authentic(c, q)
    <2>1. PICK b : b = Build("ERROR", q.tid, <<ErrorCode(401)>>)
      OBVIOUS
    <2>2. m = add_fingerprint(b)
      BY <1>2, <2>1 DEF ClientAnswer
    <2> QED BY <2>1, <2>2, ErrorMade
  <1> QED BY <1>1, <1>2

(* No error response is one to recover from: its code is never kept.       *)
LEMMA NeverRecoverable == ASSUME NEW m PROVE ~Recoverable(m)
  <1>1. ~Has(m, "ERROR_CODE")
    BY DEF Has, Kept
  <1> QED BY <1>1 DEF Recoverable, get_error_code_value

-----------------------------------------------------------------------------
(* The connections.                                                        *)

(* n is conn with these requests and samples.                              *)
Counted(n, conn, requests, samples) ==
    /\ n \in IceConnection /\ n.requests = requests /\ n.samples = samples
    /\ n.username = conn.username /\ n.password = conn.password

LEMMA CountedIs ==
    ASSUME NEW conn \in IceConnection, NEW R \in SUBSET Tid, NEW k \in Nat, NEW n
    PROVE  /\ n = [conn EXCEPT !.requests = R] => Counted(n, conn, R, conn.samples)
           /\ n = [conn EXCEPT !.requests = R, !.samples = k] => Counted(n, conn, R, k)
  <1>1. ASSUME n = [conn EXCEPT !.requests = R] PROVE Counted(n, conn, R, conn.samples)
    BY <1>1 DEF IceConnection, Counted
  <1>2. ASSUME n = [conn EXCEPT !.requests = R, !.samples = k] PROVE Counted(n, conn, R, k)
    BY <1>2 DEF IceConnection, Counted
  <1> QED BY <1>1, <1>2

(* A connection that learns its password.                                  *)
LEMMA PasswordIs ==
    ASSUME NEW conn \in IceConnection, NEW c \in Client, NEW n, n = [conn EXCEPT !.password = c]
    PROVE  /\ n \in IceConnection /\ n.requests = conn.requests /\ n.samples = conn.samples
           /\ n.username = conn.username /\ n.password = c
  BY DEF IceConnection

-----------------------------------------------------------------------------
(* The inductive invariant.  What the properties of the answers rest on is *)
(* that each ping belongs to the connection at its address, whose user     *)
(* fragment never changes and whose password is set once, and that a       *)
(* transaction id names one ping.                                          *)
PingsKnown ==
    \A p \in pings :
        /\ p.addr \in Addr /\ conns[p.addr] # NULL /\ conns[p.addr].password # NULL
        /\ PingBy(p.msg, p.msg.tid, conns[p.addr].username, conns[p.addr].password)

OnePing == \A p, q \in pings : p.msg.tid = q.msg.tid => p = q

PortInv ==
    /\ TypeOK /\ IsFiniteSet(settled)
    /\ PingsKnown /\ OnePing /\ SettledOnce /\ Agreement

(* The transaction ids of the pings of an address.                         *)
Own(a) == {p.msg.tid : p \in {q \in pings : q.addr = a}}

(* SettledOnce in terms of the pings of an address.                        *)
LEMMA SettledBy ==
    SettledOnce <=> \A a \in Addr : conns[a] # NULL =>
                        /\ conns[a].requests = Own(a) \ settled
                        /\ conns[a].samples = Cardinality(Own(a) \cap settled)
  BY DEF SettledOnce, Own

(* Connections stay, with their credentials.                               *)
Stay ==
    \A a \in Addr : conns[a] # NULL =>
        /\ conns'[a] # NULL /\ conns'[a].username = conns[a].username
        /\ conns[a].password # NULL => conns'[a].password = conns[a].password

(* A step that sends no ping and keeps the credentials keeps what is known *)
(* of the pings.                                                           *)
LEMMA PingsStay ==
    ASSUME PingsKnown, OnePing, Stay, pings' = pings
    PROVE  PingsKnown' /\ OnePing'
  <1>1. PingsKnown'
    <2> SUFFICES ASSUME NEW p \in pings
                 PROVE  /\ p.addr \in Addr /\ conns'[p.addr] # NULL /\ conns'[p.addr].password # NULL
                        /\ PingBy(p.msg, p.msg.tid, conns'[p.addr].username, conns'[p.addr].password)
      BY DEF PingsKnown
    <2>1. /\ p.addr \in Addr /\ conns[p.addr] # NULL /\ conns[p.addr].password # NULL
          /\ PingBy(p.msg, p.msg.tid, conns[p.addr].username, conns[p.addr].password)
      BY DEF PingsKnown
    <2>2. /\ conns'[p.addr] # NULL /\ conns'[p.addr].username = conns[p.addr].username
          /\ conns'[p.addr].password = conns[p.addr].password
      BY <2>1 DEF Stay
    <2> QED BY <2>1, <2>2
  <1> QED BY <1>1 DEF OnePing

-----------------------------------------------------------------------------
(* What is sent, for OwnMessagesValid.                                     *)
Fine(d, owner, got) ==
    /\ validate_fingerprint(d.msg) /\ read(d.msg)
    /\ CASE d.msg.type = "REQUEST" -> integrity_ok(d.msg, owner.password)
         [] d.msg.type = "RESPONSE" -> integrity_ok(d.msg, Local)
         [] d.msg.type = "ERROR" -> ~Has(d.msg, "MESSAGE_INTEGRITY")
    /\ d.msg.type # "REQUEST" => d.addr = got.addr /\ d.msg.tid = got.msg.tid

(* The three kinds of messages that are sent are all fine.                 *)
LEMMA FineIs ==
    ASSUME NEW d, NEW owner, NEW got
    PROVE  /\ RefusedAt(d, got.addr, got.msg.tid) => Fine(d, owner, got)
           /\ RepliedAt(d, got.addr, got.msg.tid) => Fine(d, owner, got)
           /\ \A t : Reply(d.msg, "REQUEST", t, owner.password) => Fine(d, owner, got)
  <1>1. ASSUME RefusedAt(d, got.addr, got.msg.tid) PROVE Fine(d, owner, got)
    BY <1>1 DEF Fine, RefusedAt, Refusal, Whole
  <1>2. ASSUME RepliedAt(d, got.addr, got.msg.tid) PROVE Fine(d, owner, got)
    BY <1>2 DEF Fine, RepliedAt, Reply, Whole, SignedBy
  <1>3. ASSUME NEW t, Reply(d.msg, "REQUEST", t, owner.password) PROVE Fine(d, owner, got)
    BY <1>3 DEF Fine, Reply, Whole, SignedBy
  <1> QED BY <1>1, <1>2, <1>3

(* What the port sends for a request.                                      *)
Answers(sent, a, c, shape) ==
    /\ \A d \in sent : RefusedAt(d, a, c) \/ RepliedAt(d, a, c)
    /\ (\E d \in sent : d.msg.type = "RESPONSE")
         <=> /\ shape \in Good
             /\ IF conns[a] # NULL THEN conns[a].username = c ELSE shape # "no priority"

LEMMA ReplyTo ==
    ASSUME NEW a \in Addr, NEW c, NEW shape \in Shape, NEW m, m = BindingRequest(c, shape),
           NEW sent, sent = IF conns[a] # NULL THEN RequestKnown(a, m) ELSE RequestUnknown(a, m)
    PROVE  Answers(sent, a, c, shape)
  <1> SUFFICES /\ \A d \in sent : RefusedAt(d, a, c) \/ RepliedAt(d, a, c)
               /\ (\E d \in sent : d.msg.type = "RESPONSE")
                    <=> /\ shape \in Good
                        /\ IF conns[a] # NULL THEN conns[a].username = c ELSE shape # "no priority"
    BY DEF Answers
  <1>1. Verdict(m, c, shape)
    BY RequestVerdict
  <1>2. /\ m.tid = c /\ (get_stun_message(m) = "accepted" <=> shape \in Good)
        /\ shape \in Good => RemoteUfrag(m) = c /\ (Has(m, "PRIORITY") <=> shape # "no priority")
    BY <1>1 DEF Verdict
  <1>3. PICK verdict : verdict = get_stun_message(m)
    OBVIOUS
  <1>4. verdict \in {"not STUN", "bad request", "unauthorized", "accepted"}
    BY <1>3 DEF get_stun_message
  <1>5. \A code \in {400, 401} : \A d \in send_binding_error_response(a, m, code) : RefusedAt(d, a, c)
    <2> SUFFICES ASSUME NEW code \in {400, 401}, NEW d \in send_binding_error_response(a, m, code)
                 PROVE  RefusedAt(d, a, c)
      OBVIOUS
    <2>1. c = m.tid
      BY <1>2
    <2> QED BY <2>1, PortRefuses
  <1>6. PICK e : e = send_binding_error_response(a, m, 401)
    OBVIOUS
  <1>7. PICK f : f = Refused(a, m)
    OBVIOUS
  <1>8. (\A d \in f : RefusedAt(d, a, c)) /\ \A d \in e : RefusedAt(d, a, c)
    BY <1>5, <1>6, <1>7 DEF Refused
  <1>9. \A d : RefusedAt(d, a, c) => d.msg.type = "ERROR"
    BY DEF RefusedAt, Refusal, Whole
  <1>10. PICK r : handle_stun_binding_request(a, m) = {r} /\ RepliedAt(r, a, c)
    <2>1. c = m.tid
      BY <1>2
    <2> QED BY <2>1, PortReplies
  <1>11. r.msg.type = "RESPONSE"
    BY <1>10 DEF RepliedAt, Reply, Whole
  <1>12. CASE conns[a] # NULL
    <2>1. sent = CASE verdict = "not STUN" -> {}
                   [] verdict \in {"bad request", "unauthorized"} -> f
                   [] RemoteUfrag(m) # conns[a].username -> e
                   [] OTHER -> {r}
      BY <1>3, <1>6, <1>7, <1>10, <1>12 DEF RequestKnown
    <2>2. CASE shape \in Good /\ conns[a].username = c
      <3>1. verdict = "accepted" /\ RemoteUfrag(m) = conns[a].username
        BY <1>2, <1>3, <2>2
      <3>2. sent = {r}
        BY <2>1, <3>1
      <3> QED BY <1>10, <1>11, <1>12, <2>2, <3>2
    <2>3. CASE ~(shape \in Good /\ conns[a].username = c)
      <3>1. verdict # "accepted" \/ RemoteUfrag(m) # conns[a].username
        BY <1>2, <1>3, <2>3
      <3>2. sent = {} \/ sent = e \/ sent = f
        BY <1>4, <2>1, <3>1
      <3> QED BY <1>8, <1>9, <1>12, <2>3, <3>2
    <2> QED BY <2>2, <2>3
  <1>13. CASE conns[a] = NULL
    <2>1. sent = CASE verdict \in {"bad request", "unauthorized"} -> f
                   [] Creates(m) -> {r}
                   [] OTHER -> {}
      BY <1>3, <1>7, <1>10, <1>13 DEF RequestUnknown
    <2>2. Creates(m) <=> shape \in Good /\ shape # "no priority"
      BY <1>2 DEF Creates
    <2>3. Creates(m) => verdict = "accepted"
      BY <1>3 DEF Creates
    <2>4. CASE Creates(m)
      <3>1. sent = {r}
        BY <2>1, <2>3, <2>4
      <3> QED BY <1>10, <1>11, <1>13, <2>2, <2>4, <3>1
    <2>5. CASE ~Creates(m)
      <3>1. sent = {} \/ sent = f
        BY <2>1, <2>5
      <3> QED BY <1>8, <1>9, <1>13, <2>2, <2>5, <3>1
    <2> QED BY <2>4, <2>5
  <1> QED BY <1>12, <1>13

-----------------------------------------------------------------------------
(* The steps.  Each lemma keeps PortInv; what was sent and served is read  *)
(* off the step itself.                                                    *)
LEMMA ReceiveRequestStep ==
    ASSUME PortInv, ~undefined, NEW a \in Addr, NEW c \in Client, NEW shape \in Shape,
           ReceiveRequest(a, c, shape)
    PROVE  PortInv' /\ OwnMessagesValid' /\ RequestsServed'
  <1>1. PICK m : m = BindingRequest(c, shape)
    OBVIOUS
  <1>2. PICK sent : sent = IF conns[a] # NULL THEN RequestKnown(a, m) ELSE RequestUnknown(a, m)
    OBVIOUS
  <1>3. /\ last' = [got |-> [addr |-> a, msg |-> m], by |-> c, sent |-> sent]
        /\ conns' = IF conns[a] = NULL /\ Creates(m)
                    THEN [conns EXCEPT ![a] = create_connection(m)] ELSE conns
        /\ remote' = remote /\ pings' = pings /\ settled' = settled /\ undefined' = undefined
    BY <1>1, <1>2 DEF ReceiveRequest, Datagram
  <1>4. /\ m.type = "REQUEST" /\ m.tid = c /\ (get_stun_message(m) = "accepted" <=> shape \in Good)
        /\ shape \in Good => RemoteUfrag(m) = c /\ (Has(m, "PRIORITY") <=> shape # "no priority")
    <2>1. Verdict(m, c, shape)
      BY <1>1, RequestVerdict
    <2> QED BY <2>1 DEF Verdict
  <1>5. Creates(m) <=> shape \in Good /\ shape # "no priority"
    BY <1>4 DEF Creates
  <1>6. PICK new : new = [username |-> c, password |-> remote, requests |-> {}, samples |-> 0]
    OBVIOUS
  <1>7. conns' = IF conns[a] = NULL /\ Creates(m) THEN [conns EXCEPT ![a] = new] ELSE conns
    BY <1>3, <1>4, <1>5, <1>6 DEF create_connection
  <1>8. conns \in [Addr -> IceConnection \cup {NULL}] /\ remote \in Client \cup {NULL}
    BY DEF PortInv, TypeOK
  <1>9. /\ new \in IceConnection /\ new # NULL /\ new.username = c
        /\ new.requests = {} /\ new.samples = 0
    <2>1. new \in IceConnection
      BY <1>6, <1>8 DEF IceConnection
    <2> QED BY <1>6, <2>1, ConnectionAssumption
  <1>10. /\ conns' \in [Addr -> IceConnection \cup {NULL}]
         /\ \A b \in Addr : conns[b] # NULL => conns'[b] = conns[b]
         /\ \A b \in Addr : conns[b] = NULL => conns'[b] = NULL \/ conns'[b] = new
         /\ conns[a] = NULL => conns'[a] = IF Creates(m) THEN new ELSE NULL
    BY <1>7, <1>8, <1>9
  <1>11. TypeOK' /\ IsFiniteSet(settled')
    BY <1>3, <1>8, <1>10 DEF PortInv, TypeOK
  <1>12. PingsKnown' /\ OnePing'
    <2>1. Stay
      BY <1>10 DEF Stay
    <2> QED BY <1>3, <2>1, PingsStay DEF PortInv
  <1>13. SettledOnce'
    <2>1. \A b \in Addr : conns[b] = NULL => Own(b) = {}
      BY DEF Own, PortInv, PingsKnown
    <2>2. {} \ settled = {} /\ {} \cap settled = {} /\ Cardinality({}) = 0
      BY FS_EmptySet
    <2>3. \A b \in Addr : conns'[b] # NULL => /\ conns'[b].requests = Own(b) \ settled
                                              /\ conns'[b].samples = Cardinality(Own(b) \cap settled)
      <3> SUFFICES ASSUME NEW b \in Addr, conns'[b] # NULL
                   PROVE  /\ conns'[b].requests = Own(b) \ settled
                          /\ conns'[b].samples = Cardinality(Own(b) \cap settled)
        OBVIOUS
      <3>1. CASE conns[b] # NULL
        BY <1>10, <3>1, SettledBy DEF PortInv
      <3>2. CASE conns[b] = NULL
        <4>1. conns'[b] = new
          BY <1>10, <3>2
        <4>2. Own(b) = {}
          BY <2>1, <3>2
        <4> QED BY <1>9, <2>2, <4>1, <4>2
      <3> QED BY <3>1, <3>2
    <2> QED BY <1>3, <2>3 DEF SettledOnce, Own
  <1>14. Agreement'
    <2>1. \A b \in Addr : conns'[b] # NULL /\ conns'[b].samples > 0
                             => conns'[b].username = conns'[b].password
      BY <1>9, <1>10 DEF PortInv, Agreement
    <2>2. ~undefined'
      BY <1>3
    <2> QED BY <2>1, <2>2 DEF Agreement
  <1>15. /\ \A d \in sent : RefusedAt(d, a, c) \/ RepliedAt(d, a, c)
         /\ (\E d \in sent : d.msg.type = "RESPONSE")
               <=> /\ shape \in Good
                   /\ IF conns[a] # NULL THEN conns[a].username = c ELSE shape # "no priority"
    <2>1. Answers(sent, a, c, shape)
      BY <1>1, <1>2, ReplyTo
    <2> QED BY <2>1 DEF Answers
  <1>16. /\ last'.sent = sent /\ last'.got.addr = a /\ last'.got.msg = m /\ last'.by = c
         /\ last'.got.msg.tid = c
    BY <1>3, <1>4
  <1>17. OwnMessagesValid'
    <2>1. \A d \in sent : Fine(d, conns'[d.addr], last'.got)
      BY <1>15, <1>16, FineIs
    <2> QED BY <1>11, <1>16, <2>1 DEF OwnMessagesValid, Fine
  <1>18. RequestsServed'
    <2>1. \A shapes \in SUBSET Shape :
             m \in {BindingRequest(c, other) : other \in shapes} => \E other \in shapes : Verdict(m, c, other)
      BY RequestVerdict
    <2>2. m \in {BindingRequest(c, other) : other \in {"plain", "unknown attribute", "no priority"}}
             <=> shape \in Good
      <3>1. {"plain", "unknown attribute", "no priority"} \in SUBSET Shape
        BY DEF Shape
      <3> QED BY <1>1, <1>4, <2>1, <3>1 DEF Verdict, Good
    <2>3. m \in {BindingRequest(c, other) : other \in {"plain", "unknown attribute"}} => Creates(m)
      <3>1. {"plain", "unknown attribute"} \in SUBSET Shape
        BY DEF Shape
      <3>2. ASSUME m \in {BindingRequest(c, other) : other \in {"plain", "unknown attribute"}}
            PROVE  Creates(m)
        <4>1. PICK other \in {"plain", "unknown attribute"} : Verdict(m, c, other)
          BY <2>1, <3>1, <3>2
        <4> QED BY <4>1 DEF Verdict, Good, Creates
      <3> QED BY <3>2
    <2>4. (\E d \in sent : d.msg.type = "RESPONSE")
             <=> conns'[a] # NULL /\ conns'[a].username = c /\ shape \in Good
      BY <1>5, <1>9, <1>10, <1>15
    <2>5. conns'[a] = NULL => ~Creates(m)
      BY <1>9, <1>10
    <2> QED BY <1>16, <2>2, <2>3, <2>4, <2>5 DEF RequestsServed
  <1> QED BY <1>11, <1>12, <1>13, <1>14, <1>17, <1>18 DEF PortInv

LEMMA RemoteStep ==
    ASSUME PortInv, ~undefined, NEW c \in Client, set_remote_ice_params(c)
    PROVE  PortInv' /\ OwnMessagesValid' /\ RequestsServed'
  <1>1. /\ remote' = c /\ conns' = maybe_set_remote_ice_params(c) /\ last' = Nothing
        /\ pings' = pings /\ settled' = settled /\ undefined' = undefined
    BY DEF set_remote_ice_params
  <1>2. conns \in [Addr -> IceConnection \cup {NULL}]
    BY DEF PortInv, TypeOK
  <1>3. ASSUME NEW a \in Addr
        PROVE  /\ conns'[a] \in IceConnection \cup {NULL} /\ (conns[a] = NULL <=> conns'[a] = NULL)
               /\ conns[a] # NULL => /\ conns'[a].username = conns[a].username
                                     /\ conns'[a].requests = conns[a].requests
                                     /\ conns'[a].samples = conns[a].samples
                                     /\ conns[a].password # NULL => conns'[a].password = conns[a].password
    <2>1. conns'[a] = IF conns[a] # NULL /\ conns[a].username = c /\ conns[a].password = NULL
                      THEN [conns[a] EXCEPT !.password = c] ELSE conns[a]
      BY <1>1 DEF maybe_set_remote_ice_params
    <2>2. CASE conns[a] # NULL /\ conns[a].username = c /\ conns[a].password = NULL
      <3>1. conns[a] \in IceConnection
        BY <1>2, <2>2
      <3>2. PICK conn : conn = conns[a]
        OBVIOUS
      <3>3. PICK n : n = conns'[a]
        OBVIOUS
      <3>4. n = [conn EXCEPT !.password = c]
        BY <2>1, <2>2, <3>2, <3>3
      <3>5. /\ n \in IceConnection /\ n.requests = conn.requests /\ n.samples = conn.samples
            /\ n.username = conn.username
        BY <3>1, <3>2, <3>4, PasswordIs
      <3> QED BY <2>2, <3>2, <3>3, <3>5, ConnectionAssumption
    <2>3. CASE ~(conns[a] # NULL /\ conns[a].username = c /\ conns[a].password = NULL)
      BY <1>2, <2>1, <2>3
    <2> QED BY <2>2, <2>3
  <1>4. conns' \in [Addr -> IceConnection \cup {NULL}]
    <2>1. conns' = [a \in Addr |-> conns'[a]]
      BY <1>1 DEF maybe_set_remote_ice_params
    <2> QED BY <1>3, <2>1
  <1>5. TypeOK' /\ IsFiniteSet(settled')
    BY <1>1, <1>4 DEF PortInv, TypeOK
  <1>6. PingsKnown' /\ OnePing'
    <2>1. Stay
      BY <1>3 DEF Stay
    <2> QED BY <1>1, <2>1, PingsStay DEF PortInv
  <1>7. SettledOnce'
    BY <1>1, <1>3 DEF PortInv, SettledOnce
  <1>8. Agreement'
    <2>1. ASSUME NEW a \in Addr, conns'[a] # NULL, conns'[a].samples > 0
          PROVE  conns'[a].username = conns'[a].password
      <3>1. conns[a] # NULL /\ conns[a].samples > 0 /\ conns[a] \in IceConnection
        BY <1>2, <1>3, <2>1
      <3>2. conns[a].username = conns[a].password
        BY <3>1 DEF PortInv, Agreement
      <3>3. conns[a].password # NULL
        <4>1. conns[a].username \in Client
          BY <3>1 DEF IceConnection
        <4> QED BY <3>2, <4>1, NullAssumption
      <3> QED BY <1>3, <3>1, <3>2, <3>3
    <2> QED BY <1>1, <2>1 DEF Agreement
  <1>9. last'.sent = {} /\ last'.got = NULL
    BY <1>1 DEF Nothing
  <1> QED BY <1>5, <1>6, <1>7, <1>8, <1>9 DEF PortInv, OwnMessagesValid, RequestsServed

LEMMA PingStep ==
    ASSUME PortInv, ~undefined, NEW a \in Addr, ping(a)
    PROVE  PortInv' /\ OwnMessagesValid' /\ RequestsServed'
  <1>1. PICK t \in Tid \ {p.msg.tid : p \in pings} :
            /\ conns[a] # NULL /\ conns[a].password # NULL
            /\ pings' = pings \cup {Datagram(a, prepare(conns[a], t))}
            /\ last' = [Nothing EXCEPT !.sent = {Datagram(a, prepare(conns[a], t))}]
            /\ conns' = [conns EXCEPT ![a].requests = @ \cup {t}]
            /\ remote' = remote /\ settled' = settled /\ undefined' = undefined
    BY DEF ping
  <1>2. PICK w : w = prepare(conns[a], t)
    OBVIOUS
  <1>3. PICK new : new = [addr |-> a, msg |-> w]
    OBVIOUS
  <1>4. pings' = pings \cup {new} /\ last' = [got |-> NULL, by |-> NULL, sent |-> {new}]
    BY <1>1, <1>2, <1>3 DEF Datagram, Nothing
  <1>5. new.addr = a /\ new.msg = w
    BY <1>3
  <1>6. PingBy(w, t, conns[a].username, conns[a].password)
    BY <1>2, PingMade
  <1>7. w.tid = t /\ Reply(w, "REQUEST", t, conns[a].password)
    BY <1>6 DEF PingBy, Reply, Whole
  <1>8. conns \in [Addr -> IceConnection \cup {NULL}] /\ conns[a] \in IceConnection
    BY <1>1 DEF PortInv, TypeOK
  <1>9. /\ conns'[a] = [conns[a] EXCEPT !.requests = conns[a].requests \cup {t}]
        /\ \A b \in Addr : b # a => conns'[b] = conns[b]
        /\ conns' = [b \in Addr |-> conns'[b]]
    BY <1>1, <1>8
  <1>10. Counted(conns'[a], conns[a], conns[a].requests \cup {t}, conns[a].samples)
    <2>1. PICK conn : conn = conns[a]
      OBVIOUS
    <2>2. conn.requests \cup {t} \in SUBSET Tid /\ conn.samples \in Nat /\ conn \in IceConnection
      BY <1>8, <2>1 DEF IceConnection
    <2>3. PICK n : n = conns'[a]
      OBVIOUS
    <2>4. PICK R : R = conn.requests \cup {t}
      OBVIOUS
    <2>5. n = [conn EXCEPT !.requests = R]
      BY <1>9, <2>1, <2>3, <2>4
    <2>6. Counted(n, conn, R, conn.samples)
      BY <2>2, <2>4, <2>5, CountedIs
    <2> QED BY <2>1, <2>3, <2>4, <2>6
  <1>11. /\ conns'[a] \in IceConnection /\ conns'[a].requests = conns[a].requests \cup {t}
         /\ conns'[a].samples = conns[a].samples /\ conns'[a].username = conns[a].username
         /\ conns'[a].password = conns[a].password /\ conns'[a] # NULL
    BY <1>10, ConnectionAssumption DEF Counted
  <1>12. conns' \in [Addr -> IceConnection \cup {NULL}]
    <2>1. \A b \in Addr : conns'[b] \in IceConnection \cup {NULL}
      BY <1>8, <1>9, <1>11
    <2> QED BY <1>9, <2>1
  <1>13. TypeOK' /\ IsFiniteSet(settled')
    <2>1. {p.msg.tid : p \in pings} \subseteq {p.msg.tid : p \in pings'}
      BY <1>4
    <2> QED BY <1>1, <1>12, <2>1 DEF PortInv, TypeOK
  <1>14. PingsKnown'
    <2>1. ASSUME NEW p \in pings'
          PROVE  /\ p.addr \in Addr /\ conns'[p.addr] # NULL /\ conns'[p.addr].password # NULL
                 /\ PingBy(p.msg, p.msg.tid, conns'[p.addr].username, conns'[p.addr].password)
      <3>1. CASE p = new
        BY <1>1, <1>5, <1>6, <1>7, <1>11, <3>1
      <3>2. CASE p \in pings
        <4>1. /\ p.addr \in Addr /\ conns[p.addr] # NULL /\ conns[p.addr].password # NULL
              /\ PingBy(p.msg, p.msg.tid, conns[p.addr].username, conns[p.addr].password)
          BY <3>2 DEF PortInv, PingsKnown
        <4>2. CASE p.addr = a
          BY <1>1, <1>11, <4>1, <4>2
        <4>3. CASE p.addr # a
          BY <1>9, <4>1, <4>3
        <4> QED BY <4>2, <4>3
      <3> QED BY <1>4, <2>1, <3>1, <3>2
    <2> QED BY <2>1 DEF PingsKnown
  <1>15. OnePing'
    <2>1. \A p \in pings : p.msg.tid # new.msg.tid
      BY <1>1, <1>5, <1>7
    <2> QED BY <1>4, <2>1 DEF PortInv, OnePing
  <1>16. t \notin settled
    BY <1>1 DEF PortInv, TypeOK
  <1>17. SettledOnce'
    <2>1. ASSUME NEW b \in Addr, conns'[b] # NULL
          PROVE  LET own == {p.msg.tid : p \in {q \in pings' : q.addr = b}}
                 IN /\ conns'[b].requests = own \ settled
                    /\ conns'[b].samples = Cardinality(own \cap settled)
      <3>1. PICK own : own = {p.msg.tid : p \in {q \in pings' : q.addr = b}}
        OBVIOUS
      <3>2. conns[b] # NULL
        BY <1>1, <1>9, <2>1
      <3>3. /\ conns[b].requests = Own(b) \ settled
            /\ conns[b].samples = Cardinality(Own(b) \cap settled)
        BY <3>2, SettledBy DEF PortInv
      <3>4. CASE b = a
        <4>1. own = Own(a) \cup {t}
          BY <1>4, <1>5, <1>7, <3>1, <3>4 DEF Own
        <4>2. own \ settled = (Own(a) \ settled) \cup {t} /\ own \cap settled = Own(a) \cap settled
          BY <1>16, <4>1
        <4> QED BY <1>11, <3>1, <3>3, <3>4, <4>2
      <3>5. CASE b # a
        <4>1. own = Own(b)
          BY <1>4, <1>5, <3>1, <3>5 DEF Own
        <4> QED BY <1>9, <3>1, <3>3, <3>5, <4>1
      <3> QED BY <3>4, <3>5
    <2> QED BY <1>1, <2>1 DEF SettledOnce
  <1>18. Agreement'
    <2>1. \A b \in Addr : conns'[b] # NULL /\ conns'[b].samples > 0
                             => conns'[b].username = conns'[b].password
      BY <1>1, <1>9, <1>11 DEF PortInv, Agreement
    <2> QED BY <1>1, <2>1 DEF Agreement
  <1>19. OwnMessagesValid'
    <2>1. Fine(new, conns'[new.addr], last'.got)
      BY <1>5, <1>7, <1>11, FineIs
    <2>2. last'.sent = {new}
      BY <1>4
    <2> QED BY <1>13, <2>1, <2>2 DEF OwnMessagesValid, Fine
  <1>20. last'.got = NULL
    BY <1>4
  <1> QED BY <1>13, <1>14, <1>15, <1>17, <1>18, <1>19, <1>20 DEF PortInv, RequestsServed

(* An answer that counts was made by the client the connection belongs to, *)
(* for a ping of this connection that is not settled yet.                  *)
LEMMA Counting ==
    ASSUME PortInv, NEW a \in Addr, conns[a] # NULL, NEW c \in Client, NEW p \in pings,
           NEW m \in ClientAnswer(c, p.msg, a), counts(conns[a], m)
    PROVE  /\ conns[a].username = c /\ conns[a].password = c
           /\ p.addr = a /\ m.tid = p.msg.tid /\ m.tid \notin settled
  <1>1. integrity_ok(m, conns[a].password) /\ m.tid \in conns[a].requests
    BY DEF counts
  <1>2. ~Refusal(m, p.msg.tid)
    BY <1>1 DEF Refusal, integrity_ok
  <1>3. Authentic(c, p.msg) /\ m.tid = p.msg.tid /\ SignedBy(m, c)
    BY <1>2, AnswerMade DEF Reply, Whole
  <1>4. conns[a].password = c
    BY <1>1, <1>3 DEF SignedBy
  <1>5. conns[a].requests = Own(a) \ settled
    BY SettledBy DEF PortInv
  <1>6. PICK q \in pings : q.addr = a /\ q.msg.tid = m.tid
    BY <1>1, <1>5 DEF Own
  <1>7. p.addr = a
    BY <1>3, <1>6 DEF PortInv, OnePing
  <1>8. PingBy(p.msg, p.msg.tid, conns[a].username, conns[a].password)
    BY <1>7 DEF PortInv, PingsKnown
  <1>9. <<"user", conns[a].username, Local>> = <<"user", c, Local>>
    BY <1>3, <1>8 DEF PingBy, Authentic
  <1>10. conns[a].username = c
    BY <1>9
  <1> QED BY <1>1, <1>3, <1>4, <1>5, <1>7, <1>10

LEMMA ReceiveResponseStep ==
    ASSUME PortInv, ~undefined, NEW a \in Addr, NEW c \in Client, NEW p \in pings,
           NEW m \in ClientAnswer(c, p.msg, a), ReceiveResponse(a, c, m)
    PROVE  PortInv' /\ OwnMessagesValid' /\ RequestsServed'
  <1>1. /\ conns[a] # NULL /\ remote' = remote /\ pings' = pings
        /\ last' = [got |-> [addr |-> a, msg |-> m], by |-> c, sent |-> {}]
    BY DEF ReceiveResponse, Datagram
  <1>2. last'.sent = {} /\ last'.got.msg = m /\ last'.got.addr = a /\ last'.by = c
    BY <1>1
  <1>3. m.type \in {"RESPONSE", "ERROR"}
    BY AnswerMade DEF Reply, Refusal, Whole
  <1>4. RequestsServed'
    BY <1>2, <1>3 DEF RequestsServed
  <1>5. conns \in [Addr -> IceConnection \cup {NULL}] /\ conns[a] \in IceConnection
    BY <1>1 DEF PortInv, TypeOK
  <1>6. CASE ~counts(conns[a], m) \/ (m.type # "RESPONSE" /\ UNCHANGED <<conns, settled>>)
    <2>1. /\ conns' = conns /\ settled' = settled
          /\ undefined' = undefined \/ (undefined' = TRUE /\ counts(conns[a], m))
      BY <1>6, NeverRecoverable DEF ReceiveResponse
    <2>2. TypeOK' /\ IsFiniteSet(settled')
      BY <1>1, <2>1 DEF PortInv, TypeOK
    <2>3. PingsKnown' /\ OnePing'
      BY <1>1, <2>1, PingsStay DEF PortInv, Stay
    <2>4. SettledOnce'
      BY <1>1, <2>1 DEF PortInv, SettledOnce
    <2>5. undefined' => counts(conns[a], m) /\ m.type = "ERROR"
      BY <1>3, <1>6, <2>1
    <2>6. Agreement'
      <3>1. undefined' => conns[a].username = c /\ conns[a].password = c
        BY <1>1, <2>5, Counting
      <3> QED BY <1>2, <2>1, <2>5, <3>1 DEF PortInv, Agreement
    <2>7. OwnMessagesValid'
      BY <1>2, <2>2 DEF OwnMessagesValid
    <2> QED BY <1>4, <2>2, <2>3, <2>4, <2>6, <2>7 DEF PortInv
  <1>7. CASE counts(conns[a], m) /\ m.type = "RESPONSE"
    <2>1. /\ conns' = [conns EXCEPT ![a] = answered(@, m)]
          /\ settled' = settled \cup {m.tid} /\ undefined' = undefined
      BY <1>7 DEF ReceiveResponse
    <2>2. /\ conns[a].username = c /\ conns[a].password = c
          /\ p.addr = a /\ m.tid = p.msg.tid /\ m.tid \notin settled
      BY <1>1, <1>7, Counting
    <2>3. /\ conns'[a] = answered(conns[a], m)
          /\ \A b \in Addr : b # a => conns'[b] = conns[b]
          /\ conns' = [b \in Addr |-> conns'[b]]
      BY <1>5, <2>1
    <2>4. Counted(conns'[a], conns[a], conns[a].requests \ {m.tid}, conns[a].samples + 1)
      <3>1. PICK conn : conn = conns[a]
        OBVIOUS
      <3>2. /\ conn \in IceConnection /\ conn.requests \ {m.tid} \in SUBSET Tid
            /\ conn.samples + 1 \in Nat
        BY <1>5, <3>1 DEF IceConnection
      <3>3. PICK n : n = conns'[a]
        OBVIOUS
      <3>4. PICK R : R = conn.requests \ {m.tid}
        OBVIOUS
      <3>5. PICK k : k = conn.samples + 1
        OBVIOUS
      <3>6. n = [conn EXCEPT !.requests = R, !.samples = k]
        BY <2>3, <3>1, <3>3, <3>4, <3>5 DEF answered
      <3>7. Counted(n, conn, R, k)
        BY <3>2, <3>4, <3>5, <3>6, CountedIs
      <3> QED BY <3>1, <3>3, <3>4, <3>5, <3>7
    <2>5. /\ conns'[a] \in IceConnection /\ conns'[a].requests = conns[a].requests \ {m.tid}
          /\ conns'[a].samples = conns[a].samples + 1 /\ conns'[a].username = conns[a].username
          /\ conns'[a].password = conns[a].password /\ conns'[a] # NULL
      BY <2>4, ConnectionAssumption DEF Counted
    <2>6. conns' \in [Addr -> IceConnection \cup {NULL}]
      <3>1. \A b \in Addr : conns'[b] \in IceConnection \cup {NULL}
        BY <1>5, <2>3, <2>5
      <3> QED BY <2>3, <3>1
    <2>7. TypeOK'
      <3>1. settled' \subseteq {q.msg.tid : q \in pings'}
        BY <1>1, <2>1, <2>2 DEF PortInv, TypeOK
      <3> QED BY <1>1, <2>1, <2>6, <3>1 DEF PortInv, TypeOK
    <2>8. IsFiniteSet(settled')
      BY <2>1, FS_AddElement DEF PortInv
    <2>9. PingsKnown' /\ OnePing'
      <3>1. Stay
        BY <2>3, <2>5 DEF Stay
      <3> QED BY <1>1, <3>1, PingsStay DEF PortInv
    <2>10. SettledOnce'
      <3>1. ASSUME NEW b \in Addr, conns'[b] # NULL
            PROVE  /\ conns'[b].requests = Own(b) \ settled'
                   /\ conns'[b].samples = Cardinality(Own(b) \cap settled')
        <4>1. conns[b] # NULL
          BY <1>1, <2>3, <3>1
        <4>2. /\ conns[b].requests = Own(b) \ settled
              /\ conns[b].samples = Cardinality(Own(b) \cap settled)
          BY <4>1, SettledBy DEF PortInv
        <4>3. CASE b = a
          <5>1. m.tid \in Own(a)
            BY <2>2 DEF Own
          <5>2. PICK S : S = Own(a) \cap settled
            OBVIOUS
          <5>3. Own(a) \cap settled' = S \cup {m.tid} /\ m.tid \notin S
            BY <2>1, <2>2, <5>1, <5>2
          <5>4. IsFiniteSet(S)
            BY <5>2, FS_Subset DEF PortInv
          <5>5. Cardinality(S \cup {m.tid}) = Cardinality(S) + 1
            BY <5>3, <5>4, FS_AddElement
          <5> QED BY <2>1, <2>5, <4>2, <4>3, <5>2, <5>3, <5>5
        <4>4. CASE b # a
          <5>1. m.tid \notin Own(b)
            BY <2>2, <4>4 DEF Own, PortInv, OnePing
          <5>2. Own(b) \ settled' = Own(b) \ settled /\ Own(b) \cap settled' = Own(b) \cap settled
            BY <2>1, <5>1
          <5> QED BY <2>3, <4>2, <4>4, <5>2
        <4> QED BY <4>3, <4>4
      <3> QED BY <1>1, <3>1 DEF SettledOnce, Own
    <2>11. Agreement'
      <3>1. \A b \in Addr : conns'[b] # NULL /\ conns'[b].samples > 0
                               => conns'[b].username = conns'[b].password
        BY <1>1, <2>2, <2>3, <2>5 DEF PortInv, Agreement
      <3> QED BY <2>1, <3>1 DEF Agreement
    <2>12. OwnMessagesValid'
      BY <1>2, <2>7 DEF OwnMessagesValid
    <2> QED BY <1>4, <2>7, <2>8, <2>9, <2>10, <2>11, <2>12 DEF PortInv
  <1>8. ~counts(conns[a], m) \/ m.type = "RESPONSE" \/ UNCHANGED <<conns, settled>>
    BY NeverRecoverable DEF ReceiveResponse
  <1> QED BY <1>3, <1>6, <1>7, <1>8

-----------------------------------------------------------------------------
(* All of it together.                                                     *)
PortSafety == PortInv /\ OwnMessagesValid /\ RequestsServed

(* PortSafety holds at the start, and every step keeps it.                 *)
LEMMA PortStart == ASSUME Init PROVE PortSafety
  <1>1. /\ conns = [a \in Addr |-> NULL] /\ remote = NULL /\ pings = {} /\ last = Nothing
        /\ settled = {} /\ undefined = FALSE
    BY DEF Init
  <1>2. TypeOK
    BY <1>1 DEF TypeOK
  <1>3. IsFiniteSet(settled)
    BY <1>1, FS_EmptySet
  <1>4. PingsKnown /\ OnePing /\ SettledOnce /\ Agreement
    BY <1>1 DEF PingsKnown, OnePing, SettledOnce, Agreement
  <1>5. last.sent = {} /\ last.got = NULL
    BY <1>1 DEF Nothing
  <1> QED BY <1>2, <1>3, <1>4, <1>5 DEF PortSafety, PortInv, OwnMessagesValid, RequestsServed

LEMMA PortSteps == ASSUME PortSafety, [Next]_vars PROVE PortSafety'
  <1>1. CASE Next
    <2>1. PICK a \in Addr, c \in Client :
             \/ \E shape \in Shape : ReceiveRequest(a, c, shape)
             \/ \E p \in pings : \E m \in ClientAnswer(c, p.msg, a) : ReceiveResponse(a, c, m)
             \/ set_remote_ice_params(c)
             \/ ping(a)
      BY <1>1 DEF Next
    <2>2. PortInv /\ ~undefined
      BY <1>1 DEF PortSafety, Next
    <2>3. CASE \E shape \in Shape : ReceiveRequest(a, c, shape)
      BY <2>2, <2>3, ReceiveRequestStep DEF PortSafety
    <2>4. CASE \E p \in pings : \E m \in ClientAnswer(c, p.msg, a) : ReceiveResponse(a, c, m)
      BY <2>2, <2>4, ReceiveResponseStep DEF PortSafety
    <2>5. CASE set_remote_ice_params(c)
      BY <2>2, <2>5, RemoteStep DEF PortSafety
    <2>6. CASE ping(a)
      BY <2>2, <2>6, PingStep DEF PortSafety
    <2> QED BY <2>1, <2>3, <2>4, <2>5, <2>6
  <1>2. CASE UNCHANGED vars
    BY <1>2 DEF vars, PortSafety, PortInv, TypeOK, PingsKnown, OnePing, SettledOnce, Agreement,
                OwnMessagesValid, RequestsServed
  <1> QED BY <1>1, <1>2

(* The inductive invariant holds of every behaviour, and with it all that  *)
(* the next theorems single out.                                           *)
THEOREM PortIsSafe == Spec => []PortSafety
  BY PortStart, PortSteps, PTL DEF Spec

(* udp_port.cpp, ice_connection.cpp: everything that the port and its      *)
(* connections send can be read and validated by whom it is for.           *)
THEOREM OwnMessagesAreValid == Spec => []OwnMessagesValid
  <1>1. PortSafety => OwnMessagesValid
    BY DEF PortSafety
  <1> QED BY <1>1, PortIsSafe, PTL

(* get_stun_message() and on_read_packet(): which requests succeed.        *)
THEOREM RequestsAreServed == Spec => []RequestsServed
  <1>1. PortSafety => RequestsServed
    BY DEF PortSafety
  <1> QED BY <1>1, PortIsSafe, PTL

(* on_read_packet() of a connection: whose answers count.                  *)
THEOREM ClientsAgree == Spec => []Agreement
  <1>1. PortSafety => Agreement
    BY DEF PortSafety, PortInv
  <1> QED BY <1>1, PortIsSafe, PTL

(* check_response(): a ping is settled once, however the answers come.     *)
THEOREM PingsSettledOnce == Spec => []SettledOnce
  <1>1. PortSafety => SettledOnce
    BY DEF PortSafety, PortInv
  <1> QED BY <1>1, PortIsSafe, PTL
=============================================================================
