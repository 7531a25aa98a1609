-------------------------- MODULE IceChannel_proofs -------------------------
(***************************************************************************)
(* What an ICE channel shows is current, and the channel implements        *)
(* IceTransport, for any connections, priorities and round-trip times and  *)
(* any limits.  Sorting and updating are recursive functions over a list,  *)
(* so that induction over its length reaches lists of any length.          *)
(***************************************************************************)
EXTENDS IceChannel, FiniteSetTheorems, SequenceTheorems, WellFoundedInduction, TLAPS

(* Induction over the naturals, from the least counterexample.             *)
LEMMA CountUp ==
    ASSUME NEW S, 0 \in S, \A n \in Nat : n \in S => n + 1 \in S
    PROVE  Nat \subseteq S
  <1> DEFINE T == Nat \ S
  <1> SUFFICES ASSUME T # {} PROVE FALSE
    OBVIOUS
  <1>1. PICK R : R = {ss \in Nat \X Nat : ss[1] < ss[2]}
    OBVIOUS
  <1>2. IsWellFoundedOn(R, Nat)
    BY <1>1, NatLessThanWellFounded DEF OpToRel
  <1>3. PICK x \in T : \A y \in T : ~ (<<y, x>> \in R)
    <2>1. T \subseteq Nat
      OBVIOUS
    <2> HIDE DEF T
    <2> QED BY <1>2, <2>1, WFMin
  <1>4. x \in Nat /\ x # 0 /\ x - 1 \in Nat /\ x - 1 < x
    OBVIOUS
  <1>5. <<x - 1, x>> \in R
    BY <1>1, <1>4
  <1>6. x - 1 \in S
    BY <1>3, <1>4, <1>5
  <1>7. x = (x - 1) + 1
    BY <1>4
  <1> QED BY <1>3, <1>4, <1>6, <1>7

(* A set of naturals has a least one.                                      *)
LEMMA LeastIs ==
    ASSUME NEW S \in SUBSET Nat, S # {}
    PROVE  Min(S) \in S /\ \A y \in S : Min(S) <= y
  <1>1. PICK R : R = {ss \in Nat \X Nat : ss[1] < ss[2]}
    OBVIOUS
  <1>2. IsWellFoundedOn(R, Nat)
    BY <1>1, NatLessThanWellFounded DEF OpToRel
  <1>3. PICK x \in S : \A y \in S : ~ (<<y, x>> \in R)
    BY <1>2, WFMin
  <1>4. ASSUME NEW y \in S PROVE x <= y
    <2>1. x \in Nat /\ y \in Nat
      OBVIOUS
    <2>2. ~(y < x)
      BY <1>1, <1>3, <2>1
    <2> QED BY <2>1, <2>2
  <1> QED BY <1>4 DEF Min

(* The sort, step by step.                                                 *)
LEMMA SortSteps ==
    ASSUME NEW list, NEW cs, Len(list) \in Nat
    PROVE  \E f : /\ f[0] = <<>> /\ Sort(list, cs) = f[Len(list)]
                  /\ \A n \in 1 .. Len(list) : f[n] = Insert(f[n - 1], list[n], cs)
  <1> DEFINE N == Len(list)
             Is(f, m) == f = [n \in 0 .. m |-> IF n = 0 THEN <<>> ELSE Insert(f[n - 1], list[n], cs)]
             S == {m \in Nat : \E f : Is(f, m)}
  <1>1. 0 \in S
    <2>1. PICK f : f = [n \in 0 .. 0 |-> <<>>]
      OBVIOUS
    <2>2. Is(f, 0)
      BY <2>1
    <2> QED BY <2>2
  <1>2. ASSUME NEW m \in Nat, m \in S PROVE m + 1 \in S
    <2>1. PICK f : Is(f, m)
      BY <1>2
    <2>2. PICK g : g = [n \in 0 .. m + 1 |-> IF n <= m THEN f[n] ELSE Insert(f[m], list[m + 1], cs)]
      OBVIOUS
    <2>3. Is(g, m + 1)
      <3>1. ASSUME NEW n \in 0 .. m + 1
            PROVE  g[n] = IF n = 0 THEN <<>> ELSE Insert(g[n - 1], list[n], cs)
        <4>1. CASE n = 0
          BY <2>1, <2>2, <4>1
        <4>2. CASE n \in 1 .. m
          <5>1. g[n] = f[n] /\ g[n - 1] = f[n - 1]
            BY <2>2, <4>2
          <5>2. f[n] = Insert(f[n - 1], list[n], cs)
            BY <2>1, <4>2
          <5> QED BY <4>2, <5>1, <5>2
        <4>3. CASE n = m + 1
          <5>1. g[n] = Insert(f[m], list[m + 1], cs) /\ g[m] = f[m] /\ n - 1 = m
            BY <2>2, <4>3
          <5> QED BY <4>3, <5>1
        <4> QED BY <4>1, <4>2, <4>3
      <3> QED BY <2>2, <3>1
    <2> QED BY <2>3
  <1>3. N \in S
    <2> HIDE DEF S
    <2> QED BY <1>1, <1>2, CountUp
  <1>4. PICK f : Is(f, N)
    BY <1>3
  <1>5. PICK F : F = CHOOSE f_1 : Is(f_1, N)
    OBVIOUS
  <1>6. Is(F, N)
    BY <1>4, <1>5
  <1>7. Sort(list, cs) = F[N]
    BY <1>5 DEF Sort
  <1> QED BY <1>6, <1>7

-----------------------------------------------------------------------------
(* The write states in their order.                                        *)
LEMMA RankValues ==
    /\ Rank("WRITABLE") = 0 /\ Rank("UNRELIABLE") = 1
    /\ Rank("INIT") = 2 /\ Rank("TIMEOUT") = 3
  BY DEF Rank

(* A connection and its fields.                                            *)
LEMMA FieldTypes ==
    ASSUME NEW x \in Connection
    PROVE  /\ x.write \in {"WRITABLE", "UNRELIABLE", "INIT", "TIMEOUT"}
           /\ x.receiving \in BOOLEAN /\ x.pwd \in BOOLEAN
           /\ x.priority \in Nat /\ x.rtt \in Nat
           /\ x.open \in 0 .. Fails /\ x.unanswered \in 0 .. Fails
           /\ Rank(x.write) \in 0 .. 3
           /\ x # NULL
  <1>1. x.write \in {"WRITABLE", "UNRELIABLE", "INIT", "TIMEOUT"}
    BY DEF Connection
  <1>2. Rank(x.write) \in 0 .. 3
    BY <1>1, RankValues
  <1>3. x # NULL
    BY NullAssumption
  <1>4. x.receiving \in BOOLEAN /\ x.pwd \in BOOLEAN
    BY DEF Connection
  <1>5. x.open \in 0 .. Fails /\ x.unanswered \in 0 .. Fails
    BY DEF Connection
  <1>6. x.priority \in Nat
    BY PriorityAssumption DEF Connection
  <1>7. x.rtt \in Nat
    BY RttAssumption DEF Connection
  <1> QED BY <1>1, <1>2, <1>3, <1>4, <1>5, <1>6, <1>7

(* What the sort compares by is an order that refines Better.              *)
LEMMA PrecedesOrder ==
    ASSUME NEW a \in Connection, NEW b \in Connection, NEW c \in Connection
    PROVE  /\ Better(a, b) => Precedes(a, b)
           /\ Precedes(a, b) => ~Precedes(b, a)
           /\ Precedes(a, b) /\ Precedes(b, c) => Precedes(a, c)
  <1>1. \A w, v \in {"WRITABLE", "UNRELIABLE", "INIT", "TIMEOUT"} :
            w = v <=> Rank(w) = Rank(v)
    BY RankValues
  <1>2. \A x \in {a, b, c} : /\ x.write \in {"WRITABLE", "UNRELIABLE", "INIT", "TIMEOUT"}
                             /\ x.receiving \in BOOLEAN /\ x.priority \in Nat
                             /\ x.rtt \in Nat /\ Rank(x.write) \in 0 .. 3
    BY FieldTypes
  <1> DEFINE R(x) == Rank(x.write)
             B(x, y) == \/ R(x) < R(y)
                        \/ /\ R(x) = R(y)
                           /\ \/ x.receiving /\ ~y.receiving
                              \/ x.receiving = y.receiving /\ x.priority > y.priority
  <1>3. \A x, y \in {a, b, c} : Better(x, y) <=> B(x, y)
    BY <1>1, <1>2 DEF Better
  <1>4. \A x, y \in {a, b, c} : Precedes(x, y) <=> B(x, y) \/ (~B(y, x) /\ x.rtt < y.rtt)
    BY <1>3 DEF Precedes
  <1>5. \A x \in {a, b, c} : R(x) \in 0 .. 3
    BY <1>2
  <1> HIDE DEF R
  <1> QED BY <1>2, <1>3, <1>4, <1>5

(* What InsertAt returns, entry by entry.                                  *)
LEMMA InsertAtEntries ==
    ASSUME NEW S, NEW s \in Seq(S), NEW e \in S, NEW p \in 1 .. Len(s) + 1
    PROVE  /\ InsertAt(s, p, e) \in Seq(S)
           /\ Len(InsertAt(s, p, e)) = Len(s) + 1
           /\ \A i \in 1 .. Len(s) + 1 :
                 InsertAt(s, p, e)[i] = IF i < p THEN s[i] ELSE IF i = p THEN e ELSE s[i - 1]
  <1>1. PICK a : a = SubSeq(s, 1, p - 1)
    OBVIOUS
  <1>2. PICK b : b = SubSeq(s, p, Len(s))
    OBVIOUS
  <1>3. a \in Seq(S) /\ Len(a) = p - 1 /\ \A i \in 1 .. p - 1 : a[i] = s[i]
    BY <1>1
  <1>4. b \in Seq(S) /\ Len(b) = Len(s) + 1 - p /\ \A i \in 1 .. Len(b) : b[i] = s[p + i - 1]
    <2>1. CASE p <= Len(s)
      BY <1>2, <2>1
    <2>2. CASE p = Len(s) + 1
      BY <1>2, <2>2
    <2> QED BY <2>1, <2>2
  <1>5. PICK d : d = a \o <<e>>
    OBVIOUS
  <1>6. d \in Seq(S) /\ Len(d) = p /\ d[p] = e /\ \A i \in 1 .. p - 1 : d[i] = s[i]
    BY <1>3, <1>5
  <1>7. InsertAt(s, p, e) = d \o b
    BY <1>1, <1>2, <1>5 DEF InsertAt
  <1>8. d \o b \in Seq(S) /\ Len(d \o b) = Len(s) + 1
    <2>1. d \o b \in Seq(S) /\ Len(d \o b) = Len(d) + Len(b)
      BY <1>4, <1>6, ConcatProperties
    <2> QED BY <1>4, <1>6, <2>1
  <1>9. ASSUME NEW i \in 1 .. Len(s) + 1
        PROVE  (d \o b)[i] = IF i < p THEN s[i] ELSE IF i = p THEN e ELSE s[i - 1]
    <2>1. CASE i <= p
      <3>1. (d \o b)[i] = d[i]
        BY <1>4, <1>6, <2>1, ConcatProperties
      <3> QED BY <1>6, <2>1, <3>1
    <2>2. CASE i > p
      <3>1. (d \o b)[i] = b[i - p]
        BY <1>4, <1>6, <2>2, ConcatProperties
      <3>2. i - p \in 1 .. Len(b) /\ p + (i - p) - 1 = i - 1
        BY <1>4, <2>2
      <3>3. b[i - p] = s[p + (i - p) - 1]
        BY <1>4, <3>2
      <3>4. b[i - p] = s[i - 1]
        BY <3>2, <3>3
      <3>5. ~(i < p) /\ i # p
        BY <2>2
      <3> QED BY <3>1, <3>4, <3>5
    <2>3. Len(s) \in Nat
      OBVIOUS
    <2>4. i \in Int /\ p \in Int
      BY <2>3
    <2>5. i <= p \/ i > p
      BY <2>4
    <2> QED BY <2>1, <2>2, <2>5, Zenon
  <1> QED BY <1>7, <1>8, <1>9

(* Injective sequences have as many entries as elements.                   *)
LEMMA CountList ==
    ASSUME NEW S, NEW s \in Seq(S), \A i, j \in 1 .. Len(s) : s[i] = s[j] => i = j
    PROVE  Cardinality(ToSet(s)) = Len(s)
  <1> DEFINE n == Len(s)
             f == [i \in 1 .. n |-> s[i]]
  <1>1. n \in Nat
    OBVIOUS
  <1>2. ToSet(s) = {s[i] : i \in 1 .. n}
    BY DEF ToSet
  <1>3. f \in Bijection(1 .. n, ToSet(s))
    <2>1. f \in [1 .. n -> ToSet(s)]
      BY <1>2
    <2>2. \A i, j \in 1 .. n : f[i] = f[j] => i = j
      OBVIOUS
    <2>3. \A x \in ToSet(s) : \E i \in 1 .. n : f[i] = x
      BY <1>2
    <2> QED BY <2>1, <2>2, <2>3 DEF Bijection, Injection, Surjection, IsInjective
  <1>4. ExistsBijection(1 .. n, ToSet(s))
    BY <1>3 DEF ExistsBijection
  <1> QED BY <1>1, <1>4, FS_CountingElements

-----------------------------------------------------------------------------
CreatedIn(cs) == {c \in Conn : cs[c] # NULL}

Conns == [Conn -> Connection \cup {NULL}]

(* What a sort starts from: each of a set of connections once.             *)
Lists(list, S) ==
    /\ list \in Seq(Conn) /\ ToSet(list) = S
    /\ \A i, j \in 1 .. Len(list) : list[i] = list[j] => i = j

Ordered(list, cs) ==
    \A i, j \in 1 .. Len(list) : i < j => ~Precedes(cs[list[j]], cs[list[i]])

(* One insertion.  What goes behind the new one is preceded by it, and     *)
(* transitivity does the rest.                                             *)
LEMMA InsertKeeps ==
    ASSUME NEW cs \in Conns, NEW s, NEW S \in SUBSET CreatedIn(cs), NEW c \in CreatedIn(cs) \ S,
           Lists(s, S), Ordered(s, cs)
    PROVE  Lists(Insert(s, c, cs), S \cup {c}) /\ Ordered(Insert(s, c, cs), cs)
  <1> DEFINE L == Len(s)
             behind == {i \in 1 .. L : Precedes(cs[c], cs[s[i]])}
  <1>1. L \in Nat /\ s \in Seq(Conn) /\ c \in Conn
    BY DEF Lists, CreatedIn
  <1>2. PICK p : p = Min(behind \cup {L + 1})
    OBVIOUS
  <1>3. /\ p \in behind \cup {L + 1}
        /\ \A y \in behind \cup {L + 1} : p <= y
    <2>1. behind \cup {L + 1} \in SUBSET Nat /\ behind \cup {L + 1} # {}
      BY <1>1
    <2> HIDE DEF behind
    <2> QED BY <1>2, <2>1, LeastIs
  <1>4. p \in 1 .. L + 1
    BY <1>1, <1>3
  <1>5. PICK t : t = InsertAt(s, p, c)
    OBVIOUS
  <1>6. Insert(s, c, cs) = t
    BY <1>2, <1>5 DEF Insert
  <1>7. /\ t \in Seq(Conn) /\ Len(t) = L + 1
        /\ \A i \in 1 .. L + 1 :
              t[i] = IF i < p THEN s[i] ELSE IF i = p THEN c ELSE s[i - 1]
    <2>1. /\ InsertAt(s, p, c) \in Seq(Conn) /\ Len(InsertAt(s, p, c)) = L + 1
          /\ \A i \in 1 .. L + 1 : InsertAt(s, p, c)[i] =
                IF i < p THEN s[i] ELSE IF i = p THEN c ELSE s[i - 1]
      BY <1>1, <1>4, InsertAtEntries
    <2> QED BY <1>5, <2>1
  <1>8. DOMAIN s = 1 .. L /\ DOMAIN t = 1 .. L + 1
    BY <1>1, <1>7
  <1>9. ToSet(s) = S
    BY DEF Lists
  <1>10. \A i \in 1 .. L : s[i] \in S /\ s[i] # c
    BY <1>8, <1>9 DEF ToSet
  <1>11. ToSet(t) = S \cup {c}
    <2>1. ASSUME NEW x \in ToSet(t) PROVE x \in S \cup {c}
      <3>1. PICK i \in 1 .. L + 1 : x = t[i]
        BY <1>8 DEF ToSet
      <3>2. i < p => i \in 1 .. L
        BY <1>1, <1>4
      <3>3. i > p => i - 1 \in 1 .. L
        BY <1>1, <1>4
      <3> QED BY <1>4, <1>7, <1>10, <3>1, <3>2, <3>3
    <2>2. c \in ToSet(t)
      <3>1. t[p] = c
        BY <1>4, <1>7
      <3> QED BY <1>4, <1>8, <3>1 DEF ToSet
    <2>3. ASSUME NEW x \in S PROVE x \in ToSet(t)
      <3>1. PICK i \in 1 .. L : x = s[i]
        BY <1>8, <1>9 DEF ToSet
      <3>2. CASE i < p
        <4>1. t[i] = x /\ i \in 1 .. L + 1
          BY <1>1, <1>7, <3>1, <3>2
        <4> QED BY <1>8, <4>1 DEF ToSet
      <3>3. CASE ~(i < p)
        <4>1. i + 1 \in 1 .. L + 1 /\ ~(i + 1 < p) /\ i + 1 # p /\ (i + 1) - 1 = i
          BY <1>1, <1>4, <3>3
        <4>2. t[i + 1] = x
          BY <1>7, <3>1, <4>1
        <4> QED BY <1>8, <4>1, <4>2 DEF ToSet
      <3> QED BY <3>2, <3>3
    <2> QED BY <2>1, <2>2, <2>3
  (* The entry at i of the result is that at From(i) of s, but for c.        *)
  <1> DEFINE From(i) == IF i < p THEN i ELSE i - 1
  <1>12. \A i \in 1 .. L + 1 : i # p => From(i) \in 1 .. L /\ t[i] = s[From(i)]
    BY <1>1, <1>4, <1>7
  <1>13. t[p] = c
    BY <1>4, <1>7
  <1>14. \A i, j \in 1 .. L + 1 : i # p /\ j # p =>
            /\ From(i) = From(j) => i = j
            /\ i < j => From(i) < From(j)
    BY <1>1, <1>4
  <1>15. \A i \in 1 .. L + 1 : i < p => From(i) = i
    OBVIOUS
  <1> HIDE DEF From
  <1>16. ASSUME NEW i \in 1 .. L + 1, NEW j \in 1 .. L + 1, t[i] = t[j]
         PROVE  i = j
    <2>1. CASE i = p \/ j = p
      BY <1>10, <1>12, <1>13, <1>16, <2>1
    <2>2. CASE i # p /\ j # p
      <3>1. s[From(i)] = s[From(j)] /\ From(i) \in 1 .. L /\ From(j) \in 1 .. L
        BY <1>12, <1>16, <2>2
      <3>2. From(i) = From(j)
        BY <3>1 DEF Lists
      <3> QED BY <1>14, <2>2, <3>2
    <2> QED BY <2>1, <2>2
  <1>17. Lists(t, S \cup {c})
    BY <1>7, <1>11, <1>16 DEF Lists
  <1>18. cs[c] \in Connection /\ \A d \in S : cs[d] \in Connection
    BY DEF Conns, CreatedIn
  <1>19. ASSUME NEW i \in 1 .. L + 1, NEW j \in 1 .. L + 1, i < j,
                Precedes(cs[t[j]], cs[t[i]])
         PROVE  FALSE
    <2>1. CASE i # p /\ j # p
      BY <1>12, <1>14, <1>19, <2>1 DEF Ordered
    <2>2. CASE j = p
      <3>1. i \in 1 .. L /\ i < p
        BY <1>1, <1>4, <1>19, <2>2
      <3>2. t[i] = s[i] /\ t[j] = c
        BY <1>7, <1>13, <2>2, <3>1
      <3>3. i \in behind
        BY <1>19, <3>1, <3>2
      <3> QED BY <1>1, <1>3, <1>4, <3>1, <3>3
    <2>3. CASE i = p
      <3>1. p \in 1 .. L /\ j # p /\ p <= From(j) /\ From(j) \in 1 .. L /\ t[j] = s[From(j)]
        BY <1>1, <1>4, <1>12, <1>19, <2>3 DEF From
      <3>2. Precedes(cs[c], cs[s[p]])
        BY <1>1, <1>3, <3>1
      <3>3. Precedes(cs[s[From(j)]], cs[c])
        BY <1>13, <1>19, <2>3, <3>1
      <3>4. cs[s[p]] \in Connection /\ cs[s[From(j)]] \in Connection
        BY <1>10, <1>18, <3>1
      <3>5. Precedes(cs[s[From(j)]], cs[s[p]])
        BY <1>18, <3>2, <3>3, <3>4, PrecedesOrder
      <3>6. From(j) # p
        BY <3>4, <3>5, PrecedesOrder
      <3>7. p < From(j)
        BY <1>4, <3>1, <3>6
      <3> QED BY <3>1, <3>5, <3>7 DEF Ordered
    <2> QED BY <2>1, <2>2, <2>3
  <1>20. Ordered(t, cs)
    BY <1>7, <1>19 DEF Ordered
  <1> QED BY <1>6, <1>17, <1>20

(* The sort loses nobody, duplicates nobody and leaves the best first.     *)
LEMMA SortKeeps ==
    ASSUME NEW cs \in Conns, NEW list, Lists(list, CreatedIn(cs))
    PROVE  Lists(Sort(list, cs), CreatedIn(cs)) /\ Ordered(Sort(list, cs), cs)
  <1> DEFINE N == Len(list)
             First(n) == {list[i] : i \in 1 .. n}
  <1>1. N \in Nat /\ list \in Seq(Conn) /\ DOMAIN list = 1 .. N
    BY DEF Lists
  <1>2. PICK f : /\ f[0] = <<>> /\ Sort(list, cs) = f[N]
                 /\ \A n \in 1 .. N : f[n] = Insert(f[n - 1], list[n], cs)
    BY <1>1, SortSteps
  <1> DEFINE P(n) == n <= N => Lists(f[n], First(n)) /\ Ordered(f[n], cs)
             T == {n \in Nat : P(n)}
  <1>3. 0 \in T
    <2>1. <<>> \in Seq(Conn) /\ Len(<<>>) = 0 /\ ToSet(<<>>) = {}
      BY DEF ToSet
    <2>2. First(0) = {}
      OBVIOUS
    <2>3. Lists(<<>>, {}) /\ Ordered(<<>>, cs)
      BY <2>1 DEF Lists, Ordered
    <2> QED BY <1>2, <2>2, <2>3
  <1>4. ASSUME NEW n \in Nat, n \in T PROVE n + 1 \in T
    <2> SUFFICES ASSUME n + 1 <= N PROVE Lists(f[n + 1], First(n + 1)) /\ Ordered(f[n + 1], cs)
      OBVIOUS
    <2>1. n + 1 \in 1 .. N /\ n <= N /\ (n + 1) - 1 = n
      BY <1>1
    <2>2. Lists(f[n], First(n)) /\ Ordered(f[n], cs)
      BY <1>4, <2>1
    <2>3. f[n + 1] = Insert(f[n], list[n + 1], cs)
      BY <1>2, <2>1
    <2>4. First(n) \in SUBSET CreatedIn(cs)
      <3>1. \A i \in 1 .. n : i \in 1 .. N
        BY <1>1, <2>1
      <3> QED BY <1>1, <3>1 DEF Lists, ToSet
    <2>5. list[n + 1] \in CreatedIn(cs) \ First(n)
      <3>1. list[n + 1] \in CreatedIn(cs)
        BY <1>1, <2>1 DEF Lists, ToSet
      <3>2. \A i \in 1 .. n : i \in 1 .. N /\ i # n + 1
        BY <1>1, <2>1
      <3>3. \A i \in 1 .. n : list[i] # list[n + 1]
        BY <2>1, <3>2 DEF Lists
      <3> QED BY <3>1, <3>3
    <2>6. First(n + 1) = First(n) \cup {list[n + 1]}
      <3>1. \A i : i \in 1 .. n + 1 <=> i \in 1 .. n \/ i = n + 1
        OBVIOUS
      <3> QED BY <3>1
    <2> HIDE DEF First
    <2> QED BY <2>2, <2>3, <2>4, <2>5, <2>6, InsertKeeps
  <1>5. N \in T
    <2> HIDE DEF T
    <2> QED BY <1>1, <1>3, <1>4, CountUp
  <1>6. First(N) = CreatedIn(cs)
    BY <1>1 DEF Lists, ToSet
  <1>7. P(N)
    BY <1>5
  <1>8. N <= N
    BY <1>1
  <1> HIDE DEF First
  <1> QED BY <1>2, <1>6, <1>7, <1>8

-----------------------------------------------------------------------------
Usable(x) == x.write \in {"WRITABLE", "UNRELIABLE"}

(* What _sort_connections_and_update_state() starts from.                  *)
Sortable(cs, ch) ==
    /\ cs \in Conns /\ ch \in Channel /\ Lists(ch.list, CreatedIn(cs))
    /\ ch.selected # NULL => ch.selected \in CreatedIn(cs)
    /\ ch.been = (ch.selected # NULL)

(* The parts of UpToDate, and the list it relies on.                       *)
Shown(cs, ch) ==
    /\ \A i, j \in 1 .. Len(ch.list) : i < j => ~Better(cs[ch.list[j]], cs[ch.list[i]])
    /\ ch.writable = (ch.selected # NULL /\ cs[ch.selected].write = "WRITABLE")
    /\ ch.receiving = \E c \in CreatedIn(cs) : cs[c].receiving
    /\ ch.state = Compute(ch.list, ch.been, ch.writable, cs)

(* Whoever is usable, or has been, leaves a connection selected.           *)
Chosen(cs, ch) == (\E c \in CreatedIn(cs) : Usable(cs[c])) => ch.selected # NULL

Starts(cs, ch) == (\E c \in CreatedIn(cs) : cs[c].pwd) => ch.pinging

Good(cs, ch) == Sortable(cs, ch) /\ Shown(cs, ch) /\ Chosen(cs, ch) /\ Starts(cs, ch)

(* The usable ones are those that rank first.                              *)
LEMMA UsableRank ==
    ASSUME NEW x \in Connection
    PROVE  Usable(x) <=> Rank(x.write) <= 1
  BY FieldTypes, RankValues DEF Usable

(* What a state says about the list and the flags it was computed from.     *)
Fits(k, list, been, writable, cs) ==
    /\ k \in State
    /\ k = "connected" => writable
    /\ k = "new" => list = <<>>
    /\ been /\ list # <<>> /\ k # "failed" => k \in {"connected", "disconnected"}
    /\ ~been => k # "disconnected"
    /\ list # <<>> /\ ~been /\ ~writable => k \in {"checking", "failed"}
    /\ list # <<>> /\ writable /\ (\E c \in ToSet(list) : cs[c].write # "TIMEOUT") =>
          k = "connected"
    /\ list # <<>> /\ ~been /\ ~writable /\ (\E c \in ToSet(list) : cs[c].write # "TIMEOUT") =>
          k = "checking"
    /\ list = <<>> /\ ~been /\ ~writable => k = "new"

(* Whatever _compute_ice_transport_state() returns fits.                   *)
LEMMA ComputeState ==
    ASSUME NEW list, NEW been \in BOOLEAN, NEW writable \in BOOLEAN, NEW cs
    PROVE  Fits(Compute(list, been, writable, cs), list, been, writable, cs)
  <1>1. PICK dead \in BOOLEAN :
            dead = (list # <<>> /\ \A c \in ToSet(list) : cs[c].write = "TIMEOUT")
    OBVIOUS
  <1>2. PICK none \in BOOLEAN : none = (list = <<>>)
    OBVIOUS
  <1>3. Compute(list, been, writable, cs) =
            IF dead THEN "failed" ELSE IF been /\ ~writable THEN "disconnected"
            ELSE IF none THEN "new" ELSE IF ~writable THEN "checking" ELSE "connected"
    BY <1>1, <1>2 DEF Compute
  <1>4. /\ ~none /\ (\E c \in ToSet(list) : cs[c].write # "TIMEOUT") => ~dead
        /\ ~none <=> list # <<>>
        /\ dead => ~none
    BY <1>1, <1>2
  <1>5. PICK k : k = Compute(list, been, writable, cs)
    OBVIOUS
  <1>6. /\ k \in State
        /\ k = "connected" => writable
        /\ k = "new" => none
        /\ been /\ ~none /\ k # "failed" => k \in {"connected", "disconnected"}
        /\ ~been => k # "disconnected"
        /\ ~none /\ ~been /\ ~writable => k \in {"checking", "failed"}
        /\ writable /\ ~none /\ ~dead => k = "connected"
        /\ ~none /\ ~been /\ ~writable /\ ~dead => k = "checking"
        /\ none /\ ~dead /\ ~been /\ ~writable => k = "new"
    BY <1>3, <1>5 DEF State
  <1>7. Fits(k, list, been, writable, cs)
    BY <1>4, <1>6 DEF Fits
  <1> QED BY <1>5, <1>7

(* While nothing is selected, a connection becomes usable only by becoming *)
(* writable, and then the channel is pinging already.                      *)
Awaited(cs, ch) ==
    /\ ch.selected = NULL =>
          \A c \in CreatedIn(cs) : Usable(cs[c]) => cs[c].write = "WRITABLE"
    /\ (\E c \in CreatedIn(cs) : Usable(cs[c])) => ch.pinging

(* The channel has been only if it was, or is writable.                    *)
Remembers(cs, ch, r) ==
    /\ r.been = (ch.been \/ r.writable)
    /\ (\A c \in CreatedIn(cs) : ~Usable(cs[c])) => r.been = ch.been

(* _sort_connections_and_update_state() makes everything current.          *)
LEMMA Updated ==
    ASSUME NEW cs, NEW ch, Sortable(cs, ch), Awaited(cs, ch)
    PROVE  Good(cs, SortAndUpdate(ch, cs)) /\ Remembers(cs, ch, SortAndUpdate(ch, cs))
  <1> PICK r : r = SortAndUpdate(ch, cs)
    OBVIOUS
  <1> DEFINE S == CreatedIn(cs)
  <1>1. PICK list : list = Sort(ch.list, cs)
    OBVIOUS
  <1>2. PICK sel : sel = Switch(list, ch.selected, cs)
    OBVIOUS
  <1>3. PICK wr : wr = (sel # NULL /\ cs[sel].write = "WRITABLE")
    OBVIOUS
  <1>4. PICK been : been = (ch.been \/ wr)
    OBVIOUS
  <1>5. /\ cs \in Conns /\ ch \in Channel /\ ch.been \in BOOLEAN /\ ch.pinging \in BOOLEAN
        /\ ch.selected \in Conn \cup {NULL}
    BY DEF Sortable, Channel
  <1>6. /\ r = [ch EXCEPT !.list = list, !.selected = sel, !.writable = wr, !.been = been,
                         !.receiving = \E c \in ToSet(list) : cs[c].receiving,
                         !.state = Compute(list, been, wr, cs),
                         !.pinging = @ \/ \E c \in ToSet(list) : Pingable(c, sel, cs)]
    BY <1>1, <1>2, <1>3, <1>4 DEF SortAndUpdate, _update_state
  <1>7. Lists(list, S) /\ Ordered(list, cs)
    BY <1>1, SortKeeps DEF Sortable
  <1>8. list \in Seq(Conn) /\ ToSet(list) = S /\ DOMAIN list = 1 .. Len(list)
    BY <1>7 DEF Lists
  <1>9. \A c \in S : cs[c] \in Connection /\ c \in Conn /\ c # NULL
    BY <1>5, PriorityAssumption DEF Conns, CreatedIn
  <1>10. \A i \in 1 .. Len(list) : list[i] \in S
    BY <1>8 DEF ToSet
  <1>11. \A i, j \in 1 .. Len(list) : i < j => ~Better(cs[list[j]], cs[list[i]])
    BY <1>7, <1>9, <1>10, PrecedesOrder DEF Ordered
  (* The head is usable if anybody is.                                       *)
  <1>12. ASSUME NEW c \in S, Usable(cs[c])
         PROVE  list # <<>> /\ Head(list) \in S /\ ready_to_send(Head(list), cs)
    <2>1. PICK i \in 1 .. Len(list) : list[i] = c
      BY <1>8 DEF ToSet
    <2>2. list # <<>> /\ 1 \in 1 .. Len(list) /\ Head(list) = list[1]
      BY <1>8, <2>1
    <2>3. list[1] \in S /\ cs[list[1]] \in Connection /\ cs[c] \in Connection
      BY <1>9, <1>10, <2>2
    <2>4. CASE i = 1
      BY <1>9, <1>12, <2>1, <2>2, <2>3, <2>4 DEF ready_to_send, Usable
    <2>5. CASE i # 1
      <3>1. ~Better(cs[c], cs[list[1]])
        BY <1>11, <2>1, <2>2, <2>5
      <3>2. Rank(cs[list[1]].write) <= Rank(cs[c].write)
        <4>1. Rank(cs[list[1]].write) \in 0 .. 3 /\ Rank(cs[c].write) \in 0 .. 3
          BY <2>3, FieldTypes
        <4> QED BY <3>1, <4>1 DEF Better
      <3>3. Rank(cs[list[1]].write) <= 1
        <4>1. Rank(cs[list[1]].write) \in 0 .. 3 /\ Rank(cs[c].write) \in 0 .. 3
          BY <2>3, FieldTypes
        <4> QED BY <1>12, <2>3, <3>2, <4>1, UsableRank
      <3>4. Usable(cs[list[1]])
        BY <2>3, <3>3, UsableRank
      <3> QED BY <1>9, <2>2, <2>3, <3>4 DEF ready_to_send, Usable
    <2> QED BY <2>4, <2>5
  <1>13. /\ sel # NULL => sel \in S
         /\ ch.selected # NULL => sel # NULL
         /\ (\E c \in S : Usable(cs[c])) => sel # NULL
         /\ sel # NULL /\ ch.selected = NULL => Usable(cs[sel])
    <2>1. sel = ch.selected \/ (sel = Head(list) /\ list # <<>> /\ ready_to_send(Head(list), cs))
      BY <1>2 DEF Switch
    <2>2. list # <<>> => Head(list) \in S
      BY <1>8, <1>10
    <2>3. ready_to_send(Head(list), cs) => Head(list) # NULL /\ Usable(cs[Head(list)])
      BY DEF ready_to_send, Usable
    <2>4. ch.selected = NULL /\ list # <<>> /\ ready_to_send(Head(list), cs) => sel = Head(list)
      BY <1>2 DEF Switch
    <2> QED BY <1>12, <2>1, <2>2, <2>3, <2>4 DEF Sortable
  <1>14. been = (sel # NULL)
    <2>1. CASE ch.selected # NULL
      BY <1>4, <1>13, <2>1 DEF Sortable
    <2>2. CASE ch.selected = NULL
      <3>1. sel # NULL => wr
        BY <1>3, <1>13, <2>2 DEF Awaited
      <3> QED BY <1>3, <1>4, <2>2, <3>1 DEF Sortable
    <2> QED BY <2>1, <2>2
  <1>15. sel \in Conn \cup {NULL} /\ wr \in BOOLEAN /\ been \in BOOLEAN
    BY <1>3, <1>4, <1>5, <1>9, <1>13
  <1>16. Compute(list, been, wr, cs) \in State
    BY <1>15, ComputeState DEF Fits
  <1>17. PICK rec \in BOOLEAN : rec = \E c \in S : cs[c].receiving
    OBVIOUS
  <1>18. PICK ping \in BOOLEAN : ping = (ch.pinging \/ \E c \in S : Pingable(c, sel, cs))
    OBVIOUS
  <1>19. PICK st \in State : st = Compute(list, been, wr, cs)
    BY <1>16
  <1>20. r = [ch EXCEPT !.list = list, !.selected = sel, !.writable = wr, !.been = been,
                        !.receiving = rec, !.state = st, !.pinging = ping]
    <2>1. ping = (ch.pinging \/ \E c \in ToSet(list) : Pingable(c, sel, cs))
      BY <1>8, <1>18
    <2>2. rec = \E c \in ToSet(list) : cs[c].receiving
      BY <1>8, <1>17
    <2> QED BY <1>6, <1>19, <2>1, <2>2
  <1>21. /\ r \in Channel
         /\ r.list = list /\ r.selected = sel /\ r.writable = wr /\ r.been = been
         /\ r.receiving = rec /\ r.state = st /\ r.pinging = ping
    BY <1>5, <1>8, <1>15, <1>20 DEF Channel
  <1>22. Sortable(cs, r)
    BY <1>5, <1>7, <1>13, <1>14, <1>21 DEF Sortable
  <1>23. Shown(cs, r)
    BY <1>3, <1>11, <1>17, <1>19, <1>21 DEF Shown
  <1>24. Chosen(cs, r)
    BY <1>13, <1>21 DEF Chosen
  <1>25. Starts(cs, r)
    <2> SUFFICES ASSUME NEW c \in S, cs[c].pwd PROVE ping
      BY <1>21 DEF Starts
    <2>1. CASE \E d \in S : Usable(cs[d])
      BY <1>18, <2>1 DEF Awaited
    <2>2. CASE ~\E d \in S : Usable(cs[d])
      <3>1. Weak(sel, cs)
        BY <1>13, <2>2 DEF Weak, Usable
      <3>2. Pingable(c, sel, cs)
        BY <3>1 DEF Pingable
      <3> QED BY <1>18, <3>2
    <2> QED BY <2>1, <2>2
  <1>26. (\A c \in S : ~Usable(cs[c])) => been = ch.been
    BY <1>3, <1>4, <1>5, <1>13 DEF Usable
  <1>27. Good(cs, r)
    BY <1>22, <1>23, <1>24, <1>25 DEF Good
  <1>28. r.been = (ch.been \/ r.writable)
    BY <1>4, <1>21
  <1>29. (\A c \in S : ~Usable(cs[c])) => r.been = ch.been
    BY <1>21, <1>26
  <1>30. Remembers(cs, ch, r)
    BY <1>28, <1>29 DEF Remembers
  <1> QED BY <1>27, <1>30

-----------------------------------------------------------------------------
(* Requests are sent, and answered, only with a password, which comes with *)
(* the answer.                                                             *)
KeysIn(cs, ans) ==
    \A c \in CreatedIn(cs) : /\ cs[c].open > 0 \/ Usable(cs[c]) => cs[c].pwd
                             /\ cs[c].pwd => ans

(* What holds of the connections and the channel inside a handler.         *)
World(w, ans) == Good(w.cs, w.ch) /\ KeysIn(w.cs, ans)

(* v comes after w in a handler that makes no connection usable.           *)
Follows(v, w, ans) ==
    /\ World(v, ans) /\ CreatedIn(v.cs) = CreatedIn(w.cs) /\ v.ch.been = w.ch.been
    /\ \A c \in Conn : w.cs[c].pwd => v.cs[c].pwd

(* One after the other.                                                    *)
LEMMA FollowsOn ==
    ASSUME NEW u, NEW v, NEW w, NEW ans, Follows(u, v, ans), Follows(v, w, ans)
    PROVE  Follows(u, w, ans)
  BY DEF Follows

LEMMA FollowsSelf ==
    ASSUME NEW w, NEW ans, World(w, ans)
    PROVE  Follows(w, w, ans)
  BY DEF Follows

(* A connection changes without becoming usable, and signals it.           *)
LEMMA Lowered ==
    ASSUME NEW w, NEW ans, World(w, ans), NEW c \in CreatedIn(w.cs), NEW x \in Connection,
           x.pwd = w.cs[c].pwd, x.open = w.cs[c].open, Usable(x) => Usable(w.cs[c]),
           NEW cs, cs = [w.cs EXCEPT ![c] = x],
           NEW v, v = [cs |-> cs, ch |-> SortAndUpdate(w.ch, cs)]
    PROVE  Follows(v, w, ans)
  <1>1. w.cs \in Conns /\ w.ch \in Channel /\ c \in Conn /\ x # NULL
    BY FieldTypes DEF World, Good, Sortable, CreatedIn
  <1>2. cs \in Conns /\ cs[c] = x /\ \A d \in Conn : d # c => cs[d] = w.cs[d]
    BY <1>1 DEF Conns
  <1>3. CreatedIn(cs) = CreatedIn(w.cs)
    BY <1>1, <1>2 DEF CreatedIn
  <1>4. \A d \in CreatedIn(cs) : /\ cs[d].pwd = w.cs[d].pwd /\ cs[d].open = w.cs[d].open
                                 /\ Usable(cs[d]) => Usable(w.cs[d])
    <2>1. \A d \in CreatedIn(cs) : d \in Conn
      BY DEF CreatedIn
    <2> QED BY <1>2, <2>1
  <1>5. KeysIn(cs, ans)
    BY <1>3, <1>4 DEF World, KeysIn
  <1>6. Sortable(cs, w.ch)
    BY <1>1, <1>2, <1>3 DEF World, Good, Sortable
  <1>7. (\E d \in CreatedIn(cs) : Usable(cs[d])) => w.ch.pinging /\ w.ch.selected # NULL
    <2> SUFFICES ASSUME NEW d \in CreatedIn(cs), Usable(cs[d])
                 PROVE  w.ch.pinging /\ w.ch.selected # NULL
      OBVIOUS
    <2>1. d \in CreatedIn(w.cs) /\ Usable(w.cs[d])
      BY <1>3, <1>4
    <2>2. w.cs[d].pwd
      BY <2>1 DEF World, KeysIn
    <2> QED BY <2>1, <2>2 DEF World, Good, Chosen, Starts
  <1>8. PICK r : r = SortAndUpdate(w.ch, cs)
    OBVIOUS
  <1>9. Awaited(cs, w.ch)
    BY <1>7 DEF Awaited
  <1>10. Good(cs, r) /\ Remembers(cs, w.ch, r)
    BY <1>6, <1>8, <1>9, Updated
  <1>11. /\ r.been = (w.ch.been \/ r.writable)
         /\ (\A d \in CreatedIn(cs) : ~Usable(cs[d])) => r.been = w.ch.been
    BY <1>10 DEF Remembers
  <1>12. r.been = w.ch.been
    <2>1. CASE w.ch.been
      BY <1>11, <2>1
    <2>2. CASE ~w.ch.been
      <3>1. w.ch.selected = NULL
        BY <1>6, <2>2 DEF Sortable
      <3> QED BY <1>7, <1>11, <3>1
    <2> QED BY <2>1, <2>2
  <1>13. v.cs = cs /\ v.ch = r
    BY <1>8
  <1>14. \A d \in Conn : w.cs[d].pwd => cs[d].pwd
    BY <1>2
  <1> QED BY <1>3, <1>5, <1>10, <1>12, <1>13, <1>14 DEF Follows, World

(* set_write_state() to a worse state.                                     *)
LEMMA LoweredWrite ==
    ASSUME NEW w, NEW ans, World(w, ans), NEW c \in CreatedIn(w.cs),
           NEW s \in {"UNRELIABLE", "TIMEOUT"}, s = "UNRELIABLE" => Usable(w.cs[c])
    PROVE  Follows(SetWrite(w, c, s), w, ans)
  <1>1. CASE w.cs[c].write = s
    BY <1>1, FollowsSelf DEF SetWrite
  <1>2. CASE w.cs[c].write # s
    <2>1. PICK x : x = [w.cs[c] EXCEPT !.write = s]
      OBVIOUS
    <2>2. PICK cs : cs = [w.cs EXCEPT ![c].write = s]
      OBVIOUS
    <2>3. w.cs \in Conns /\ c \in Conn /\ w.cs[c] \in Connection
      BY DEF World, Good, Sortable, CreatedIn, Conns
    <2>4. x \in Connection /\ x.write = s /\ x.pwd = w.cs[c].pwd /\ x.open = w.cs[c].open
      BY <2>1, <2>3 DEF Connection
    <2>5. Usable(x) => Usable(w.cs[c])
      BY <2>4 DEF Usable
    <2>6. cs = [w.cs EXCEPT ![c] = x]
      BY <2>1, <2>2, <2>3 DEF Conns
    <2>7. PICK v : v = [cs |-> cs, ch |-> SortAndUpdate(w.ch, cs)]
      OBVIOUS
    <2>8. Follows(v, w, ans)
      BY <2>4, <2>5, <2>6, <2>7, Lowered
    <2>9. SetWrite(w, c, s) = v
      BY <1>2, <2>2, <2>7 DEF SetWrite
    <2> QED BY <2>8, <2>9
  <1> QED BY <1>1, <1>2

(* A change of the receiving flag.                                         *)
LEMMA KeptReceiving ==
    ASSUME NEW w, NEW ans, World(w, ans), NEW c \in CreatedIn(w.cs), NEW b \in BOOLEAN
    PROVE  Follows(SetReceiving(w, c, b), w, ans)
  <1>1. CASE w.cs[c].receiving = b
    BY <1>1, FollowsSelf DEF SetReceiving
  <1>2. CASE w.cs[c].receiving # b
    <2>1. PICK x : x = [w.cs[c] EXCEPT !.receiving = b]
      OBVIOUS
    <2>2. PICK cs : cs = [w.cs EXCEPT ![c].receiving = b]
      OBVIOUS
    <2>3. w.cs \in Conns /\ c \in Conn /\ w.cs[c] \in Connection
      BY DEF World, Good, Sortable, CreatedIn, Conns
    <2>4. /\ x \in Connection /\ x.write = w.cs[c].write
          /\ x.pwd = w.cs[c].pwd /\ x.open = w.cs[c].open
      BY <2>1, <2>3 DEF Connection
    <2>5. Usable(x) => Usable(w.cs[c])
      BY <2>4 DEF Usable
    <2>6. cs = [w.cs EXCEPT ![c] = x]
      BY <2>1, <2>2, <2>3 DEF Conns
    <2>7. PICK v : v = [cs |-> cs, ch |-> SortAndUpdate(w.ch, cs)]
      OBVIOUS
    <2>8. Follows(v, w, ans)
      BY <2>4, <2>5, <2>6, <2>7, Lowered
    <2>9. SetReceiving(w, c, b) = v
      BY <1>2, <2>2, <2>7 DEF SetReceiving
    <2> QED BY <2>8, <2>9
  <1> QED BY <1>1, <1>2

(* update_receiving()                                                      *)
LEMMA KeptByReceiving ==
    ASSUME NEW w, NEW ans, World(w, ans), NEW c \in CreatedIn(w.cs)
    PROVE  Follows(UpdateReceiving(w, c), w, ans)
  <1>1. PICK b \in BOOLEAN :
           b = (w.cs[c].rtt # InitialRtt
                /\ (w.cs[c].unanswered = 0 \/ "receive" \notin w.cs[c].expired))
    OBVIOUS
  <1>2. UpdateReceiving(w, c) = SetReceiving(w, c, b)
    BY <1>1 DEF UpdateReceiving
  <1> QED BY <1>2, KeptReceiving

(* update_state()                                                          *)
LEMMA KeptByUpdate ==
    ASSUME NEW w, NEW ans, World(w, ans), NEW c \in CreatedIn(w.cs)
    PROVE  Follows(UpdateState(w, c), w, ans)
  <1>1. PICK w1 : w1 = IF w.cs[c].write = "WRITABLE" /\ "lost" \in w.cs[c].expired
                       THEN SetWrite(w, c, "UNRELIABLE") ELSE w
    OBVIOUS
  <1>2. PICK w2 : w2 = IF /\ w1.cs[c].write \in {"UNRELIABLE", "INIT"}
                          /\ "write" \in w1.cs[c].expired
                       THEN SetWrite(w1, c, "TIMEOUT") ELSE w1
    OBVIOUS
  <1>3. UpdateState(w, c) = UpdateReceiving(w2, c)
    BY <1>1, <1>2 DEF UpdateState
  <1>4. Follows(w1, w, ans)
    <2>1. CASE w.cs[c].write = "WRITABLE" /\ "lost" \in w.cs[c].expired
      <3>1. Usable(w.cs[c])
        BY <2>1 DEF Usable
      <3> QED BY <1>1, <2>1, <3>1, LoweredWrite
    <2>2. CASE ~(w.cs[c].write = "WRITABLE" /\ "lost" \in w.cs[c].expired)
      BY <1>1, <2>2, FollowsSelf
    <2> QED BY <2>1, <2>2
  <1>5. World(w1, ans) /\ c \in CreatedIn(w1.cs)
    BY <1>4 DEF Follows
  <1>6. Follows(w2, w1, ans)
    <2>1. CASE w2 = w1
      BY <1>5, <2>1, FollowsSelf
    <2>2. CASE w2 = SetWrite(w1, c, "TIMEOUT")
      BY <1>5, <2>2, LoweredWrite
    <2> QED BY <1>2, <2>1, <2>2
  <1>7. World(w2, ans) /\ c \in CreatedIn(w2.cs)
    BY <1>5, <1>6 DEF Follows
  <1>8. Follows(UpdateReceiving(w2, c), w2, ans)
    BY <1>7, KeptByReceiving
  <1> QED BY <1>3, <1>4, <1>6, <1>8, FollowsOn

(* _update_connection_states(), step by step.                              *)
LEMMA UpdateSteps ==
    ASSUME NEW w, Len(w.ch.list) \in Nat
    PROVE  \E f : /\ f[0] = w /\ _update_connection_states(w) = f[Len(w.ch.list)]
                  /\ \A n \in 1 .. Len(w.ch.list) : f[n] = UpdateState(f[n - 1], w.ch.list[n])
  <1> DEFINE N == Len(w.ch.list)
             Is(f, m) == f = [n \in 0 .. m |->
                                 IF n = 0 THEN w ELSE UpdateState(f[n - 1], w.ch.list[n])]
             S == {m \in Nat : \E f : Is(f, m)}
  <1>1. 0 \in S
    <2>1. PICK f : f = [n \in 0 .. 0 |-> w]
      OBVIOUS
    <2>2. Is(f, 0)
      BY <2>1
    <2> QED BY <2>2
  <1>2. ASSUME NEW m \in Nat, m \in S PROVE m + 1 \in S
    <2>1. PICK f : Is(f, m)
      BY <1>2
    <2>2. PICK g : g = [n \in 0 .. m + 1 |->
                          IF n <= m THEN f[n] ELSE UpdateState(f[m], w.ch.list[m + 1])]
      OBVIOUS
    <2>3. Is(g, m + 1)
      <3>1. ASSUME NEW n \in 0 .. m + 1
            PROVE  g[n] = IF n = 0 THEN w ELSE UpdateState(g[n - 1], w.ch.list[n])
        <4>1. CASE n = 0
          BY <2>1, <2>2, <4>1
        <4>2. CASE n \in 1 .. m
          <5>1. g[n] = f[n] /\ g[n - 1] = f[n - 1]
            BY <2>2, <4>2
          <5>2. f[n] = UpdateState(f[n - 1], w.ch.list[n])
            BY <2>1, <4>2
          <5> QED BY <4>2, <5>1, <5>2
        <4>3. CASE n = m + 1
          <5>1. g[n] = UpdateState(f[m], w.ch.list[m + 1]) /\ g[m] = f[m] /\ n - 1 = m
            BY <2>2, <4>3
          <5> QED BY <4>3, <5>1
        <4> QED BY <4>1, <4>2, <4>3
      <3> QED BY <2>2, <3>1
    <2> QED BY <2>3
  <1>3. N \in S
    <2> HIDE DEF S
    <2> QED BY <1>1, <1>2, CountUp
  <1>4. PICK f : Is(f, N)
    BY <1>3
  <1>5. PICK F : F = CHOOSE f_1 : Is(f_1, N)
    OBVIOUS
  <1>6. Is(F, N)
    BY <1>4, <1>5
  <1>7. _update_connection_states(w) = F[N]
    BY <1>5 DEF _update_connection_states
  <1>8. F[0] = w /\ \A n \in 1 .. N : F[n] = UpdateState(F[n - 1], w.ch.list[n])
    BY <1>6
  <1> QED BY <1>7, <1>8

(* _update_connection_states(), for a list of any length.                  *)
LEMMA KeptByUpdates ==
    ASSUME NEW w, NEW ans, World(w, ans)
    PROVE  Follows(_update_connection_states(w), w, ans)
  <1> DEFINE N == Len(w.ch.list)
  <1>1. w.ch.list \in Seq(Conn) /\ N \in Nat /\ ToSet(w.ch.list) = CreatedIn(w.cs)
    BY DEF World, Good, Sortable, Lists
  <1>2. PICK f : /\ f[0] = w /\ _update_connection_states(w) = f[N]
                 /\ \A n \in 1 .. N : f[n] = UpdateState(f[n - 1], w.ch.list[n])
    BY <1>1, UpdateSteps
  <1>3. \A n \in 1 .. N : w.ch.list[n] \in CreatedIn(w.cs)
    BY <1>1 DEF ToSet
  <1> DEFINE T == {n \in Nat : n <= N => Follows(f[n], w, ans)}
  <1>4. 0 \in T
    BY <1>2, FollowsSelf
  <1>5. ASSUME NEW n \in Nat, n \in T PROVE n + 1 \in T
    <2> SUFFICES ASSUME n + 1 <= N PROVE Follows(f[n + 1], w, ans)
      OBVIOUS
    <2>1. n + 1 \in 1 .. N /\ n <= N /\ (n + 1) - 1 = n
      BY <1>1
    <2>2. PICK v : v = f[n]
      OBVIOUS
    <2>3. PICK c : c = w.ch.list[n + 1]
      OBVIOUS
    <2>4. Follows(v, w, ans)
      BY <1>5, <2>1, <2>2
    <2>5. f[n + 1] = UpdateState(v, c)
      BY <1>2, <2>1, <2>2, <2>3
    <2>6. World(v, ans) /\ c \in CreatedIn(v.cs)
      BY <1>3, <2>1, <2>3, <2>4 DEF Follows
    <2>7. Follows(UpdateState(v, c), v, ans)
      BY <2>6, KeptByUpdate
    <2> QED BY <2>4, <2>5, <2>7, FollowsOn
  <1>6. N \in T
    <2> HIDE DEF T
    <2> QED BY <1>1, <1>4, <1>5, CountUp
  <1>7. Follows(f[N], w, ans)
    BY <1>1, <1>6
  <1> QED BY <1>2, <1>7

(* The list, the states and the selection depend on nothing else.          *)
LEMMA GoodKept ==
    ASSUME NEW cs, NEW cs1 \in Conns, NEW ch, NEW ch1 \in Channel, Good(cs, ch),
           CreatedIn(cs1) = CreatedIn(cs), NEW p, ch1 = [ch EXCEPT !.pinged = p],
           \A c \in CreatedIn(cs) : /\ cs1[c].write = cs[c].write
                                    /\ cs1[c].receiving = cs[c].receiving
                                    /\ cs1[c].priority = cs[c].priority
                                    /\ cs1[c].pwd = cs[c].pwd
    PROVE  Good(cs1, ch1)
  <1>1. ch \in Channel /\ ch1 \in Channel
    BY DEF Good, Sortable
  <1>2. /\ ch1.list = ch.list /\ ch1.selected = ch.selected /\ ch1.writable = ch.writable
        /\ ch1.been = ch.been /\ ch1.receiving = ch.receiving /\ ch1.state = ch.state
        /\ ch1.pinging = ch.pinging
    BY <1>1 DEF Channel
  <1>3. Sortable(cs1, ch1)
    BY <1>1, <1>2 DEF Good, Sortable
  <1>4. /\ ch.list \in Seq(Conn) /\ ToSet(ch.list) = CreatedIn(cs)
        /\ DOMAIN ch.list = 1 .. Len(ch.list)
    BY DEF Good, Sortable, Lists
  <1>5. \A i \in 1 .. Len(ch.list) : ch.list[i] \in CreatedIn(cs)
    BY <1>4 DEF ToSet
  <1>6. \A c, d \in CreatedIn(cs) : Better(cs1[c], cs1[d]) = Better(cs[c], cs[d])
    BY DEF Better
  <1>7. \A i, j \in 1 .. Len(ch.list) : i < j => ~Better(cs1[ch.list[j]], cs1[ch.list[i]])
    BY <1>5, <1>6 DEF Good, Shown
  <1>8. Compute(ch.list, ch.been, ch.writable, cs1) = Compute(ch.list, ch.been, ch.writable, cs)
    BY <1>4 DEF Compute
  <1>9. Shown(cs1, ch1)
    <2>1. ch1.writable = (ch1.selected # NULL /\ cs1[ch1.selected].write = "WRITABLE")
      BY <1>2 DEF Good, Shown, Sortable
    <2>2. ch1.receiving = \E c \in CreatedIn(cs1) : cs1[c].receiving
      BY <1>2 DEF Good, Shown
    <2>3. ch1.state = Compute(ch1.list, ch1.been, ch1.writable, cs1)
      BY <1>2, <1>8 DEF Good, Shown
    <2> QED BY <1>2, <1>7, <2>1, <2>2, <2>3 DEF Shown
  <1>10. Chosen(cs1, ch1)
    BY <1>2 DEF Good, Chosen, Usable
  <1>11. Starts(cs1, ch1)
    BY <1>2 DEF Good, Starts
  <1> QED BY <1>3, <1>9, <1>10, <1>11 DEF Good

-----------------------------------------------------------------------------
(* How a handler may change what the channel signals.                      *)
Moves(cs, ch, cs1, ch1) ==
    /\ ch1.been = (ch.been \/ ch1.writable)
    /\ CreatedIn(cs) \subseteq CreatedIn(cs1)
    /\ ch.list = <<>> => ch1.state \in {"new", "checking"}

(* What the state of a channel says of its flags and its list.             *)
LEMMA Facts ==
    ASSUME NEW cs, NEW ch, Good(cs, ch)
    PROVE  /\ ch.list = <<>> <=> CreatedIn(cs) = {}
           /\ ch.writable <=> ch.state = "connected"
           /\ ch.writable => ch.been
           /\ ch.been => ch.list # <<>>
           /\ ch.list = <<>> <=> ch.state = "new"
           /\ ch.been \in BOOLEAN /\ ch.writable \in BOOLEAN
           /\ ch.state \in State
           /\ ch.been /\ ch.state # "failed" => ch.state \in {"connected", "disconnected"}
           /\ ch.state = "disconnected" => ch.been
  <1>1. /\ ch.list \in Seq(Conn) /\ ToSet(ch.list) = CreatedIn(cs)
        /\ DOMAIN ch.list = 1 .. Len(ch.list)
    BY DEF Good, Sortable, Lists
  <1>2. ch.list = <<>> <=> CreatedIn(cs) = {}
    <2>1. CASE ch.list = <<>>
      BY <1>1, <2>1 DEF ToSet
    <2>2. CASE ch.list # <<>>
      <3>1. ch.list[1] \in ToSet(ch.list)
        BY <1>1, <2>2 DEF ToSet
      <3> QED BY <1>1, <2>2, <3>1
    <2> QED BY <2>1, <2>2
  <1>3. /\ ch.been \in BOOLEAN /\ ch.writable \in BOOLEAN
        /\ ch.been = (ch.selected # NULL)
        /\ ch.selected # NULL => ch.selected \in CreatedIn(cs)
    BY DEF Good, Sortable, Channel
  <1>4. /\ ch.writable = (ch.selected # NULL /\ cs[ch.selected].write = "WRITABLE")
        /\ ch.state = Compute(ch.list, ch.been, ch.writable, cs)
    BY DEF Good, Shown
  <1>5. ch.been => ch.list # <<>>
    BY <1>2, <1>3
  <1>6. ch.writable => ch.been /\ \E c \in ToSet(ch.list) : cs[c].write # "TIMEOUT"
    BY <1>1, <1>3, <1>4
  <1>7. Fits(ch.state, ch.list, ch.been, ch.writable, cs)
    BY <1>3, <1>4, ComputeState
  <1>8. ch.list = <<>> <=> ch.state = "new"
    BY <1>3, <1>5, <1>6, <1>7 DEF Fits
  <1>9. ch.writable <=> ch.state = "connected"
    BY <1>5, <1>6, <1>7 DEF Fits
  <1>10. /\ ch.state \in State
         /\ ch.been /\ ch.state # "failed" => ch.state \in {"connected", "disconnected"}
         /\ ch.state = "disconnected" => ch.been
    BY <1>3, <1>5, <1>7 DEF Fits
  <1> QED BY <1>2, <1>3, <1>5, <1>6, <1>8, <1>9, <1>10

(* A handler that creates nothing and makes nothing usable moves nothing.  *)
LEMMA MovesOn ==
    ASSUME NEW cs, NEW ch, NEW cs1, NEW ch1, Good(cs, ch), Good(cs1, ch1),
           CreatedIn(cs1) = CreatedIn(cs), ch1.been = (ch.been \/ ch1.writable)
    PROVE  Moves(cs, ch, cs1, ch1)
  BY Facts DEF Moves

(* A step of the channel is one that IceTransport promises.                *)
LEMMA MovesPromised ==
    ASSUME NEW cs, NEW ch, NEW cs1, NEW ch1, NEW ans \in BOOLEAN, Good(cs, ch), Good(cs1, ch1),
           KeysIn(cs1, ans), Moves(cs, ch, cs1, ch1)
    PROVE  \/ /\ ch1.state = ch.state /\ ch1.writable = ch.writable
              /\ ch1.been = ch.been
           \/ /\ ch1.state \in Promise!After(ch.state, ch.been)
              /\ ch1.writable = (ch1.state = "connected")
              /\ ch1.writable => ans
              /\ ch1.been = (ch.been \/ ch1.writable)
  <1>1. PICK old : old = ch.state
    OBVIOUS
  <1>2. PICK new : new = ch1.state
    OBVIOUS
  <1>3. PICK b \in BOOLEAN : b = ch.been
    BY Facts
  <1>4. PICK b1 \in BOOLEAN : b1 = ch1.been
    BY Facts
  <1>5. /\ old \in State /\ (ch.list = <<>> <=> old = "new")
        /\ ch.writable \in BOOLEAN /\ (ch.writable <=> old = "connected")
        /\ b /\ old # "failed" => old \in {"connected", "disconnected"}
        /\ old \in {"connected", "disconnected"} => b
    BY <1>1, <1>3, Facts
  <1>6. /\ new \in State /\ (ch1.list = <<>> <=> new = "new")
        /\ ch1.writable \in BOOLEAN /\ (ch1.writable <=> new = "connected")
        /\ b1 /\ new # "failed" => new \in {"connected", "disconnected"}
        /\ new \in {"connected", "disconnected"} => b1
    BY <1>2, <1>4, Facts
  <1>7. old # "new" => new # "new"
    <2>1. ch.list = <<>> <=> CreatedIn(cs) = {}
      BY Facts
    <2>2. ch1.list = <<>> <=> CreatedIn(cs1) = {}
      BY Facts
    <2> QED BY <1>5, <1>6, <2>1, <2>2 DEF Moves
  <1>8. /\ b1 = (b \/ new = "connected")
        /\ old = "new" => new \in {"new", "checking"}
    BY <1>2, <1>3, <1>4, <1>5, <1>6 DEF Moves
  <1>9. ch1.writable => ans
    <2> SUFFICES ASSUME ch1.writable PROVE ans
      OBVIOUS
    <2>1. ch1.selected \in CreatedIn(cs1) /\ Usable(cs1[ch1.selected])
      BY DEF Good, Sortable, Shown, Usable
    <2> QED BY <2>1 DEF KeysIn
  <1>10. CASE new = old
    <2>1. ch1.writable = ch.writable
      BY <1>5, <1>6, <1>10
    <2>2. b1 = b
      BY <1>5, <1>8, <1>10
    <2> QED BY <1>1, <1>2, <1>3, <1>4, <1>10, <2>1, <2>2
  <1>11. CASE new # old
    <2>1. new \in Promise!After(old, b)
      <3>1. CASE old = "new"
        BY <1>8, <1>11, <3>1 DEF Promise!After
      <3>2. CASE old = "checking"
        BY <1>5, <1>6, <1>7, <1>8, <1>11, <3>2 DEF Promise!After, State
      <3>3. CASE old = "connected"
        BY <1>5, <1>6, <1>7, <1>8, <1>11, <3>3 DEF Promise!After, State
      <3>4. CASE old = "disconnected"
        BY <1>5, <1>6, <1>7, <1>8, <1>11, <3>4 DEF Promise!After, State
      <3>5. CASE old = "failed"
        BY <1>5, <1>6, <1>7, <1>8, <1>11, <3>5 DEF Promise!After, State
      <3> QED BY <1>5, <3>1, <3>2, <3>3, <3>4, <3>5 DEF State
    <2>2. ch1.writable = (ch1.state = "connected") /\ ch1.been = (ch.been \/ ch1.writable)
      BY <1>2, <1>6 DEF Moves
    <2> QED BY <1>1, <1>2, <1>3, <1>9, <2>1, <2>2
  <1> QED BY <1>10, <1>11

-----------------------------------------------------------------------------
(* The inductive invariant.                                                *)
Course == TypeOK /\ Good(conns, channel) /\ KeysIn(conns, answered)

(* The invariant, as the lemmas above want it.                             *)
LEMMA CourseBase == Course => /\ conns \in Conns /\ channel \in Channel /\ answered \in BOOLEAN
                              /\ Sortable(conns, channel) /\ World([cs |-> conns, ch |-> channel], answered)
  BY DEF Course, TypeOK, Good, Sortable, World

(* A new channel.                                                          *)
LEMMA CourseInit == Init => Course
  <1> SUFFICES ASSUME Init PROVE Course
    OBVIOUS
  <1>1. CreatedIn(conns) = {}
    BY DEF Init, CreatedIn
  <1>2. TypeOK
    <2>1. conns \in [Conn -> Connection \cup {NULL}]
      BY DEF Init
    <2>2. <<>> \in Seq(Conn) /\ {} \in SUBSET Conn /\ "new" \in State
      BY DEF State
    <2>3. channel \in Channel
      BY <2>2 DEF Init, Channel
    <2> QED BY <2>1, <2>2, <2>3 DEF Init, TypeOK
  <1>3. channel.list = <<>> /\ channel.selected = NULL /\ channel.writable = FALSE
        /\ channel.been = FALSE /\ channel.receiving = FALSE /\ channel.state = "new"
    BY DEF Init
  <1>4. Sortable(conns, channel)
    <2>1. Len(<<>>) = 0 /\ ToSet(<<>>) = {} /\ <<>> \in Seq(Conn)
      BY DEF ToSet
    <2>2. Lists(<<>>, {})
      BY <2>1 DEF Lists
    <2> QED BY <1>1, <1>2, <1>3, <2>2 DEF TypeOK, Sortable, Conns
  <1>5. Shown(conns, channel)
    <2>1. Len(channel.list) = 0
      BY <1>3
    <2>2. channel.state = Compute(channel.list, channel.been, channel.writable, conns)
      BY <1>3 DEF Compute
    <2>3. channel.writable = (channel.selected # NULL /\ conns[channel.selected].write = "WRITABLE")
      BY <1>3
    <2>4. channel.receiving = \E c \in CreatedIn(conns) : conns[c].receiving
      BY <1>1, <1>3
    <2>5. \A i, j \in 1 .. Len(channel.list) :
             i < j => ~Better(conns[channel.list[j]], conns[channel.list[i]])
      BY <2>1
    <2> QED BY <2>2, <2>3, <2>4, <2>5 DEF Shown
  <1>6. Chosen(conns, channel) /\ Starts(conns, channel) /\ KeysIn(conns, answered)
    BY <1>1 DEF Chosen, Starts, KeysIn
  <1> QED BY <1>2, <1>4, <1>5, <1>6 DEF Course, Good

(* A connection is created and put into the list.                          *)
LEMMA KeepsUnknown ==
    ASSUME Course, NEW c \in Conn, NEW u \in {"answer", "other"}, NEW p \in Priority,
           _on_unknown_address(c, u, p)
    PROVE  Course' /\ Moves(conns, channel, conns', channel') /\ answered' = answered
  <1> USE CourseBase
  <1>1. PICK x : x = [write |-> "INIT", receiving |-> FALSE, ufrag |-> u, pwd |-> answered,
                      priority |-> p, rtt |-> InitialRtt, unanswered |-> 0, open |-> 0,
                      pings |-> 0, expired |-> {"interval"}]
    OBVIOUS
  <1>2. PICK cs : cs = [conns EXCEPT ![c] = x]
    OBVIOUS
  <1>3. PICK ch : ch = [channel EXCEPT !.list = Append(@, c)]
    OBVIOUS
  <1>4. conns' = cs /\ channel' = SortAndUpdate(ch, cs) /\ conns[c] = NULL
        /\ UNCHANGED <<due, last, answered, gone>>
    BY <1>1, <1>2, <1>3 DEF _on_unknown_address, create_connection, Unknown
  <1>5. x \in Connection /\ x.write = "INIT" /\ x.open = 0 /\ x.pwd = answered /\ ~Usable(x)
        /\ x # NULL
    <2>1. 0 \in 0 .. Fails /\ 0 \in 0 .. MinPings
      BY FailsAssumption
    <2>2. x \in Connection
      BY <1>1, <2>1 DEF Connection, Timer
    <2> QED BY <1>1, <2>2, NullAssumption DEF Usable
  <1>6. cs \in Conns /\ cs[c] = x /\ \A d \in Conn : d # c => cs[d] = conns[d]
    BY <1>2, <1>5 DEF Conns
  <1>7. CreatedIn(cs) = CreatedIn(conns) \cup {c} /\ c \notin CreatedIn(conns)
    BY <1>4, <1>5, <1>6 DEF CreatedIn
  <1>8. ch \in Channel /\ ch.list = Append(channel.list, c) /\ ch.selected = channel.selected
        /\ ch.been = channel.been /\ ch.pinging = channel.pinging
    <2>1. channel \in Channel /\ channel.list \in Seq(Conn)
      BY DEF Channel
    <2>0. PICK k \in Seq(Conn) : k = channel.list
      BY <2>1
    <2>3a. PICK l : l = Append(k, c)
      OBVIOUS
    <2>2. l \in Seq(Conn) /\ l = Append(k, c)
      BY <2>3a
    <2>3. ch = [channel EXCEPT !.list = l]
      BY <1>3, <2>0, <2>1, <2>2 DEF Channel
    <2> QED BY <2>0, <2>1, <2>2, <2>3 DEF Channel
  <1>9. Lists(ch.list, CreatedIn(cs))
    <2>1. PICK l : l = channel.list
      OBVIOUS
    <2>2. /\ l \in Seq(Conn) /\ ToSet(l) = CreatedIn(conns) /\ DOMAIN l = 1 .. Len(l)
          /\ \A i, j \in 1 .. Len(l) : l[i] = l[j] => i = j
      BY <2>1 DEF Sortable, Lists
    <2>3. PICK m : m = Append(l, c)
      OBVIOUS
    <2>4. /\ m \in Seq(Conn) /\ Len(m) = Len(l) + 1 /\ m[Len(l) + 1] = c
          /\ \A i \in 1 .. Len(l) : m[i] = l[i]
      BY <2>2, <2>3
    <2>5. DOMAIN m = 1 .. Len(l) + 1
      BY <2>4
    <2>6. \A i \in 1 .. Len(l) : l[i] # c
      BY <1>7, <2>2 DEF ToSet
    <2>7. Len(l) \in Nat
      BY <2>2
    <2>8. \A i : i \in 1 .. Len(l) + 1 <=> i \in 1 .. Len(l) \/ i = Len(l) + 1
      BY <2>7
    <2>9. ToSet(m) = ToSet(l) \cup {c}
      BY <2>2, <2>4, <2>5, <2>8 DEF ToSet
    <2>10. \A i, j \in 1 .. Len(m) : m[i] = m[j] => i = j
      BY <2>2, <2>4, <2>6, <2>8
    <2> QED BY <1>7, <1>8, <2>1, <2>2, <2>3, <2>4, <2>9, <2>10 DEF Lists
  <1>10. Sortable(cs, ch)
    BY <1>6, <1>7, <1>8, <1>9 DEF Sortable
  <1>11. \A d \in CreatedIn(cs) : Usable(cs[d]) => d \in CreatedIn(conns) /\ Usable(conns[d])
    BY <1>5, <1>6, <1>7 DEF CreatedIn
  <1>12. (\E d \in CreatedIn(cs) : Usable(cs[d])) => ch.pinging /\ ch.selected # NULL
    <2> SUFFICES ASSUME NEW d \in CreatedIn(cs), Usable(cs[d])
                 PROVE  channel.pinging /\ channel.selected # NULL
      BY <1>8
    <2>1. d \in CreatedIn(conns) /\ Usable(conns[d])
      BY <1>11
    <2>2. conns[d].pwd
      BY <2>1 DEF Course, KeysIn
    <2> QED BY <2>1, <2>2 DEF Course, Good, Chosen, Starts
  <1>13. Awaited(cs, ch)
    BY <1>12 DEF Awaited
  <1>14. PICK r : r = SortAndUpdate(ch, cs)
    OBVIOUS
  <1>15. Good(cs, r) /\ Remembers(cs, ch, r)
    BY <1>10, <1>13, <1>14, Updated
  <1>16. KeysIn(cs, answered)
    <2> SUFFICES ASSUME NEW d \in CreatedIn(cs)
                 PROVE  /\ cs[d].open > 0 \/ Usable(cs[d]) => cs[d].pwd
                        /\ cs[d].pwd => answered
      BY DEF KeysIn
    <2>1. CASE d = c
      BY <1>5, <1>6, <2>1
    <2>2. CASE d # c
      <3>1. d \in CreatedIn(conns) /\ cs[d] = conns[d]
        BY <1>6, <1>7, <2>2 DEF CreatedIn
      <3> QED BY <3>1 DEF Course, KeysIn
    <2> QED BY <2>1, <2>2
  <1>17. channel.list = <<>> => r.state = "checking"
    <2> SUFFICES ASSUME channel.list = <<>> PROVE r.state = "checking"
      OBVIOUS
    <2>1. CreatedIn(cs) = {c}
      <3>1. CreatedIn(conns) = {}
        BY Facts DEF Course
      <3> QED BY <1>7, <3>1
    <2>2. ~r.been
      <3>1. ~channel.been
        BY Facts DEF Course
      <3>2. \A d \in CreatedIn(cs) : ~Usable(cs[d])
        BY <1>5, <1>6, <2>1
      <3> QED BY <1>8, <1>15, <3>1, <3>2 DEF Remembers
    <2>3. r.list # <<>> /\ ~r.writable /\ r.been \in BOOLEAN /\ r.writable \in BOOLEAN
      <3>1. r.list # <<>>
        BY <1>15, <2>1, Facts
      <3>2. r.writable => r.been
        BY <1>15, Facts
      <3>3. r.been \in BOOLEAN /\ r.writable \in BOOLEAN
        BY <1>15, Facts
      <3> QED BY <2>2, <3>1, <3>2, <3>3
    <2>4. Fits(r.state, r.list, r.been, r.writable, cs)
      BY <1>15, <2>3, ComputeState DEF Good, Shown
    <2>5. \E d \in ToSet(r.list) : cs[d].write # "TIMEOUT"
      <3>1. ToSet(r.list) = {c}
        BY <1>15, <2>1 DEF Good, Sortable, Lists
      <3> QED BY <1>5, <1>6, <3>1
    <2> QED BY <2>2, <2>3, <2>4, <2>5 DEF Fits
  <1>18. Moves(conns, channel, cs, r)
    BY <1>7, <1>8, <1>15, <1>17 DEF Moves, Remembers
  <1>19. TypeOK'
    BY <1>4, <1>6, <1>14, <1>15 DEF Course, TypeOK, Good, Sortable, Conns
  <1> QED BY <1>4, <1>14, <1>15, <1>16, <1>18, <1>19 DEF Course

(* The answer.  Before it no connection is usable: nothing is signalled.   *)
LEMMA KeepsAnswer ==
    ASSUME Course, set_remote_ice_params
    PROVE  /\ Course' /\ answered' = TRUE
           /\ Moves(conns, channel, conns', channel')
           /\ ~answered => /\ channel'.state = channel.state
                           /\ channel'.writable = channel.writable
                           /\ channel'.been = channel.been
  <1> USE CourseBase
  <1>1. PICK cs : cs = WithPassword(conns)
    OBVIOUS
  <1>2. PICK r : r = SortAndUpdate(channel, cs)
    OBVIOUS
  <1>3. conns' = cs /\ channel' = r /\ answered' = TRUE /\ UNCHANGED <<due, last, gone>>
    BY <1>1, <1>2 DEF set_remote_ice_params
  <1>4. ASSUME NEW d \in Conn
        PROVE  /\ cs[d] \in Connection \cup {NULL}
               /\ cs[d] = NULL <=> conns[d] = NULL
               /\ conns[d] # NULL => /\ cs[d].write = conns[d].write
                                     /\ cs[d].open = conns[d].open
                                     /\ conns[d].pwd => cs[d].pwd
    <2>1. cs[d] = IF conns[d] # NULL /\ conns[d].ufrag = "answer"
                  THEN [conns[d] EXCEPT !.pwd = TRUE] ELSE conns[d]
      BY <1>1 DEF WithPassword
    <2>2. conns[d] \in Connection \cup {NULL}
      BY DEF Conns
    <2>3. CASE conns[d] # NULL /\ conns[d].ufrag = "answer"
      <3>1. PICK x \in Connection : x = conns[d]
        BY <2>2, <2>3
      <3>2. PICK y : y = [x EXCEPT !.pwd = TRUE]
        OBVIOUS
      <3>3. y \in Connection /\ y.write = x.write /\ y.open = x.open /\ y.pwd
        BY <3>2 DEF Connection
      <3>4. cs[d] = y
        BY <2>1, <2>3, <3>1, <3>2
      <3> QED BY <2>3, <3>1, <3>3, <3>4, NullAssumption
    <2>4. CASE ~(conns[d] # NULL /\ conns[d].ufrag = "answer")
      BY <2>1, <2>2, <2>4
    <2> QED BY <2>3, <2>4
  <1>5. cs \in Conns
    <2>1. cs = [d \in Conn |-> cs[d]]
      BY <1>1 DEF WithPassword
    <2> QED BY <1>4, <2>1 DEF Conns
  <1>6. CreatedIn(cs) = CreatedIn(conns)
    BY <1>4 DEF CreatedIn
  <1>7. \A d \in CreatedIn(conns) : /\ Usable(cs[d]) <=> Usable(conns[d])
                                    /\ cs[d].open = conns[d].open
                                    /\ cs[d].write = conns[d].write
                                    /\ conns[d].pwd => cs[d].pwd
    BY <1>4 DEF CreatedIn, Usable
  <1>8. Sortable(cs, channel)
    BY <1>5, <1>6 DEF Sortable
  <1>9. Awaited(cs, channel)
    <2> SUFFICES ASSUME NEW d \in CreatedIn(conns), Usable(conns[d])
                 PROVE  channel.pinging /\ channel.selected # NULL
      BY <1>6, <1>7 DEF Awaited
    <2>1. conns[d].pwd
      BY DEF Course, KeysIn
    <2> QED BY <2>1 DEF Course, Good, Chosen, Starts
  <1>10. Good(cs, r) /\ Remembers(cs, channel, r)
    BY <1>2, <1>8, <1>9, Updated
  <1>11. KeysIn(cs, TRUE)
    BY <1>6, <1>7 DEF Course, KeysIn
  <1>12. channel.list = <<>> => r.state = "new"
    <2>1. channel.list = <<>> <=> CreatedIn(conns) = {}
      BY Facts DEF Course
    <2>2. r.list = <<>> <=> CreatedIn(cs) = {}
      BY <1>10, Facts
    <2>3. r.list = <<>> <=> r.state = "new"
      BY <1>10, Facts
    <2> QED BY <1>6, <2>1, <2>2, <2>3
  <1>13. Moves(conns, channel, cs, r)
    BY <1>6, <1>10, <1>12 DEF Moves, Remembers
  <1>14. TypeOK'
    BY <1>3, <1>5, <1>10 DEF Course, TypeOK, Good, Sortable, Conns
  <1>15. ASSUME ~answered
         PROVE  r.state = channel.state /\ r.writable = channel.writable /\ r.been = channel.been
    <2>1. \A d \in CreatedIn(conns) : ~Usable(conns[d])
      BY <1>15 DEF Course, KeysIn
    <2>2. r.been = channel.been
      BY <1>6, <1>7, <1>10, <2>1 DEF Remembers
    <2>3. ~channel.writable
      BY <2>1 DEF Course, Good, Sortable, Shown, Usable
    <2>4. ~r.writable
      BY <1>6, <1>7, <1>10, <2>1 DEF Good, Sortable, Shown, Usable
    <2>5. /\ channel.writable \in BOOLEAN
          /\ channel.list = <<>> <=> CreatedIn(conns) = {}
      BY Facts DEF Course
    <2>6. /\ r.writable \in BOOLEAN
          /\ r.list = <<>> <=> CreatedIn(cs) = {}
      BY <1>10, Facts
    <2>7. ToSet(channel.list) = CreatedIn(conns) /\ ToSet(r.list) = CreatedIn(cs)
      BY <1>10 DEF Course, Good, Sortable, Lists
    <2>8. Compute(r.list, r.been, r.writable, cs)
          = Compute(channel.list, channel.been, channel.writable, conns)
      <3>1. PICK l : l = channel.list
        OBVIOUS
      <3>2. PICK m : m = r.list
        OBVIOUS
      <3>3. ToSet(m) = ToSet(l) /\ (m = <<>> <=> l = <<>>)
            /\ \A d \in ToSet(l) : cs[d].write = conns[d].write
        BY <1>6, <1>7, <2>5, <2>6, <2>7, <3>1, <3>2
      <3>4. \A b, w : Compute(m, b, w, cs) = Compute(l, b, w, conns)
        <4>1. (\A d \in ToSet(m) : cs[d].write = "TIMEOUT")
              <=> (\A d \in ToSet(l) : conns[d].write = "TIMEOUT")
          BY <3>3
        <4> QED BY <3>3, <4>1 DEF Compute
      <3>5. r.writable = channel.writable
        BY <2>3, <2>4, <2>5, <2>6
      <3> QED BY <2>2, <3>1, <3>2, <3>4, <3>5
    <2>9. r.state = channel.state
      BY <1>10, <2>8 DEF Course, Good, Shown
    <2> QED BY <2>2, <2>3, <2>4, <2>5, <2>6, <2>9
  <1> QED BY <1>3, <1>10, <1>11, <1>13, <1>14, <1>15 DEF Course

(* A response, the only event that makes a connection usable.              *)
LEMMA KeepsResponse ==
    ASSUME Course, NEW c \in Conn, NEW r \in Rtt, received_ping_response(c, r)
    PROVE  Course' /\ Moves(conns, channel, conns', channel') /\ answered' = answered
  <1> USE CourseBase
  <1>1. /\ conns[c] # NULL /\ conns[c].open > 0
        /\ UNCHANGED <<due, last, answered, gone>>
    BY DEF received_ping_response, Acceptable
  <1>2. conns[c] \in Connection
    BY <1>1 DEF Conns
  <1>3a. PICK rtt \in Average(conns[c].rtt, r), open \in check_response(conns[c].open) :
            LET cs == [conns EXCEPT ![c].rtt = rtt, ![c].open = open, ![c].unanswered = 0,
                                    ![c].expired = @ \cap {"round", "interval"}]
                w == SetWrite(UpdateReceiving([cs |-> cs, ch |-> channel], c), c, "WRITABLE")
            IN conns' = w.cs /\ channel' = w.ch
    BY DEF received_ping_response
  <1>3b. PICK cs : cs = [conns EXCEPT ![c].rtt = rtt, ![c].open = open, ![c].unanswered = 0,
                                      ![c].expired = @ \cap {"round", "interval"}]
    OBVIOUS
  <1>3c. PICK w : w = SetWrite(UpdateReceiving([cs |-> cs, ch |-> channel], c), c, "WRITABLE")
    OBVIOUS
  <1>3. /\ cs = [conns EXCEPT ![c].rtt = rtt, ![c].open = open, ![c].unanswered = 0,
                              ![c].expired = @ \cap {"round", "interval"}]
        /\ w = SetWrite(UpdateReceiving([cs |-> cs, ch |-> channel], c), c, "WRITABLE")
        /\ conns' = w.cs /\ channel' = w.ch
    BY <1>3a, <1>3b, <1>3c
  <1>4. rtt \in Rtt \cup {InitialRtt} /\ open \in 0 .. Fails
    <2>1. rtt \in Rtt \cup {InitialRtt}
      BY DEF Average
    <2>2. conns[c].open \in 0 .. Fails /\ Fails \in Nat
      BY <1>2, FieldTypes, FailsAssumption
    <2>3. open = conns[c].open - 1 \/ open = Fails
      BY DEF check_response
    <2> QED BY <1>1, <2>1, <2>2, <2>3
  <1>5. PICK x : x = [conns[c] EXCEPT !.rtt = rtt, !.open = open, !.unanswered = 0,
                                      !.expired = @ \cap {"round", "interval"}]
    OBVIOUS
  <1>6. /\ x \in Connection /\ x.write = conns[c].write /\ x.receiving = conns[c].receiving
        /\ x.priority = conns[c].priority /\ x.pwd = conns[c].pwd /\ x # NULL
    <2>1. 0 \in 0 .. Fails
      BY FailsAssumption
    <2>2. PICK y \in Connection : y = conns[c]
      BY <1>2
    <2>3. y.expired \cap {"round", "interval"} \in SUBSET (Timer \cup {"round"})
      BY DEF Connection
    <2>4. x = [y EXCEPT !.rtt = rtt, !.open = open, !.unanswered = 0,
                        !.expired = y.expired \cap {"round", "interval"}]
      BY <1>5, <2>2 DEF Connection
    <2>5. x \in Connection
      BY <1>4, <2>1, <2>3, <2>4 DEF Connection
    <2>6. /\ x.write = y.write /\ x.receiving = y.receiving
          /\ x.priority = y.priority /\ x.pwd = y.pwd
      BY <2>4 DEF Connection
    <2> QED BY <2>2, <2>5, <2>6, NullAssumption
  <1>7. cs = [conns EXCEPT ![c] = x]
    BY <1>2, <1>3, <1>5 DEF Conns, Connection
  <1>8. cs \in Conns /\ cs[c] = x /\ \A d \in Conn : d # c => cs[d] = conns[d]
    BY <1>6, <1>7 DEF Conns
  <1>9. CreatedIn(cs) = CreatedIn(conns) /\ c \in CreatedIn(conns)
    BY <1>1, <1>6, <1>8 DEF CreatedIn
  <1>10. \A d \in CreatedIn(conns) : /\ cs[d].write = conns[d].write
                                     /\ cs[d].receiving = conns[d].receiving
                                     /\ cs[d].priority = conns[d].priority
                                     /\ cs[d].pwd = conns[d].pwd
                                     /\ d # c => cs[d].open = conns[d].open
    BY <1>6, <1>8 DEF CreatedIn
  <1>11. Good(cs, channel)
    <2>1. channel = [channel EXCEPT !.pinged = channel.pinged]
      BY DEF Channel
    <2> QED BY <1>8, <1>9, <1>10, <2>1, GoodKept DEF Course
  <1>12. conns[c].pwd /\ cs[c].pwd
    BY <1>1, <1>9, <1>10 DEF Course, KeysIn
  <1>13. KeysIn(cs, answered)
    <2> SUFFICES ASSUME NEW d \in CreatedIn(conns)
                 PROVE  /\ cs[d].open > 0 \/ Usable(cs[d]) => cs[d].pwd
                        /\ cs[d].pwd => answered
      BY <1>9 DEF KeysIn
    <2>1. CASE d = c
      BY <1>9, <1>10, <1>12, <2>1 DEF Course, KeysIn
    <2>2. CASE d # c
      BY <1>10, <2>2 DEF Course, KeysIn, Usable
    <2> QED BY <2>1, <2>2
  <1>14. PICK w0 : w0 = [cs |-> cs, ch |-> channel]
    OBVIOUS
  <1>15. World(w0, answered) /\ c \in CreatedIn(w0.cs) /\ w0.cs = cs /\ w0.ch = channel
    BY <1>9, <1>11, <1>13, <1>14 DEF World
  <1>16. PICK v : v = UpdateReceiving(w0, c)
    OBVIOUS
  <1>17. Follows(v, w0, answered)
    BY <1>15, <1>16, KeptByReceiving
  <1>18. /\ World(v, answered) /\ CreatedIn(v.cs) = CreatedIn(conns)
         /\ v.ch.been = channel.been /\ v.cs[c].pwd
    BY <1>9, <1>12, <1>15, <1>17 DEF Follows
  <1>19. w = SetWrite(v, c, "WRITABLE")
    BY <1>3, <1>14, <1>16
  <1>20. /\ World(w, answered) /\ CreatedIn(w.cs) = CreatedIn(conns)
         /\ w.ch.been = (channel.been \/ w.ch.writable)
    <2>1. CASE v.cs[c].write = "WRITABLE"
      <3>1. w = v
        BY <1>19, <2>1 DEF SetWrite
      <3>2. v.ch.writable => v.ch.been
        BY <1>18, Facts DEF World
      <3>3. v.ch.been \in BOOLEAN
        BY <1>18, Facts DEF World
      <3> QED BY <1>18, <3>1, <3>2, <3>3
    <2>2. CASE v.cs[c].write # "WRITABLE"
      <3>1. PICK cs2 : cs2 = [v.cs EXCEPT ![c].write = "WRITABLE"]
        OBVIOUS
      <3>2. PICK y : y = [v.cs[c] EXCEPT !.write = "WRITABLE"]
        OBVIOUS
      <3>3. v.cs \in Conns /\ v.cs[c] \in Connection /\ Sortable(v.cs, v.ch)
        BY <1>9, <1>18 DEF World, Good, Sortable, CreatedIn, Conns
      <3>4. y \in Connection /\ y.write = "WRITABLE" /\ y.pwd = v.cs[c].pwd /\ y # NULL
        BY <3>2, <3>3, NullAssumption DEF Connection
      <3>5. cs2 = [v.cs EXCEPT ![c] = y]
        BY <3>1, <3>2, <3>3 DEF Conns
      <3>6. cs2 \in Conns /\ cs2[c] = y /\ \A d \in Conn : d # c => cs2[d] = v.cs[d]
        BY <3>3, <3>4, <3>5 DEF Conns
      <3>7. CreatedIn(cs2) = CreatedIn(v.cs) /\ c \in CreatedIn(v.cs)
        BY <1>9, <1>18, <3>4, <3>6 DEF CreatedIn
      <3>8. Sortable(cs2, v.ch)
        BY <3>3, <3>6, <3>7 DEF Sortable
      <3>9. \A d \in CreatedIn(v.cs) : d # c => cs2[d] = v.cs[d]
        BY <3>6 DEF CreatedIn
      <3>10. Awaited(cs2, v.ch)
        <4>1. v.ch.pinging
          BY <1>18, <3>7 DEF World, Good, Starts
        <4>2. ASSUME v.ch.selected = NULL, NEW d \in CreatedIn(cs2), Usable(cs2[d])
              PROVE  cs2[d].write = "WRITABLE"
          <5>1. CASE d = c
            BY <3>4, <3>6, <5>1
          <5>2. CASE d # c
            BY <1>18, <3>7, <3>9, <4>2, <5>2 DEF World, Good, Chosen
          <5> QED BY <5>1, <5>2
        <4> QED BY <4>1, <4>2 DEF Awaited
      <3>11. PICK ch2 : ch2 = SortAndUpdate(v.ch, cs2)
        OBVIOUS
      <3>12. Good(cs2, ch2) /\ Remembers(cs2, v.ch, ch2)
        BY <3>8, <3>10, <3>11, Updated
      <3>13. KeysIn(cs2, answered)
        <4> SUFFICES ASSUME NEW d \in CreatedIn(v.cs)
                     PROVE  /\ cs2[d].open > 0 \/ Usable(cs2[d]) => cs2[d].pwd
                            /\ cs2[d].pwd => answered
          BY <3>7 DEF KeysIn
        <4>1. CASE d = c
          BY <1>18, <3>4, <3>6, <4>1 DEF World, KeysIn
        <4>2. CASE d # c
          BY <1>18, <3>9, <4>2 DEF World, KeysIn
        <4> QED BY <4>1, <4>2
      <3>14. w.cs = cs2 /\ w.ch = ch2
        BY <1>19, <2>2, <3>1, <3>11 DEF SetWrite
      <3> QED BY <1>18, <3>7, <3>12, <3>13, <3>14 DEF World, Remembers
    <2> QED BY <2>1, <2>2
  <1>21. Good(w.cs, w.ch) /\ KeysIn(w.cs, answered)
    BY <1>20 DEF World
  <1>22. Moves(conns, channel, w.cs, w.ch)
    <2>1. Good(conns, channel)
      BY DEF Course
    <2> QED BY <1>20, <1>21, <2>1, MovesOn
  <1>23. TypeOK'
    BY <1>1, <1>3, <1>21 DEF Course, TypeOK, Good, Sortable, Conns
  <1> QED BY <1>1, <1>3, <1>21, <1>22, <1>23 DEF Course

(* Pinging one connection moves it to the end of the order.                *)
LEMMA RemoveFirstType ==
    ASSUME NEW S, NEW s \in Seq(S), NEW e
    PROVE  RemoveFirst(s, e) \in Seq(S)
  <1>1. CASE ~\E i \in 1 .. Len(s) : s[i] = e
    BY <1>1 DEF RemoveFirst
  <1>2. CASE \E i \in 1 .. Len(s) : s[i] = e
    <2> DEFINE I == {i \in 1 .. Len(s) : s[i] = e}
    <2>1. I # {} /\ I \in SUBSET Nat
      BY <1>2
    <2>2. PICK m : m = Min(I)
      OBVIOUS
    <2>3. m \in I
      <3> HIDE DEF I
      <3> QED BY <2>1, <2>2, LeastIs
    <2>4. m \in 1 .. Len(s)
      BY <2>3
    <2>5. RemoveFirst(s, e) = SubSeq(s, 1, m - 1) \o SubSeq(s, m + 1, Len(s))
      BY <1>2, <2>1, <2>2 DEF RemoveFirst, RemoveAt, SelectInSeq
    <2>6. SubSeq(s, 1, m - 1) \in Seq(S)
      <3>1. m - 1 \in Int /\ \A i \in 1 .. m - 1 : s[i] \in S
        BY <2>4
      <3> QED BY <3>1, SubSeqProperties
    <2>7. SubSeq(s, m + 1, Len(s)) \in Seq(S)
      <3>1. m + 1 \in Int /\ Len(s) \in Int /\ \A i \in m + 1 .. Len(s) : s[i] \in S
        BY <2>4
      <3> QED BY <3>1, SubSeqProperties
    <2> QED BY <2>5, <2>6, <2>7, ConcatProperties
  <1> QED BY <1>1, <1>2

(* A check without a ping.                                                 *)
LEMMA KeepsCheck ==
    ASSUME Course, CheckOnly
    PROVE  Course' /\ Moves(conns, channel, conns', channel') /\ answered' = answered
  <1> USE CourseBase
  <1>1. PICK w0 : w0 = [cs |-> conns, ch |-> channel]
    OBVIOUS
  <1>2. PICK w : w = _update_connection_states(w0)
    OBVIOUS
  <1>3. World(w0, answered) /\ w0.cs = conns /\ w0.ch = channel
    BY <1>1
  <1>4. Follows(w, w0, answered)
    BY <1>2, <1>3, KeptByUpdates
  <1>5. conns' = w.cs /\ channel' = w.ch /\ UNCHANGED <<due, last, answered, gone>>
    BY <1>1, <1>2 DEF CheckOnly
  <1>6. /\ Good(w.cs, w.ch) /\ KeysIn(w.cs, answered)
        /\ CreatedIn(w.cs) = CreatedIn(conns) /\ w.ch.been = channel.been
    BY <1>3, <1>4 DEF Follows, World
  <1>7. w.ch.been = (channel.been \/ w.ch.writable)
    <2>1. (w.ch.writable => w.ch.been) /\ w.ch.been \in BOOLEAN
      BY <1>6, Facts
    <2> QED BY <1>6, <2>1
  <1>8. Moves(conns, channel, w.cs, w.ch)
    <2>1. Good(conns, channel)
      BY DEF Course
    <2> QED BY <1>6, <1>7, <2>1, MovesOn
  <1>9. TypeOK'
    BY <1>5, <1>6 DEF Course, TypeOK, Good, Sortable, Conns
  <1> QED BY <1>5, <1>6, <1>8, <1>9 DEF Course

(* Who is chosen to be pinged has a password.                              *)
LEMMA NextHasPassword ==
    ASSUME NEW w, NEW ans, World(w, ans), NEW found, found = FindNext(w)
    PROVE  /\ found.pinged \in SUBSET Conn
           /\ \A c \in found.next : c \in CreatedIn(w.cs) /\ w.cs[c].pwd
  <1>1. w.ch.pinged \in SUBSET Conn
    BY DEF World, Good, Sortable, Channel
  <1>2. ToSet(w.ch.list) = CreatedIn(w.cs)
    BY DEF World, Good, Sortable, Lists
  <1>3. PICK sel : sel = w.ch.selected
    OBVIOUS
  <1>4. CASE sel # NULL /\ w.cs[sel].write = "WRITABLE" /\ "interval" \in w.cs[sel].expired
    <2>1. found = [pinged |-> w.ch.pinged, next |-> {sel}]
      BY <1>3, <1>4 DEF FindNext
    <2>2. sel \in CreatedIn(w.cs) /\ Usable(w.cs[sel])
      BY <1>3, <1>4 DEF World, Good, Sortable, Usable
    <2>3. w.cs[sel].pwd
      BY <2>2 DEF World, KeysIn
    <2> QED BY <1>1, <2>1, <2>2, <2>3
  <1>5. CASE ~(sel # NULL /\ w.cs[sel].write = "WRITABLE" /\ "interval" \in w.cs[sel].expired)
    <2>1. PICK pingable : pingable = {c \in ToSet(w.ch.list) : Pingable(c, sel, w.cs)}
      OBVIOUS
    <2>2. PICK pinged : pinged = IF pingable \subseteq w.ch.pinged THEN {} ELSE w.ch.pinged
      OBVIOUS
    <2>3. found.pinged = pinged /\ found.next \subseteq pingable
      BY <1>3, <1>5, <2>1, <2>2 DEF FindNext
    <2>4. \A c \in pingable : c \in CreatedIn(w.cs) /\ w.cs[c].pwd
      BY <1>2, <2>1 DEF Pingable
    <2> QED BY <1>1, <2>2, <2>3, <2>4
  <1> QED BY <1>4, <1>5

(* A check ends a round for every connection and, for the pinged one,      *)
(* counts the ping.  Neither is anything that the list depends on.         *)
LEMMA PingTypes ==
    ASSUME NEW x \in Connection, NEW y,
           y = [x EXCEPT !.expired = @ \cup {"round"}] \/ y = Pinged([x EXCEPT !.expired = @ \cup {"round"}])
    PROVE  /\ y \in Connection /\ y.write = x.write /\ y.receiving = x.receiving
           /\ y.priority = x.priority /\ y.pwd = x.pwd
           /\ y = [x EXCEPT !.expired = @ \cup {"round"}] => y.open = x.open
  <1>1. PICK z : z = [x EXCEPT !.expired = @ \cup {"round"}]
    OBVIOUS
  <1>2. /\ z \in Connection /\ z.write = x.write /\ z.receiving = x.receiving
        /\ z.priority = x.priority /\ z.pwd = x.pwd /\ z.open = x.open
    <2>1. x.expired \cup {"round"} \in SUBSET (Timer \cup {"round"})
      BY DEF Connection
    <2> QED BY <1>1, <2>1 DEF Connection
  <1>3. CASE y = z
    BY <1>1, <1>2, <1>3
  <1>4. CASE y = Pinged(z) /\ y # z
    <2>1. /\ z.unanswered \in 0 .. Fails /\ z.open \in 0 .. Fails /\ z.pings \in 0 .. MinPings
          /\ z.expired \in SUBSET (Timer \cup {"round"})
      BY <1>2 DEF Connection
    <2>2. PICK a \in 0 .. Fails : a = Capped(z.unanswered + 1, Fails)
      BY <2>1, FailsAssumption DEF Capped
    <2>3. PICK b \in 0 .. Fails : b = Capped(z.open + 1, Fails)
      BY <2>1, FailsAssumption DEF Capped
    <2>4. PICK d \in 0 .. MinPings : d = Capped(z.pings + 1, MinPings)
      BY <2>1, FailsAssumption DEF Capped
    <2>5. PICK e \in SUBSET (Timer \cup {"round"}) : e = z.expired \ {"round", "interval"}
      BY <2>1
    <2>6. y = [z EXCEPT !.unanswered = a, !.open = b, !.pings = d, !.expired = e]
      BY <1>2, <1>4, <2>2, <2>3, <2>4, <2>5 DEF Pinged, Connection
    <2>7. y \in Connection
      BY <1>2, <2>6 DEF Connection
    <2>8. y.write = z.write /\ y.receiving = z.receiving /\ y.priority = z.priority /\ y.pwd = z.pwd
      BY <1>2, <2>6 DEF Connection
    <2> QED BY <1>1, <1>2, <1>4, <2>7, <2>8
  <1> QED BY <1>1, <1>3, <1>4

(* A check with a ping, or with nobody to ping.                            *)
LEMMA KeepsPing ==
    ASSUME Course, _on_check_and_ping
    PROVE  Course' /\ Moves(conns, channel, conns', channel') /\ answered' = answered
  <1> USE CourseBase
  <1>1. PICK w0 : w0 = [cs |-> conns, ch |-> channel]
    OBVIOUS
  <1>2. PICK w : w = _update_connection_states(w0)
    OBVIOUS
  <1>3. PICK found : found = FindNext(w)
    OBVIOUS
  <1>4. World(w0, answered) /\ w0.cs = conns /\ w0.ch = channel
    BY <1>1
  <1>5. Follows(w, w0, answered)
    BY <1>2, <1>4, KeptByUpdates
  <1>6. /\ World(w, answered) /\ Good(w.cs, w.ch) /\ KeysIn(w.cs, answered)
        /\ CreatedIn(w.cs) = CreatedIn(conns) /\ w.ch.been = channel.been
        /\ w.cs \in Conns /\ w.ch \in Channel
    BY <1>4, <1>5 DEF Follows, World, Good, Sortable
  <1>7. /\ found.pinged \in SUBSET Conn
        /\ \A c \in found.next : c \in CreatedIn(w.cs) /\ w.cs[c].pwd
    BY <1>3, <1>6, NextHasPassword
  <1>8. PICK rounds : rounds = [c \in Conn |-> IF w.cs[c] = NULL THEN NULL
                                  ELSE [w.cs[c] EXCEPT !.expired = @ \cup {"round"}]]
    OBVIOUS
  <1>9. /\ due' = FALSE /\ UNCHANGED <<answered, gone>>
        /\ \/ /\ conns' = rounds /\ channel' = [w.ch EXCEPT !.pinged = found.pinged]
              /\ UNCHANGED last
           \/ \E c \in found.next :
                 /\ conns' = [rounds EXCEPT ![c] = Pinged(@)]
                 /\ channel' = [w.ch EXCEPT !.pinged = found.pinged \cup {c}]
                 /\ last' = Append(RemoveFirst(last, c), c)
    BY <1>1, <1>2, <1>3, <1>8 DEF _on_check_and_ping
  <1>10. \A d \in Conn : rounds[d] = IF w.cs[d] = NULL THEN NULL
                                     ELSE [w.cs[d] EXCEPT !.expired = @ \cup {"round"}]
    BY <1>8
  <1>11. PICK cs : cs = conns'
    OBVIOUS
  <1>12. PICK ch : ch = channel'
    OBVIOUS
  <1>13. PICK p : ch = [w.ch EXCEPT !.pinged = p] /\ p \in SUBSET Conn
    <2>1. \A c \in found.next : c \in Conn
      BY <1>7 DEF CreatedIn
    <2>2. \E q \in SUBSET Conn : channel' = [w.ch EXCEPT !.pinged = q]
      <3>1. CASE channel' = [w.ch EXCEPT !.pinged = found.pinged]
        BY <1>7, <3>1
      <3>2. ASSUME NEW c \in found.next, channel' = [w.ch EXCEPT !.pinged = found.pinged \cup {c}]
            PROVE  \E q \in SUBSET Conn : channel' = [w.ch EXCEPT !.pinged = q]
        <4>1. found.pinged \cup {c} \in SUBSET Conn
          BY <1>7, <2>1
        <4> QED BY <3>2, <4>1
      <3> QED BY <1>9, <3>1, <3>2
    <2> QED BY <1>12, <2>2
  <1>14. ch \in Channel
    BY <1>6, <1>13 DEF Channel
  <1>15. last' \in Seq(Conn)
    <2>1. last \in Seq(Conn)
      BY DEF Course, TypeOK
    <2>2. CASE UNCHANGED last
      BY <2>1, <2>2
    <2>3. ASSUME NEW c \in found.next, last' = Append(RemoveFirst(last, c), c)
          PROVE  last' \in Seq(Conn)
      <3>1. c \in Conn
        BY <1>7 DEF CreatedIn
      <3>2. PICK s : s = RemoveFirst(last, c)
        OBVIOUS
      <3>3. s \in Seq(Conn)
        BY <2>1, <3>2, RemoveFirstType
      <3> QED BY <2>3, <3>1, <3>2, <3>3
    <2> QED BY <1>9, <2>2, <2>3
  <1>16. ASSUME NEW d \in Conn
         PROVE  /\ w.cs[d] = NULL => cs[d] = NULL
                /\ w.cs[d] # NULL =>
                      /\ cs[d] \in Connection /\ cs[d].write = w.cs[d].write
                      /\ cs[d].receiving = w.cs[d].receiving
                      /\ cs[d].priority = w.cs[d].priority /\ cs[d].pwd = w.cs[d].pwd
                      /\ cs[d].open = w.cs[d].open \/ w.cs[d].pwd
    <2>1. \/ cs[d] = rounds[d]
          \/ d \in found.next /\ cs[d] = Pinged(rounds[d])
      <3>1. CASE cs = rounds
        BY <3>1
      <3>2. ASSUME NEW c \in found.next, cs = [rounds EXCEPT ![c] = Pinged(@)]
            PROVE  \/ cs[d] = rounds[d]
                   \/ d \in found.next /\ cs[d] = Pinged(rounds[d])
        BY <1>8, <3>2
      <3> QED BY <1>9, <1>11, <3>1, <3>2
    <2>2. CASE w.cs[d] = NULL
      <3>1. d \notin found.next
        BY <1>7, <2>2 DEF CreatedIn
      <3> QED BY <1>10, <2>1, <2>2, <3>1
    <2>3. CASE w.cs[d] # NULL
      <3>1. PICK x : x = w.cs[d]
        OBVIOUS
      <3>2. PICK y : y = cs[d]
        OBVIOUS
      <3>3. x \in Connection
        BY <1>6, <2>3, <3>1 DEF Conns
      <3>4. rounds[d] = [x EXCEPT !.expired = @ \cup {"round"}]
        BY <1>10, <2>3, <3>1
      <3>5. \/ y = [x EXCEPT !.expired = @ \cup {"round"}]
            \/ x.pwd /\ y = Pinged([x EXCEPT !.expired = @ \cup {"round"}])
        BY <1>7, <2>1, <3>1, <3>2, <3>4
      <3>6. /\ y \in Connection /\ y.write = x.write /\ y.receiving = x.receiving
            /\ y.priority = x.priority /\ y.pwd = x.pwd
            /\ y = [x EXCEPT !.expired = @ \cup {"round"}] => y.open = x.open
        BY <3>3, <3>5, PingTypes
      <3> QED BY <2>3, <3>1, <3>2, <3>5, <3>6
    <2> QED BY <2>2, <2>3
  <1>17. cs \in Conns
    <2>1. cs = [d \in Conn |-> cs[d]]
      BY <1>8, <1>9, <1>11
    <2> QED BY <1>16, <2>1 DEF Conns
  <1>18. CreatedIn(cs) = CreatedIn(w.cs)
    BY <1>16, NullAssumption DEF CreatedIn
  <1>19. Good(cs, ch)
    <2>1. \A d \in CreatedIn(w.cs) : /\ cs[d].write = w.cs[d].write
                                     /\ cs[d].receiving = w.cs[d].receiving
                                     /\ cs[d].priority = w.cs[d].priority
                                     /\ cs[d].pwd = w.cs[d].pwd
      BY <1>16 DEF CreatedIn
    <2>2. PICK a : a = w.cs
      OBVIOUS
    <2>3. PICK b : b = w.ch
      OBVIOUS
    <2>4. /\ Good(a, b) /\ CreatedIn(cs) = CreatedIn(a) /\ ch = [b EXCEPT !.pinged = p]
          /\ \A d \in CreatedIn(a) : /\ cs[d].write = a[d].write
                                     /\ cs[d].receiving = a[d].receiving
                                     /\ cs[d].priority = a[d].priority
                                     /\ cs[d].pwd = a[d].pwd
      BY <1>6, <1>13, <1>18, <2>1, <2>2, <2>3
    <2> QED BY <1>14, <1>17, <2>4, GoodKept
  <1>20. KeysIn(cs, answered)
    <2> SUFFICES ASSUME NEW d \in CreatedIn(w.cs)
                 PROVE  /\ cs[d].open > 0 \/ Usable(cs[d]) => cs[d].pwd
                        /\ cs[d].pwd => answered
      BY <1>18 DEF KeysIn
    <2>1. /\ w.cs[d].open > 0 \/ Usable(w.cs[d]) => w.cs[d].pwd
          /\ w.cs[d].pwd => answered
      BY <1>6 DEF KeysIn
    <2>2. cs[d].write = w.cs[d].write /\ cs[d].pwd = w.cs[d].pwd
          /\ (cs[d].open = w.cs[d].open \/ w.cs[d].pwd)
      BY <1>16 DEF CreatedIn
    <2> QED BY <2>1, <2>2 DEF Usable
  <1>21. ch.been = (channel.been \/ ch.writable)
    <2>1. ch.been = w.ch.been
      BY <1>6, <1>13 DEF Channel
    <2>2. (ch.writable => ch.been) /\ ch.been \in BOOLEAN
      BY <1>19, Facts
    <2> QED BY <1>6, <2>1, <2>2
  <1>22. Moves(conns, channel, cs, ch)
    <2>1. Good(conns, channel)
      BY DEF Course
    <2> QED BY <1>6, <1>18, <1>19, <1>21, <2>1, MovesOn
  <1>23. TypeOK'
    BY <1>9, <1>11, <1>12, <1>14, <1>15, <1>17 DEF Course, TypeOK, Conns
  <1> QED BY <1>9, <1>11, <1>12, <1>19, <1>20, <1>22, <1>23 DEF Course

(* Time.                                                                   *)
LEMMA KeepsExpire ==
    ASSUME Course, NEW c \in Conn, NEW t \in Timer, Expire(c, t)
    PROVE  Course' /\ Moves(conns, channel, conns', channel') /\ answered' = answered
  <1> USE CourseBase
  <1>1. conns[c] # NULL /\ UNCHANGED <<channel, due, last, answered, gone>>
    BY DEF Expire
  <1>2. PICK x \in Connection : x = conns[c]
    BY <1>1 DEF Conns
  <1>3. PICK y : y = [x EXCEPT !.expired = @ \cup {t}]
    OBVIOUS
  <1>4. PICK cs : cs = [conns EXCEPT ![c] = y]
    OBVIOUS
  <1>5. /\ y \in Connection /\ y.write = x.write /\ y.receiving = x.receiving
        /\ y.priority = x.priority /\ y.pwd = x.pwd /\ y.open = x.open
    <2>1. x.expired \cup {t} \in SUBSET (Timer \cup {"round"})
      BY DEF Connection
    <2> QED BY <1>3, <2>1 DEF Connection
  <1>6. conns' = cs
    BY <1>2, <1>3, <1>4 DEF Expire, Conns
  <1>7. cs \in Conns /\ cs[c] = y /\ \A d \in Conn : d # c => cs[d] = conns[d]
    BY <1>4, <1>5 DEF Conns
  <1>8. CreatedIn(cs) = CreatedIn(conns)
    BY <1>1, <1>5, <1>7, NullAssumption DEF CreatedIn
  <1>9. \A d \in CreatedIn(conns) : /\ cs[d].write = conns[d].write
                                    /\ cs[d].receiving = conns[d].receiving
                                    /\ cs[d].priority = conns[d].priority
                                    /\ cs[d].pwd = conns[d].pwd /\ cs[d].open = conns[d].open
    BY <1>2, <1>5, <1>7 DEF CreatedIn
  <1>10. Good(cs, channel)
    <2>1. channel = [channel EXCEPT !.pinged = channel.pinged]
      BY DEF Channel
    <2> QED BY <1>7, <1>8, <1>9, <2>1, GoodKept DEF Course
  <1>11. KeysIn(cs, answered)
    BY <1>8, <1>9 DEF Course, KeysIn, Usable
  <1>12. Moves(conns, channel, cs, channel)
    <2>1. Good(conns, channel) /\ channel.been = (channel.been \/ channel.writable)
      <3>1. (channel.writable => channel.been) /\ channel.been \in BOOLEAN
        BY Facts DEF Course
      <3> QED BY <3>1 DEF Course
    <2> QED BY <1>8, <1>10, <2>1, MovesOn
  <1>13. TypeOK'
    BY <1>1, <1>6, <1>7 DEF Course, TypeOK, Conns
  <1> QED BY <1>1, <1>6, <1>10, <1>11, <1>12, <1>13 DEF Course

-----------------------------------------------------------------------------
(* What a step of Next does to the invariant and to what is signalled.     *)
LEMMA KeepsNext ==
    ASSUME Course, [Next]_vars
    PROVE  /\ Course' /\ Moves(conns, channel, conns', channel')
           /\ \/ answered' = answered
              \/ /\ ~answered /\ answered' = TRUE /\ channel'.state = channel.state
                 /\ channel'.writable = channel.writable /\ channel'.been = channel.been
  <1> USE CourseBase
  <1>1. ASSUME NEW c \in Conn, NEW u \in {"answer", "other"}, NEW p \in Priority,
               _on_unknown_address(c, u, p)
        PROVE  Course' /\ Moves(conns, channel, conns', channel') /\ answered' = answered
    BY <1>1, KeepsUnknown
  <1>2. ASSUME NEW c \in Conn, NEW r \in Rtt, received_ping_response(c, r)
        PROVE  Course' /\ Moves(conns, channel, conns', channel') /\ answered' = answered
    BY <1>2, KeepsResponse
  <1>3. ASSUME NEW c \in Conn, NEW t \in Timer, Expire(c, t)
        PROVE  Course' /\ Moves(conns, channel, conns', channel') /\ answered' = answered
    BY <1>3, KeepsExpire
  <1>4. CASE set_remote_ice_params
    BY <1>4, KeepsAnswer
  <1>5. CASE _on_check_and_ping
    BY <1>5, KeepsPing
  <1>6. CASE CheckOnly
    BY <1>6, KeepsCheck
  <1>7. CASE UNCHANGED <<conns, channel, last, answered>> /\ due' \in BOOLEAN /\ gone' \in BOOLEAN
    <2>1. Course'
      BY <1>7 DEF Course, TypeOK, CreatedIn
    <2>2. Moves(conns, channel, conns', channel')
      <3>1. (channel.writable => channel.been) /\ channel.been \in BOOLEAN
        BY Facts DEF Course
      <3>2. Moves(conns, channel, conns, channel)
        BY <3>1, MovesOn DEF Course
      <3> QED BY <1>7, <3>2
    <2> QED BY <1>7, <2>1, <2>2
  <1>8. CASE PingTimer \/ PeerGone \/ UNCHANGED vars
    BY <1>7, <1>8 DEF PingTimer, PeerGone, vars, Course, TypeOK
  <1> QED BY <1>1, <1>2, <1>3, <1>4, <1>5, <1>6, <1>8 DEF Next

(* The invariant holds.                                                    *)
LEMMA CourseHolds == Spec => []Course
  <1>1. Course /\ [Next]_vars => Course'
    BY KeepsNext
  <1> QED BY CourseInit, <1>1, PTL DEF Spec

(* The list of a channel is as long as it has connections.                 *)
LEMMA CourseUpToDate == Course => UpToDate
  <1> SUFFICES ASSUME Course PROVE UpToDate
    OBVIOUS
  <1>1. Created = CreatedIn(conns)
    BY DEF Created, CreatedIn
  <1>2. Good(conns, channel) /\ TypeOK
    BY DEF Course
  <1>3. ToSet(channel.list) = Created /\ Len(channel.list) = Cardinality(Created)
    <2>1. PICK l : l = channel.list
      OBVIOUS
    <2>2. /\ l \in Seq(Conn) /\ ToSet(l) = Created
          /\ \A i, j \in 1 .. Len(l) : l[i] = l[j] => i = j
      BY <1>1, <1>2, <2>1 DEF Good, Sortable, Lists
    <2>3. Cardinality(ToSet(l)) = Len(l)
      BY <2>2, CountList
    <2> QED BY <2>1, <2>2, <2>3
  <1>4. (\E c \in Created : ready_to_send(c, conns)) => channel.selected # NULL
    BY <1>1, <1>2 DEF Good, Chosen, Usable, ready_to_send
  <1>5. Shown(conns, channel)
    BY <1>2 DEF Good
  <1> QED BY <1>1, <1>2, <1>3, <1>4, <1>5 DEF UpToDate, Shown

(* The list is complete, free of duplicates and best first, and the three  *)
(* states that are signalled are those of the connections, however many    *)
(* there are: _sort_connections_and_update_state() runs after every change *)
(* that a connection signals, in the middle of a handler as well.          *)
THEOREM ChannelUpToDate == Spec => []UpToDate
  BY CourseHolds, CourseUpToDate, PTL

(* Answer and binding request start the pinging in either order:           *)
(* set_remote_ice_params() and _on_unknown_address() both end in           *)
(* _maybe_start_pinging().                                                 *)
THEOREM PingingBegins == Spec => []PingingStarts
  <1>1. Course => PingingStarts
    BY DEF Course, Good, Starts, PingingStarts, Created, CreatedIn
  <1> QED BY CourseHolds, <1>1, PTL

(* Every handler of the channel is a step that IceTransport promises, or   *)
(* none that can be seen: the states follow each other only as DtlsTransport *)
(* and IceAgent expect, and a writable channel has had its answer.         *)
THEOREM PromiseKept == Spec => KeepsPromise
  <1>1. Init => Promise!Init
    BY DEF Init, Promise!Init
  <1>2. Course /\ [Next]_vars => [Promise!Next]_(Promise!vars)
    <2> SUFFICES ASSUME Course, [Next]_vars PROVE [Promise!Next]_(Promise!vars)
      OBVIOUS
    <2>1. /\ Course' /\ Moves(conns, channel, conns', channel')
          /\ \/ answered' = answered
             \/ /\ ~answered /\ answered' = TRUE /\ channel'.state = channel.state
                /\ channel'.writable = channel.writable /\ channel'.been = channel.been
      BY KeepsNext
    <2>2. CASE answered' = answered
      <3>1. PICK cs1 : cs1 = conns'
        OBVIOUS
      <3>2. PICK ch1 : ch1 = channel'
        OBVIOUS
      <3>3. /\ Good(conns, channel) /\ Good(cs1, ch1) /\ KeysIn(cs1, answered)
            /\ Moves(conns, channel, cs1, ch1) /\ answered \in BOOLEAN
        BY <2>1, <2>2, <3>1, <3>2 DEF Course, TypeOK
      <3>4. \/ /\ ch1.state = channel.state /\ ch1.writable = channel.writable
               /\ ch1.been = channel.been
            \/ /\ ch1.state \in Promise!After(channel.state, channel.been)
               /\ ch1.writable = (ch1.state = "connected")
               /\ ch1.writable => answered
               /\ ch1.been = (channel.been \/ ch1.writable)
        BY <3>3, MovesPromised
      <3> QED BY <2>2, <3>2, <3>4 DEF Promise!Next, Promise!Change, Promise!vars
    <2>3. CASE answered' # answered
      BY <2>1, <2>3 DEF Promise!Next, Promise!Answer, Promise!vars
    <2> QED BY <2>2, <2>3
  <1> QED BY CourseHolds, <1>1, <1>2, PTL DEF Spec, KeepsPromise, Promise!Spec
=============================================================================
