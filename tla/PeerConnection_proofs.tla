----------------------- MODULE PeerConnection_proofs -----------------------
(***************************************************************************)
(* The keys, the handshakes and the state of the transports, what viewers  *)
(* are offered and the accounting of libsrtp, for any answers, any number  *)
(* of PeerConnections, of SSL streams and of sessions of other workers.    *)
(* Parsing and grouping are recursive functions over a sequence, so that   *)
(* induction over its length reaches answers of any length.                *)
(***************************************************************************)
EXTENDS PeerConnection, FiniteSetTheorems, SequenceTheorems, WellFoundedInduction, TLAPS

(* Induction over the naturals, from the least counterexample.             *)
LEMMA CountUp ==
    ASSUME NEW S, 0 \in S, \A n \in Nat : n \in S => n + 1 \in S
    PROVE  Nat \subseteq S
  <1> DEFINE T == Nat \ S
  <1> SUFFICES ASSUME T # {} PROVE FALSE
    OBVIOUS
  <1>1. PICK R : R = {ss \in Nat \X Nat : ss[1] < ss[2]}
    OBVIOUS
  <1>2. IsWellFoundedOn(R, Nat)
    BY <1>1, NatLessThanWellFounded DEF OpToRel
  <1>3. PICK x \in T : \A y \in T : ~ (<<y, x>> \in R)
    <2>1. T \subseteq Nat
      OBVIOUS
    <2> HIDE DEF T
    <2> QED BY <1>2, <2>1, WFMin
  <1>4. x \in Nat /\ x # 0 /\ x - 1 \in Nat /\ x - 1 < x
    OBVIOUS
  <1>5. <<x - 1, x>> \in R
    BY <1>1, <1>4
  <1>6. x - 1 \in S
    BY <1>3, <1>4, <1>5
  <1>7. x = (x - 1) + 1
    BY <1>4
  <1> QED BY <1>3, <1>4, <1>6, <1>7

(* The greatest element of a set.                                          *)
LEMMA MaxIs ==
    ASSUME NEW S \in SUBSET Nat, NEW x \in S, \A y \in S : y <= x
    PROVE  Max(S) = x
  <1>1. \A y \in S : y >= x => y = x
    OBVIOUS
  <1>2. \A y \in S : x >= y
    OBVIOUS
  <1>3. \A z \in S : (\A y \in S : z >= y) => z = x
    BY <1>1
  <1> QED BY <1>2, <1>3 DEF Max

(* Parsing, line by line.                                                  *)
LEMMA ParseSteps ==
    ASSUME NEW sdp, Len(sdp) \in Nat
    PROVE  \E f : /\ f[0] = Blank /\ Parse(sdp) = f[Len(sdp)]
                  /\ \A n \in 1 .. Len(sdp) : f[n] = ReadLine(f[n - 1], sdp[n])
  <1> DEFINE N == Len(sdp)
             Is(f, m) == f = [n \in 0 .. m |-> IF n = 0 THEN Blank ELSE ReadLine(f[n - 1], sdp[n])]
             S == {m \in Nat : \E f : Is(f, m)}
  <1>1. 0 \in S
    <2>1. PICK f : f = [n \in 0 .. 0 |-> Blank]
      OBVIOUS
    <2>2. Is(f, 0)
      BY <2>1
    <2> QED BY <2>2
  <1>2. ASSUME NEW m \in Nat, m \in S PROVE m + 1 \in S
    <2>1. PICK f : Is(f, m)
      BY <1>2
    <2>2. PICK g : g = [n \in 0 .. m + 1 |-> IF n <= m THEN f[n] ELSE ReadLine(f[m], sdp[m + 1])]
      OBVIOUS
    <2>3. Is(g, m + 1)
      <3>1. ASSUME NEW n \in 0 .. m + 1
            PROVE  g[n] = IF n = 0 THEN Blank ELSE ReadLine(g[n - 1], sdp[n])
        <4>1. CASE n = 0
          BY <2>1, <2>2, <4>1
        <4>2. CASE n \in 1 .. m
          <5>1. g[n] = f[n] /\ g[n - 1] = f[n - 1]
            BY <2>2, <4>2
          <5>2. f[n] = ReadLine(f[n - 1], sdp[n])
            BY <2>1, <4>2
          <5> QED BY <4>2, <5>1, <5>2
        <4>3. CASE n = m + 1
          <5>1. g[n] = ReadLine(f[m], sdp[m + 1]) /\ g[m] = f[m] /\ n - 1 = m
            BY <2>2, <4>3
          <5> QED BY <4>3, <5>1
        <4> QED BY <4>1, <4>2, <4>3
      <3> QED BY <2>2, <3>1
    <2> QED BY <2>3
  <1>3. N \in S
    <2> HIDE DEF S
    <2> QED BY <1>1, <1>2, CountUp
  <1>4. PICK f : Is(f, N)
    BY <1>3
  <1>5. PICK F : F = CHOOSE f_1 : Is(f_1, N)
    OBVIOUS
  <1>6. Is(F, N)
    BY <1>4, <1>5
  <1>7. Parse(sdp) = F[N]
    BY <1>5 DEF Parse
  <1> QED BY <1>6, <1>7

(* Tracks, SSRC by SSRC.                                                   *)
LEMMA TrackSteps ==
    ASSUME NEW infos, Len(infos) \in Nat
    PROVE  \E f : /\ f[0] = <<>> /\ create_track_from_ssrc_info(infos) = f[Len(infos)]
                  /\ \A n \in 1 .. Len(infos) : f[n] = AddTrack(f[n - 1], infos[n])
  <1> DEFINE N == Len(infos)
             Is(f, m) == f = [n \in 0 .. m |-> IF n = 0 THEN <<>> ELSE AddTrack(f[n - 1], infos[n])]
             S == {m \in Nat : \E f : Is(f, m)}
  <1>1. 0 \in S
    <2>1. PICK f : f = [n \in 0 .. 0 |-> <<>>]
      OBVIOUS
    <2>2. Is(f, 0)
      BY <2>1
    <2> QED BY <2>2
  <1>2. ASSUME NEW m \in Nat, m \in S PROVE m + 1 \in S
    <2>1. PICK f : Is(f, m)
      BY <1>2
    <2>2. PICK g : g = [n \in 0 .. m + 1 |-> IF n <= m THEN f[n] ELSE AddTrack(f[m], infos[m + 1])]
      OBVIOUS
    <2>3. Is(g, m + 1)
      <3>1. ASSUME NEW n \in 0 .. m + 1
            PROVE  g[n] = IF n = 0 THEN <<>> ELSE AddTrack(g[n - 1], infos[n])
        <4>1. CASE n = 0
          BY <2>1, <2>2, <4>1
        <4>2. CASE n \in 1 .. m
          <5>1. g[n] = f[n] /\ g[n - 1] = f[n - 1]
            BY <2>2, <4>2
          <5>2. f[n] = AddTrack(f[n - 1], infos[n])
            BY <2>1, <4>2
          <5> QED BY <4>2, <5>1, <5>2
        <4>3. CASE n = m + 1
          <5>1. g[n] = AddTrack(f[m], infos[m + 1]) /\ g[m] = f[m] /\ n - 1 = m
            BY <2>2, <4>3
          <5> QED BY <4>3, <5>1
        <4> QED BY <4>1, <4>2, <4>3
      <3> QED BY <2>2, <3>1
    <2> QED BY <2>3
  <1>3. N \in S
    <2> HIDE DEF S
    <2> QED BY <1>1, <1>2, CountUp
  <1>4. PICK f : Is(f, N)
    BY <1>3
  <1>5. PICK F : F = CHOOSE f_1 : Is(f_1, N)
    OBVIOUS
  <1>6. Is(F, N)
    BY <1>4, <1>5
  <1>7. create_track_from_ssrc_info(infos) = F[N]
    BY <1>5 DEF create_track_from_ssrc_info
  <1> QED BY <1>6, <1>7

-----------------------------------------------------------------------------
Info == [id : Ssrc, track : Track \cup {NULL}]

(* What has been read of an answer.                                        *)
Parsed == [ok : BOOLEAN, media : STRING \cup {NULL}, contents : SUBSET Media,
           fingerprint : [Media -> Good \cup Bad \cup {NULL}],
           ssrcs : [Media -> Seq(Info)], groups : SUBSET Seq(Ssrc)]

LEMMA LineFields ==
    ASSUME NEW l \in Line
    PROVE  /\ l.kind \in {"m", "fingerprint", "ssrc", "group", "bad", "other"}
           /\ l.kind = "m" => l.media \in STRING
           /\ l.kind = "fingerprint" => l.f \in Good \cup Bad
           /\ l.kind = "ssrc" => l.id \in Ssrc /\ l.track \in Track \cup {NULL}
           /\ l.kind = "group" => l.ids \in Seq(Ssrc)
  BY DEF Line

(* An SSRC that is listed keeps its place.                                 *)
LEMMA AddSsrcIs ==
    ASSUME NEW infos \in Seq(Info), NEW l, l.id \in Ssrc, l.track \in Track \cup {NULL},
           NEW q, q = AddSsrc(infos, l)
    PROVE  /\ q \in Seq(Info)
           /\ \/ /\ \A i \in 1 .. Len(infos) : infos[i].id # l.id
                 /\ Len(q) = Len(infos) + 1 /\ q[Len(q)] = [id |-> l.id, track |-> l.track]
                 /\ \A i \in 1 .. Len(infos) : q[i] = infos[i]
              \/ /\ \E i \in 1 .. Len(infos) : infos[i].id = l.id
                 /\ Len(q) = Len(infos)
                 /\ \A i \in 1 .. Len(infos) :
                       /\ q[i].id = infos[i].id
                       /\ q[i].track = IF infos[i].id = l.id /\ l.track # NULL THEN l.track
                                       ELSE infos[i].track
  <1>1. Len(infos) \in Nat /\ DOMAIN infos = 1 .. Len(infos)
    OBVIOUS
  <1>2. \A i \in 1 .. Len(infos) : infos[i] \in Info
    OBVIOUS
  <1>3. CASE \A i \in 1 .. Len(infos) : infos[i].id # l.id
    <2>1. PICK x : x = [id |-> l.id, track |-> l.track]
      OBVIOUS
    <2>2. x \in Info
      BY <2>1 DEF Info
    <2>3. q = Append(infos, x)
      BY <1>1, <1>3, <2>1 DEF AddSsrc
    <2>4. q \in Seq(Info) /\ Len(q) = Len(infos) + 1 /\ q[Len(infos) + 1] = x
          /\ \A i \in 1 .. Len(infos) : q[i] = infos[i]
      BY <2>2, <2>3
    <2> QED BY <1>3, <2>1, <2>4
  <1>4. CASE \E i \in 1 .. Len(infos) : infos[i].id = l.id
    <2> DEFINE y(i) == IF infos[i].id = l.id /\ l.track # NULL
                       THEN [infos[i] EXCEPT !.track = l.track] ELSE infos[i]
    <2>1. q = [i \in 1 .. Len(infos) |-> y(i)]
      BY <1>1, <1>4 DEF AddSsrc
    <2>2. ASSUME NEW i \in 1 .. Len(infos)
          PROVE  /\ y(i) \in Info /\ y(i).id = infos[i].id
                 /\ y(i).track = IF infos[i].id = l.id /\ l.track # NULL THEN l.track
                                 ELSE infos[i].track
      BY <1>2 DEF Info
    <2> HIDE DEF y
    <2>3. q \in Seq(Info) /\ Len(q) = Len(infos)
      <3>1. q \in [1 .. Len(infos) -> Info]
        BY <2>1, <2>2
      <3> QED BY <1>1, <3>1
    <2>4. \A i \in 1 .. Len(infos) : q[i] = y(i)
      BY <2>1
    <2> QED BY <1>4, <2>2, <2>3, <2>4
  <1> QED BY <1>3, <1>4

LEMMA BlankParsed == Blank \in Parsed
  <1>1. <<>> \in Seq(Info)
    OBVIOUS
  <1> QED BY <1>1 DEF Blank, Parsed

(* A line inside a section of a known medium.                              *)
SsrcAdded(p, l, q) ==
    /\ \A m \in Media : l.kind # "ssrc" \/ m # p.media => q.ssrcs[m] = p.ssrcs[m]
    /\ l.kind = "ssrc" => q.ssrcs[p.media] = AddSsrc(p.ssrcs[p.media], l)

LEMMA AttributeIs ==
    ASSUME NEW p \in Parsed, p.media \in Media, NEW l \in Line, l.kind # "m",
           NEW q, q = Attribute(p, l)
    PROVE  /\ q \in Parsed /\ q.media = p.media /\ q.contents = p.contents
           /\ q.ok = (p.ok /\ l.kind # "bad")
           /\ SsrcAdded(p, l, q)
           /\ q.groups = IF l.kind = "group" THEN p.groups \cup {l.ids} ELSE p.groups
  <1>1. l.kind \in {"fingerprint", "ssrc", "group", "bad", "other"}
    BY LineFields
  <1>2. CASE l.kind = "fingerprint"
    BY <1>2, LineFields DEF Attribute, Parsed, SsrcAdded
  <1>3. CASE l.kind = "ssrc"
    <2>1. p.ssrcs[p.media] \in Seq(Info) /\ l.id \in Ssrc /\ l.track \in Track \cup {NULL}
      BY <1>3, LineFields DEF Parsed
    <2>2. PICK a : a = AddSsrc(p.ssrcs[p.media], l)
      OBVIOUS
    <2>3. a \in Seq(Info)
      BY <2>1, <2>2, AddSsrcIs
    <2>4. q = [p EXCEPT !.ssrcs = [p.ssrcs EXCEPT ![p.media] = a]]
      BY <1>3, <2>2 DEF Attribute
    <2>5. q \in Parsed
      BY <2>3, <2>4 DEF Parsed
    <2>6. q.ssrcs = [p.ssrcs EXCEPT ![p.media] = a] /\ p.ssrcs \in [Media -> Seq(Info)]
      BY <2>4 DEF Parsed
    <2>7. /\ \A m \in Media : m # p.media => q.ssrcs[m] = p.ssrcs[m]
          /\ q.ssrcs[p.media] = AddSsrc(p.ssrcs[p.media], l)
      BY <2>2, <2>6
    <2>8. q.media = p.media /\ q.contents = p.contents /\ q.ok = p.ok /\ q.groups = p.groups
      BY <2>4 DEF Parsed
    <2>9. p.ok \in BOOLEAN
      BY DEF Parsed
    <2> QED BY <1>3, <2>5, <2>7, <2>8, <2>9 DEF SsrcAdded
  <1>4. CASE l.kind = "group"
    BY <1>4, LineFields DEF Attribute, Parsed, SsrcAdded
  <1>5. CASE l.kind = "bad"
    BY <1>5 DEF Attribute, Parsed, SsrcAdded
  <1>6. CASE l.kind = "other"
    BY <1>6 DEF Attribute, Parsed, SsrcAdded
  <1> QED BY <1>1, <1>2, <1>3, <1>4, <1>5, <1>6

LEMMA ReadLineParsed ==
    ASSUME NEW p \in Parsed, NEW l \in Line
    PROVE  ReadLine(p, l) \in Parsed
  <1>1. CASE p.ok /\ l.kind = "m" /\ l # [kind |-> "bad", of |-> "m"]
    BY <1>1, LineFields DEF ReadLine, Parsed
  <1>2. CASE p.ok /\ l.kind # "m" /\ p.media \in Media /\ l # [kind |-> "bad", of |-> "m"]
    BY <1>2, AttributeIs DEF ReadLine
  <1>3. CASE l = [kind |-> "bad", of |-> "m"]
    BY <1>3 DEF ReadLine, Parsed
  <1>4. CASE ~p.ok \/ (l.kind # "m" /\ p.media \notin Media /\ l # [kind |-> "bad", of |-> "m"])
    BY <1>4 DEF ReadLine
  <1> QED BY <1>1, <1>2, <1>3, <1>4

-----------------------------------------------------------------------------
(* What the lines say, one more at a time.                                 *)
LEMMA MediaAtStep ==
    ASSUME NEW sdp \in Seq(Line), NEW n \in Nat, n + 1 \in 1 .. Len(sdp)
    PROVE  MediaAt(sdp, n + 1) = IF sdp[n + 1].kind = "m" THEN sdp[n + 1].media
                                 ELSE MediaAt(sdp, n)
  <1> DEFINE ms(k) == {j \in 1 .. k : sdp[j].kind = "m"}
  <1>1. \A j : j \in 1 .. n + 1 <=> j \in 1 .. n \/ j = n + 1
    OBVIOUS
  <1>2. CASE sdp[n + 1].kind = "m"
    <2>1. n + 1 \in ms(n + 1) /\ ms(n + 1) \in SUBSET Nat /\ \A y \in ms(n + 1) : y <= n + 1
      BY <1>2
    <2>2. Max(ms(n + 1)) = n + 1 /\ ms(n + 1) # {}
      <3> HIDE DEF ms
      <3> QED BY <2>1, MaxIs
    <2> QED BY <1>2, <2>2 DEF MediaAt
  <1>3. CASE sdp[n + 1].kind # "m"
    <2>1. ms(n + 1) = ms(n)
      BY <1>1, <1>3
    <2> QED BY <1>3, <2>1 DEF MediaAt
  <1> QED BY <1>2, <1>3

LEMMA MediaAtNone ==
    ASSUME NEW sdp
    PROVE  MediaAt(sdp, 0) = NULL
  BY DEF MediaAt

LEMMA SsrcLinesStep ==
    ASSUME NEW sdp, NEW n \in Nat, NEW m
    PROVE  SsrcLines(sdp, n + 1, m) =
               IF sdp[n + 1].kind = "ssrc" /\ MediaAt(sdp, n + 1) = m
               THEN SsrcLines(sdp, n, m) \cup {n + 1} ELSE SsrcLines(sdp, n, m)
  <1>1. \A j : j \in 1 .. n + 1 <=> j \in 1 .. n \/ j = n + 1
    OBVIOUS
  <1>2. PICK P : P = [j \in 1 .. n + 1 |-> sdp[j].kind = "ssrc" /\ MediaAt(sdp, j) = m]
    OBVIOUS
  <1>3. SsrcLines(sdp, n + 1, m) = {j \in 1 .. n + 1 : P[j]}
    BY <1>2 DEF SsrcLines
  <1>4. SsrcLines(sdp, n, m) = {j \in 1 .. n : P[j]}
    BY <1>1, <1>2 DEF SsrcLines
  <1>5. P[n + 1] <=> (sdp[n + 1].kind = "ssrc" /\ MediaAt(sdp, n + 1) = m)
    BY <1>1, <1>2
  <1> QED BY <1>1, <1>3, <1>4, <1>5

LEMMA GroupsAtStep ==
    ASSUME NEW sdp, NEW n \in Nat
    PROVE  GroupsAt(sdp, n + 1) =
               IF sdp[n + 1].kind = "group" /\ MediaAt(sdp, n + 1) = "video"
               THEN GroupsAt(sdp, n) \cup {sdp[n + 1].ids} ELSE GroupsAt(sdp, n)
  <1>1. \A j : j \in 1 .. n + 1 <=> j \in 1 .. n \/ j = n + 1
    OBVIOUS
  <1>2. PICK P : P = [j \in 1 .. n + 1 |-> sdp[j].kind = "group" /\ MediaAt(sdp, j) = "video"]
    OBVIOUS
  <1>3. GroupsAt(sdp, n + 1) = {sdp[i].ids : i \in {j \in 1 .. n + 1 : P[j]}}
    BY <1>2 DEF GroupsAt
  <1>4. GroupsAt(sdp, n) = {sdp[i].ids : i \in {j \in 1 .. n : P[j]}}
    BY <1>1, <1>2 DEF GroupsAt
  <1>5. P[n + 1] <=> (sdp[n + 1].kind = "group" /\ MediaAt(sdp, n + 1) = "video")
    BY <1>1, <1>2
  <1>6. \A j \in {j \in 1 .. n + 1 : P[j]} : j \in {k \in 1 .. n : P[k]} \/ (j = n + 1 /\ P[n + 1])
    BY <1>1
  <1>7. \A j \in {j \in 1 .. n : P[j]} : j \in {k \in 1 .. n + 1 : P[k]}
    BY <1>1
  <1>8. P[n + 1] => n + 1 \in {k \in 1 .. n + 1 : P[k]}
    BY <1>1
  <1> QED BY <1>3, <1>4, <1>5, <1>6, <1>7, <1>8

(* The last msid of an SSRC is its track.                                  *)
LEMMA TrackStep ==
    ASSUME NEW sdp, NEW n \in Nat, NEW m, NEW id,
           sdp[n + 1].kind = "ssrc", MediaAt(sdp, n + 1) = m
    PROVE  TrackAt(sdp, n + 1, m, id) =
               IF sdp[n + 1].id = id /\ sdp[n + 1].track # NULL THEN sdp[n + 1].track
               ELSE TrackAt(sdp, n, m, id)
  <1>1. SsrcLines(sdp, n + 1, m) = SsrcLines(sdp, n, m) \cup {n + 1}
    BY SsrcLinesStep
  <1>2. SsrcLines(sdp, n + 1, m) \subseteq 1 .. n + 1
    BY DEF SsrcLines
  <1>3. CASE sdp[n + 1].id = id /\ sdp[n + 1].track # NULL
    <2>1. PICK S : S = MsidLines(sdp, n + 1, m, id)
      OBVIOUS
    <2>2. n + 1 \in S /\ S \subseteq 1 .. n + 1
      BY <1>1, <1>2, <1>3, <2>1 DEF MsidLines
    <2>3. Max(S) = n + 1
      <3>1. \A y \in S : y \in 1 .. n + 1
        BY <2>2
      <3>2. \A y \in 1 .. n + 1 : y \in Nat /\ y <= n + 1
        OBVIOUS
      <3>3. S \in SUBSET Nat /\ \A y \in S : y <= n + 1
        BY <3>1, <3>2
      <3> QED BY <2>2, <3>3, MaxIs
    <2> QED BY <1>3, <2>1, <2>2, <2>3 DEF TrackAt
  <1>4. CASE ~(sdp[n + 1].id = id /\ sdp[n + 1].track # NULL)
    <2>1. MsidLines(sdp, n + 1, m, id) = MsidLines(sdp, n, m, id)
      BY <1>1, <1>4 DEF MsidLines
    <2> QED BY <1>4, <2>1 DEF TrackAt
  <1> QED BY <1>3, <1>4

LEMMA TrackSame ==
    ASSUME NEW sdp, NEW n \in Nat, NEW m, NEW id,
           SsrcLines(sdp, n + 1, m) = SsrcLines(sdp, n, m)
    PROVE  TrackAt(sdp, n + 1, m, id) = TrackAt(sdp, n, m, id)
  BY DEF TrackAt, MsidLines

(* The SSRCs of a medium in the first n lines, each once, with its track.  *)
Listed(sdp, n, m, infos) ==
    /\ infos \in Seq(Info)
    /\ \A i, j \in 1 .. Len(infos) : infos[i].id = infos[j].id => i = j
    /\ {infos[k].id : k \in 1 .. Len(infos)} = {sdp[i].id : i \in SsrcLines(sdp, n, m)}
    /\ \A k \in 1 .. Len(infos) : infos[k].track = TrackAt(sdp, n, m, infos[k].id)

LEMMA ListedNone ==
    ASSUME NEW sdp, NEW m
    PROVE  Listed(sdp, 0, m, <<>>)
  <1>1. SsrcLines(sdp, 0, m) = {}
    BY DEF SsrcLines
  <1> QED BY <1>1 DEF Listed

LEMMA ListedSame ==
    ASSUME NEW sdp, NEW n \in Nat, NEW m, NEW infos, Listed(sdp, n, m, infos),
           SsrcLines(sdp, n + 1, m) = SsrcLines(sdp, n, m)
    PROVE  Listed(sdp, n + 1, m, infos)
  <1>1. \A id : TrackAt(sdp, n + 1, m, id) = TrackAt(sdp, n, m, id)
    BY TrackSame
  <1> QED BY <1>1 DEF Listed

LEMMA ListedMore ==
    ASSUME NEW sdp \in Seq(Line), NEW n \in Nat, n + 1 \in 1 .. Len(sdp), NEW m, NEW infos,
           Listed(sdp, n, m, infos), sdp[n + 1].kind = "ssrc", MediaAt(sdp, n + 1) = m
    PROVE  Listed(sdp, n + 1, m, AddSsrc(infos, sdp[n + 1]))
  <1>1. PICK l : l = sdp[n + 1]
    OBVIOUS
  <1>2. l \in Line /\ l.kind = "ssrc"
    BY <1>1
  <1>3. l.id \in Ssrc /\ l.track \in Track \cup {NULL}
    BY <1>2, LineFields
  <1>4. PICK q : q = AddSsrc(infos, l)
    OBVIOUS
  <1>5. infos \in Seq(Info) /\ Len(infos) \in Nat
    BY DEF Listed
  <1>6. PICK S : S = SsrcLines(sdp, n, m)
    OBVIOUS
  <1>7. SsrcLines(sdp, n + 1, m) = S \cup {n + 1}
    BY <1>6, SsrcLinesStep
  <1>8. {sdp[i].id : i \in S \cup {n + 1}} = {sdp[i].id : i \in S} \cup {l.id}
    BY <1>1
  <1>9. \A id : TrackAt(sdp, n + 1, m, id) =
                   IF l.id = id /\ l.track # NULL THEN l.track ELSE TrackAt(sdp, n, m, id)
    BY <1>1, TrackStep
  <1>10. {infos[k].id : k \in 1 .. Len(infos)} = {sdp[i].id : i \in S}
    BY <1>6 DEF Listed
  <1>11. q \in Seq(Info)
    BY <1>3, <1>4, <1>5, AddSsrcIs
  <1>12. CASE /\ \A i \in 1 .. Len(infos) : infos[i].id # l.id
              /\ Len(q) = Len(infos) + 1 /\ q[Len(q)] = [id |-> l.id, track |-> l.track]
              /\ \A i \in 1 .. Len(infos) : q[i] = infos[i]
    <2>1. \A i : i \in 1 .. Len(q) <=> i \in 1 .. Len(infos) \/ i = Len(q)
      BY <1>5, <1>12
    <2>2. q[Len(q)].id = l.id /\ q[Len(q)].track = l.track
      BY <1>12
    <2>3. ASSUME NEW i \in 1 .. Len(q), NEW j \in 1 .. Len(q), q[i].id = q[j].id PROVE i = j
      <3>1. CASE i \in 1 .. Len(infos) /\ j \in 1 .. Len(infos)
        BY <1>12, <2>3, <3>1 DEF Listed
      <3>2. CASE i = Len(q) \/ j = Len(q)
        BY <1>12, <2>1, <2>2, <2>3, <3>2
      <3> QED BY <2>1, <3>1, <3>2
    <2>4. {q[k].id : k \in 1 .. Len(q)} = {infos[k].id : k \in 1 .. Len(infos)} \cup {l.id}
      BY <1>12, <2>1, <2>2
    <2>5. TrackAt(sdp, n, m, l.id) = NULL
      <3>1. \A i \in S : sdp[i].id # l.id
        BY <1>10, <1>12
      <3>2. MsidLines(sdp, n, m, l.id) = {}
        BY <1>6, <3>1 DEF MsidLines
      <3> QED BY <3>2 DEF TrackAt
    <2>6. l.track = TrackAt(sdp, n + 1, m, l.id)
      BY <1>9, <2>5
    <2>7. \A k \in 1 .. Len(infos) : infos[k].track = TrackAt(sdp, n + 1, m, infos[k].id)
      BY <1>9, <1>12 DEF Listed
    <2>8. \A k \in 1 .. Len(q) : q[k].track = TrackAt(sdp, n + 1, m, q[k].id)
      BY <1>12, <2>1, <2>2, <2>6, <2>7
    <2>9. {q[k].id : k \in 1 .. Len(q)} = {sdp[i].id : i \in SsrcLines(sdp, n + 1, m)}
      BY <1>7, <1>8, <1>10, <2>4
    <2>10. Listed(sdp, n + 1, m, q)
      BY <1>11, <2>3, <2>8, <2>9 DEF Listed
    <2> QED BY <1>1, <1>4, <2>10
  <1>13. CASE /\ \E i \in 1 .. Len(infos) : infos[i].id = l.id
              /\ Len(q) = Len(infos)
              /\ \A i \in 1 .. Len(infos) :
                    /\ q[i].id = infos[i].id
                    /\ q[i].track = IF infos[i].id = l.id /\ l.track # NULL THEN l.track
                                    ELSE infos[i].track
    <2>1. \A i, j \in 1 .. Len(q) : q[i].id = q[j].id => i = j
      BY <1>13 DEF Listed
    <2>2. {q[k].id : k \in 1 .. Len(q)} = {infos[k].id : k \in 1 .. Len(infos)}
      BY <1>13
    <2>3. l.id \in {infos[k].id : k \in 1 .. Len(infos)}
      BY <1>13
    <2>4. \A k \in 1 .. Len(q) : q[k].track = TrackAt(sdp, n + 1, m, q[k].id)
      BY <1>9, <1>13 DEF Listed
    <2>5. {q[k].id : k \in 1 .. Len(q)} = {sdp[i].id : i \in SsrcLines(sdp, n + 1, m)}
      BY <1>7, <1>8, <1>10, <2>2, <2>3
    <2>6. Listed(sdp, n + 1, m, q)
      BY <1>11, <2>1, <2>4, <2>5 DEF Listed
    <2> QED BY <1>1, <1>4, <2>6
  <1> QED BY <1>3, <1>4, <1>5, <1>12, <1>13, AddSsrcIs

(* What has been read is what the first n lines say.                       *)
Read(sdp, n, p) ==
    p.ok => /\ p.media = MediaAt(sdp, n)
            /\ \A i \in 0 .. n : MediaAt(sdp, i) \in Media => MediaAt(sdp, i) \in p.contents
            /\ \A m \in Media : Listed(sdp, n, m, p.ssrcs[m])
            /\ p.groups = GroupsAt(sdp, n)

LEMMA ReadOn ==
    ASSUME NEW sdp \in Seq(Line), NEW n \in Nat, n + 1 \in 1 .. Len(sdp),
           NEW p \in Parsed, Read(sdp, n, p)
    PROVE  Read(sdp, n + 1, ReadLine(p, sdp[n + 1]))
  <1>1. PICK l : l = sdp[n + 1]
    OBVIOUS
  <1>2. PICK q : q = ReadLine(p, l)
    OBVIOUS
  <1> SUFFICES ASSUME q.ok PROVE Read(sdp, n + 1, q)
    BY <1>1, <1>2 DEF Read
  <1>3. l \in Line
    BY <1>1
  <1>4. p.ok /\ l # [kind |-> "bad", of |-> "m"]
    <2>1. CASE ~p.ok
      BY <1>2, <2>1 DEF ReadLine
    <2>2. CASE l = [kind |-> "bad", of |-> "m"] /\ p.ok
      <3>1. q = [p EXCEPT !.ok = FALSE]
        BY <1>2, <2>2 DEF ReadLine
      <3>2. ~q.ok
        BY <3>1 DEF Parsed
      <3> QED BY <3>2
    <2> QED BY <2>1, <2>2
  <1>5. /\ p.media = MediaAt(sdp, n)
        /\ \A i \in 0 .. n : MediaAt(sdp, i) \in Media => MediaAt(sdp, i) \in p.contents
        /\ \A m \in Media : Listed(sdp, n, m, p.ssrcs[m])
        /\ p.groups = GroupsAt(sdp, n)
    BY <1>4 DEF Read
  <1>6. MediaAt(sdp, n + 1) = IF l.kind = "m" THEN l.media ELSE p.media
    BY <1>1, <1>5, MediaAtStep
  <1>7. \A m : SsrcLines(sdp, n + 1, m) =
                   IF l.kind = "ssrc" /\ MediaAt(sdp, n + 1) = m
                   THEN SsrcLines(sdp, n, m) \cup {n + 1} ELSE SsrcLines(sdp, n, m)
    BY <1>1, SsrcLinesStep
  <1>8. GroupsAt(sdp, n + 1) = IF l.kind = "group" /\ MediaAt(sdp, n + 1) = "video"
                               THEN GroupsAt(sdp, n) \cup {l.ids} ELSE GroupsAt(sdp, n)
    BY <1>1, GroupsAtStep
  <1>9. \A i : i \in 0 .. n + 1 <=> i \in 0 .. n \/ i = n + 1
    OBVIOUS
  <1>10. ASSUME NEW m \in Media, ~(l.kind = "ssrc" /\ MediaAt(sdp, n + 1) = m)
         PROVE  Listed(sdp, n + 1, m, p.ssrcs[m])
    <2>1. SsrcLines(sdp, n + 1, m) = SsrcLines(sdp, n, m)
      BY <1>7, <1>10
    <2> QED BY <1>5, <2>1, ListedSame
  <1>11. CASE l.kind = "m"
    <2>1. q = [p EXCEPT !.media = l.media, !.contents = @ \cup ({l.media} \cap Media)]
      BY <1>2, <1>4, <1>11 DEF ReadLine
    <2>2. /\ q.media = l.media /\ q.contents = p.contents \cup ({l.media} \cap Media)
          /\ q.ssrcs = p.ssrcs /\ q.groups = p.groups
      BY <2>1 DEF Parsed
    <2>3. \A i \in 0 .. n + 1 : MediaAt(sdp, i) \in Media => MediaAt(sdp, i) \in q.contents
      BY <1>5, <1>6, <1>9, <1>11, <2>2
    <2>4. \A m \in Media : Listed(sdp, n + 1, m, q.ssrcs[m])
      BY <1>10, <1>11, <2>2
    <2>5. q.groups = GroupsAt(sdp, n + 1)
      BY <1>5, <1>8, <1>11, <2>2
    <2> QED BY <1>6, <1>11, <2>2, <2>3, <2>4, <2>5 DEF Read
  <1>12. CASE l.kind # "m" /\ (p.media \notin Media \/ (p.media = "audio" /\ GroupLine(l)))
    <2>1. q = p
      BY <1>2, <1>4, <1>12 DEF ReadLine
    <2>2. GroupLine(l) => l.kind # "ssrc"
      BY DEF GroupLine
    <2>3. \A m \in Media : Listed(sdp, n + 1, m, q.ssrcs[m])
      BY <1>6, <1>10, <1>12, <2>1, <2>2
    <2>4. q.groups = GroupsAt(sdp, n + 1)
      BY <1>5, <1>6, <1>8, <1>12, <2>1 DEF Media
    <2>5. \A i \in 0 .. n + 1 : MediaAt(sdp, i) \in Media => MediaAt(sdp, i) \in q.contents
      BY <1>5, <1>6, <1>9, <1>12, <2>1
    <2> QED BY <1>6, <1>12, <2>1, <2>3, <2>4, <2>5 DEF Read
  <1>13. CASE /\ l.kind # "m" /\ p.media \in Media
              /\ ~(p.media = "audio" /\ GroupLine(l))
    <2>1. q = Attribute(p, l)
      BY <1>2, <1>4, <1>13 DEF ReadLine
    <2>2. /\ q.media = p.media /\ q.contents = p.contents
          /\ SsrcAdded(p, l, q)
          /\ q.groups = IF l.kind = "group" THEN p.groups \cup {l.ids} ELSE p.groups
      BY <1>3, <1>13, <2>1, AttributeIs
    <2>3. l.kind = "group" => p.media = "video"
      BY <1>13 DEF GroupLine, Media
    <2>4. q.groups = GroupsAt(sdp, n + 1)
      BY <1>5, <1>6, <1>8, <1>13, <2>2, <2>3
    <2>5. ASSUME NEW m \in Media PROVE Listed(sdp, n + 1, m, q.ssrcs[m])
      <3>1. CASE l.kind = "ssrc" /\ m = p.media
        <4>1. Listed(sdp, n + 1, m, AddSsrc(p.ssrcs[m], sdp[n + 1]))
          BY <1>1, <1>5, <1>6, <3>1, ListedMore
        <4> QED BY <1>1, <2>2, <3>1, <4>1 DEF SsrcAdded
      <3>2. CASE ~(l.kind = "ssrc" /\ m = p.media)
        BY <1>6, <1>10, <1>13, <2>2, <3>2 DEF SsrcAdded
      <3> QED BY <3>1, <3>2
    <2>6. \A i \in 0 .. n + 1 : MediaAt(sdp, i) \in Media => MediaAt(sdp, i) \in q.contents
      <3>1. n \in 0 .. n
        OBVIOUS
      <3> QED BY <1>5, <1>6, <1>9, <1>13, <2>2, <3>1
    <2> QED BY <1>6, <1>13, <2>2, <2>4, <2>5, <2>6 DEF Read
  <1> QED BY <1>11, <1>12, <1>13

(* Parsing finds what the lines say, in an answer of any length.           *)
LEMMA ParseReads ==
    ASSUME NEW sdp \in Seq(Line)
    PROVE  Parse(sdp) \in Parsed /\ Read(sdp, Len(sdp), Parse(sdp))
  <1> DEFINE N == Len(sdp)
  <1>1. N \in Nat /\ \A n \in 1 .. N : sdp[n] \in Line
    OBVIOUS
  <1>2. PICK f : /\ f[0] = Blank /\ Parse(sdp) = f[N]
                 /\ \A n \in 1 .. N : f[n] = ReadLine(f[n - 1], sdp[n])
    BY <1>1, ParseSteps
  <1> DEFINE T == {n \in Nat : n <= N => f[n] \in Parsed /\ Read(sdp, n, f[n])}
  <1>3. 0 \in T
    <2>1. Blank.media = MediaAt(sdp, 0)
      BY MediaAtNone DEF Blank
    <2>2. \A i \in 0 .. 0 : MediaAt(sdp, i) \notin Media
      BY MediaAtNone, DescriptionAssumption
    <2>3. \A m \in Media : Listed(sdp, 0, m, Blank.ssrcs[m])
      BY ListedNone DEF Blank
    <2>4. Blank.groups = GroupsAt(sdp, 0)
      BY DEF Blank, GroupsAt
    <2>5. Read(sdp, 0, Blank)
      BY <2>1, <2>2, <2>3, <2>4 DEF Read
    <2> QED BY <1>2, <2>5, BlankParsed
  <1>4. ASSUME NEW n \in Nat, n \in T PROVE n + 1 \in T
    <2> SUFFICES ASSUME n + 1 <= N PROVE f[n + 1] \in Parsed /\ Read(sdp, n + 1, f[n + 1])
      OBVIOUS
    <2>1. n + 1 \in 1 .. N /\ n <= N /\ (n + 1) - 1 = n
      BY <1>1
    <2>2. f[n] \in Parsed /\ Read(sdp, n, f[n])
      BY <1>4, <2>1
    <2>3. f[n + 1] = ReadLine(f[n], sdp[n + 1])
      BY <1>2, <2>1
    <2> QED BY <1>1, <2>1, <2>2, <2>3, ReadOn, ReadLineParsed
  <1>5. N \in T
    <2> HIDE DEF T
    <2> QED BY <1>1, <1>3, <1>4, CountUp
  <1>6. N <= N
    BY <1>1
  <1> QED BY <1>2, <1>5, <1>6

LEMMA AnswerParsed ==
    ASSUME NEW sdp \in Sdp
    PROVE  Parse(sdp) \in Parsed
  BY SdpAssumption, ParseReads

-----------------------------------------------------------------------------
(* A point of a handler that knows the transports D.                       *)
Point(D) == [ts : [D -> Record], pc : PcState \cup {NULL}]

(* v is such a point; it differs from w in transport t only, which is x.   *)
Alters(D, w, v, t, x) ==
    /\ v \in Point(D) /\ v.ts[t] = x
    /\ \A u \in D \ {t} : v.ts[u] = w.ts[u]

(* What the operators on points do to the transport they are applied to.   *)
Dtls(x, s) == IF x.dtls = s THEN x ELSE Srtp([x EXCEPT !.dtls = s])

Started(x) == [Dtls(x, "connecting") EXCEPT !.hello = FALSE]

Start(x) == IF x.ssl /\ x.ice_writable THEN Started(x) ELSE x

SetUp(x) ==
    LET y == [x EXCEPT !.ssl = TRUE, !.session = @ + 1]
    IN IF x.fingerprint \in Odd THEN Dtls(y, "failed") ELSE Start(y)

-----------------------------------------------------------------------------
LEMMA AggregateTypes ==
    ASSUME NEW ts PROVE IceAggregate(ts) \in IceState /\ PcAggregate(ts) \in PcState
  BY DEF IceAggregate, PcAggregate, IceState, PcState

LEMMA WithAlters ==
    ASSUME NEW D, NEW w \in Point(D), NEW t \in D, NEW x \in Record
    PROVE  Alters(D, w, With(w, t, x), t, x)
  BY DEF Point, With, Alters

LEMMA UpdatedAlters ==
    ASSUME NEW D, NEW w \in Point(D), NEW v, NEW t \in D, NEW x, Alters(D, w, v, t, x)
    PROVE  Alters(D, w, Updated(v), t, x)
  <1>1. PcAggregate(v.ts) \in PcState
    BY AggregateTypes
  <1>2. Updated(v) \in Point(D) /\ Updated(v).ts = v.ts
    BY <1>1 DEF Updated, Alters, Point
  <1> QED BY <1>2 DEF Alters

(* Two changes of the same transport are one.                              *)
LEMMA AltersTwice ==
    ASSUME NEW D, NEW w, NEW v, NEW u, NEW t, NEW x, NEW y,
           Alters(D, w, v, t, x), Alters(D, v, u, t, y)
    PROVE  Alters(D, w, u, t, y)
  BY DEF Alters

LEMMA Unaltered ==
    ASSUME NEW D, NEW w \in Point(D), NEW t \in D
    PROVE  Alters(D, w, w, t, w.ts[t]) /\ w.ts[t] \in Record
  BY DEF Alters, Point

LEMMA SetWritableAlters ==
    ASSUME NEW D, NEW w \in Point(D), NEW t \in D, NEW b \in BOOLEAN
    PROVE  /\ [w.ts[t] EXCEPT !.writable = b] \in Record
           /\ Alters(D, w, SetWritable(w, t, b), t, [w.ts[t] EXCEPT !.writable = b])
  <1>1. w.ts[t] \in Record
    BY Unaltered
  <1>2. [w.ts[t] EXCEPT !.writable = b] \in Record
    BY <1>1 DEF Record
  <1>3. CASE w.ts[t].writable = b
    <2>1. [w.ts[t] EXCEPT !.writable = b] = w.ts[t]
      BY <1>1, <1>3 DEF Record
    <2> QED BY <1>2, <1>3, <2>1, Unaltered DEF SetWritable
  <1>4. CASE w.ts[t].writable # b
    BY <1>2, <1>4, WithAlters, UpdatedAlters DEF SetWritable
  <1> QED BY <1>2, <1>3, <1>4

LEMMA SrtpTypes ==
    ASSUME NEW x \in Record
    PROVE  /\ Srtp(x) \in Record
           /\ Srtp(x) = [x EXCEPT !.keys = Srtp(x).keys]
           /\ Srtp(x).keys = IF x.dtls = "connected"
                             THEN IF x.keys = NoKeys /\ x.writable /\ x.installed
                                  THEN x.session ELSE x.keys
                             ELSE NoKeys
  <1>1. MaxSessions \in Nat /\ NoKeys \in 0 .. MaxSessions
    BY SessionsAssumption DEF NoKeys
  <1>2. x.session \in 0 .. MaxSessions /\ x.keys \in 0 .. MaxSessions
    BY DEF Record
  <1>3. \A k \in 0 .. MaxSessions : [x EXCEPT !.keys = k] \in Record /\ [x EXCEPT !.keys = k].keys = k
    BY DEF Record
  <1>4. x = [x EXCEPT !.keys = x.keys]
    BY DEF Record
  <1> QED BY <1>1, <1>2, <1>3, <1>4 DEF Srtp, MaybeSetup

LEMMA DtlsTypes ==
    ASSUME NEW x \in Record, NEW s \in DtlsState
    PROVE  Dtls(x, s) \in Record /\ [x EXCEPT !.dtls = s] \in Record
  <1>1. [x EXCEPT !.dtls = s] \in Record
    BY DEF Record
  <1> QED BY <1>1, SrtpTypes DEF Dtls

LEMMA SetDtlsAlters ==
    ASSUME NEW D, NEW w \in Point(D), NEW t \in D, NEW s \in DtlsState
    PROVE  /\ Dtls(w.ts[t], s) \in Record
           /\ Alters(D, w, SetDtls(w, t, s), t, Dtls(w.ts[t], s))
  <1> DEFINE y == [w.ts[t] EXCEPT !.dtls = s]
             v == Updated(With(w, t, y))
  <1>1. w.ts[t] \in Record
    BY Unaltered
  <1>2. y \in Record /\ Dtls(w.ts[t], s) \in Record
    BY <1>1, DtlsTypes
  <1>3. CASE w.ts[t].dtls = s
    BY <1>2, <1>3, Unaltered DEF SetDtls, Dtls
  <1>4. CASE w.ts[t].dtls # s
    <2>1. Alters(D, w, v, t, y)
      BY <1>2, WithAlters, UpdatedAlters
    <2>2. v \in Point(D) /\ v.ts[t] = y
      BY <2>1 DEF Alters
    <2>3. Srtp(y) = Dtls(w.ts[t], s) /\ SetDtls(w, t, s) = With(v, t, Srtp(v.ts[t]))
      BY <1>4 DEF SetDtls, Dtls
    <2> HIDE DEF v, y
    <2>4. Alters(D, v, With(v, t, Srtp(y)), t, Srtp(y))
      BY <1>2, <2>2, <2>3, WithAlters
    <2> QED BY <1>2, <2>1, <2>2, <2>3, <2>4, AltersTwice
  <1> QED BY <1>3, <1>4

LEMMA StartedTypes ==
    ASSUME NEW x \in Record
    PROVE  Started(x) \in Record
  <1>1. Dtls(x, "connecting") \in Record
    BY DtlsTypes DEF DtlsState
  <1> QED BY <1>1 DEF Started, Record

LEMMA MaybeStartAlters ==
    ASSUME NEW D, NEW w \in Point(D), NEW t \in D
    PROVE  /\ Start(w.ts[t]) \in Record
           /\ Alters(D, w, MaybeStart(w, t), t, Start(w.ts[t]))
  <1> DEFINE v == SetDtls(w, t, "connecting")
             x == Dtls(w.ts[t], "connecting")
  <1>1. w.ts[t] \in Record
    BY Unaltered
  <1>2. CASE w.ts[t].ssl /\ w.ts[t].ice_writable
    <2>1. Alters(D, w, v, t, x)
      BY SetDtlsAlters DEF DtlsState
    <2>2. v \in Point(D) /\ v.ts[t] = x
      BY <2>1 DEF Alters
    <2>3. [x EXCEPT !.hello = FALSE] = Started(w.ts[t]) /\ Started(w.ts[t]) \in Record
      BY <1>1, StartedTypes DEF Started
    <2>4. /\ MaybeStart(w, t) = With(v, t, [v.ts[t] EXCEPT !.hello = FALSE])
          /\ Start(w.ts[t]) = Started(w.ts[t])
      BY <1>2 DEF MaybeStart, Start
    <2> HIDE DEF v, x
    <2>5. Alters(D, v, MaybeStart(w, t), t, Started(w.ts[t]))
      BY <2>2, <2>3, <2>4, WithAlters
    <2> QED BY <2>1, <2>3, <2>4, <2>5, AltersTwice
  <1>3. CASE ~(w.ts[t].ssl /\ w.ts[t].ice_writable)
    BY <1>3, Unaltered DEF MaybeStart, Start
  <1> QED BY <1>2, <1>3

LEMMA SetupAlters ==
    ASSUME NEW D, NEW w \in Point(D), NEW t \in D, w.ts[t].session < MaxSessions
    PROVE  /\ SetUp(w.ts[t]) \in Record
           /\ Alters(D, w, Setup(w, t), t, SetUp(w.ts[t]))
  <1> DEFINE y == [w.ts[t] EXCEPT !.ssl = TRUE, !.session = @ + 1]
             v == With(w, t, y)
  <1>1. w.ts[t] \in Record /\ w.ts[t].session + 1 \in 0 .. MaxSessions
    <2>1. w.ts[t] \in Record
      BY Unaltered
    <2>2. w.ts[t].session \in 0 .. MaxSessions
      BY <2>1 DEF Record
    <2> QED BY <2>1, <2>2, SessionsAssumption
  <1>2. y \in Record
    BY <1>1 DEF Record
  <1>3. Alters(D, w, v, t, y)
    BY <1>2, WithAlters
  <1>4. v \in Point(D) /\ v.ts[t] = y
    BY <1>3 DEF Alters
  <1>5. IF w.ts[t].fingerprint \in Odd
        THEN SetUp(w.ts[t]) = Dtls(y, "failed") /\ Setup(w, t) = SetDtls(v, t, "failed")
        ELSE SetUp(w.ts[t]) = Start(y) /\ Setup(w, t) = MaybeStart(v, t)
    BY DEF SetUp, Setup
  <1> HIDE DEF v, y
  <1>6. /\ Start(y) \in Record /\ Alters(D, v, MaybeStart(v, t), t, Start(y))
        /\ Dtls(y, "failed") \in Record /\ Alters(D, v, SetDtls(v, t, "failed"), t, Dtls(y, "failed"))
    BY <1>4, MaybeStartAlters, SetDtlsAlters DEF DtlsState
  <1> QED BY <1>3, <1>5, <1>6, AltersTwice

-----------------------------------------------------------------------------
(* The keys of a transport.                                                *)
KeysOf(x) ==
    x.keys = IF x.dtls = "connected" /\ x.installed THEN x.session ELSE NoKeys

(* Its stream, which a transport that shakes hands always has.             *)
Stream(x) ==
    /\ x.hello \/ x.fingerprint # NULL => x.ssl
    /\ x.dtls \in {"connecting", "connected"} => x.ssl
    /\ x.ssl => x.session # 0

Proper(x) ==
    /\ x \in Record /\ KeysOf(x) /\ Stream(x)
    /\ x.ssl /\ x.ice_writable => x.dtls # "new"

(* It may lose its keys, and gets no others.                               *)
Sheds(x, y) == y.keys \in {x.keys, NoKeys}

ProperlyAlters(D, w, v, t) ==
    /\ v \in Point(D) /\ Proper(v.ts[t])
    /\ \A u \in D \ {t} : v.ts[u] = w.ts[u]

LEMMA ProperAlters ==
    ASSUME NEW D, NEW w, NEW v, NEW t, NEW x, Alters(D, w, v, t, x), Proper(x)
    PROVE  ProperlyAlters(D, w, v, t)
  BY DEF Alters, ProperlyAlters

(* y differs from x at most in these fields.                               *)
SameStream(x, y) ==
    /\ y.ssl = x.ssl /\ y.hello = x.hello /\ y.fingerprint = x.fingerprint
    /\ y.ice_writable = x.ice_writable /\ y.session = x.session
    /\ y.writable = x.writable /\ y.installed = x.installed

LEMMA DtlsLeft ==
    ASSUME NEW x \in Record, NEW s \in DtlsState \ {"connected"}, KeysOf(x)
    PROVE  /\ Dtls(x, s) \in Record /\ KeysOf(Dtls(x, s)) /\ Dtls(x, s).dtls = s
           /\ SameStream(x, Dtls(x, s))
  <1>1. CASE x.dtls = s
    BY <1>1 DEF Dtls, SameStream
  <1>2. CASE x.dtls # s
    <2>1. PICK y : y = [x EXCEPT !.dtls = s]
      OBVIOUS
    <2>2. y \in Record /\ y.dtls = s /\ SameStream(x, y)
      BY <2>1 DEF Record, SameStream
    <2>3. Dtls(x, s) = Srtp(y)
      BY <1>2, <2>1 DEF Dtls
    <2>4. Srtp(y) = [y EXCEPT !.keys = Srtp(y).keys] /\ Srtp(y) \in Record /\ Srtp(y).keys = NoKeys
      BY <2>2, SrtpTypes
    <2>5. PICK k : k = Srtp(y).keys
      OBVIOUS
    <2>6. Srtp(y) = [y EXCEPT !.keys = k]
      BY <2>4, <2>5
    <2>7. Srtp(y).dtls = s /\ SameStream(y, Srtp(y))
      BY <2>2, <2>6 DEF Record, SameStream
    <2> QED BY <2>2, <2>3, <2>4, <2>7 DEF KeysOf, SameStream
  <1> QED BY <1>1, <1>2

LEMMA StartProper ==
    ASSUME NEW x \in Record, KeysOf(x), Stream(x)
    PROVE  Proper(Start(x)) /\ Sheds(x, Start(x))
  <1>1. CASE x.ssl /\ x.ice_writable
    <2>1. PICK y : y = Dtls(x, "connecting")
      OBVIOUS
    <2>2. y \in Record /\ KeysOf(y) /\ y.dtls = "connecting" /\ SameStream(x, y)
      BY <2>1, DtlsLeft DEF DtlsState
    <2>3. Start(x) = [y EXCEPT !.hello = FALSE]
      BY <1>1, <2>1 DEF Start, Started
    <2>4. PICK z : z = [y EXCEPT !.hello = FALSE]
      OBVIOUS
    <2>5. /\ z \in Record /\ z.keys = y.keys /\ z.dtls = y.dtls /\ z.installed = y.installed
          /\ z.session = y.session /\ z.ssl = y.ssl /\ ~z.hello
      BY <2>2, <2>4 DEF Record
    <2>6. Proper(z) /\ z.keys = NoKeys
      BY <1>1, <2>2, <2>5 DEF Proper, KeysOf, Stream, SameStream
    <2> QED BY <2>3, <2>4, <2>6 DEF Sheds
  <1>2. CASE ~(x.ssl /\ x.ice_writable)
    BY <1>2 DEF Start, Proper, Sheds
  <1> QED BY <1>1, <1>2

(* A new stream may only come when the keys of the last one are gone.      *)
LEMMA SetUpProper ==
    ASSUME NEW x \in Record, KeysOf(x), x.session < MaxSessions, x.dtls # "connected"
    PROVE  Proper(SetUp(x)) /\ Sheds(x, SetUp(x))
  <1>1. PICK y : y = [x EXCEPT !.ssl = TRUE, !.session = @ + 1]
    OBVIOUS
  <1>2. x.session \in 0 .. MaxSessions /\ x.session + 1 \in 0 .. MaxSessions
    <2>1. x.session \in 0 .. MaxSessions
      BY DEF Record
    <2> QED BY <2>1, SessionsAssumption
  <1>3. y \in Record /\ y.keys = x.keys /\ y.dtls = x.dtls /\ y.ssl /\ y.session = x.session + 1
    BY <1>1, <1>2 DEF Record
  <1>4. KeysOf(y) /\ Stream(y)
    <2>1. y.session # 0
      BY <1>2, <1>3, SessionsAssumption
    <2> QED BY <1>3, <2>1 DEF KeysOf, Stream
  <1>5. CASE x.fingerprint \in Odd
    <2>1. PICK z : z = Dtls(y, "failed")
      OBVIOUS
    <2>2. z \in Record /\ KeysOf(z) /\ z.dtls = "failed" /\ SameStream(y, z)
      BY <1>3, <1>4, <2>1, DtlsLeft DEF DtlsState
    <2>3. Proper(z) /\ z.keys = NoKeys
      BY <1>3, <1>4, <2>2 DEF Proper, Stream, SameStream, KeysOf
    <2> QED BY <1>1, <1>5, <2>1, <2>3 DEF SetUp, Sheds
  <1>6. CASE x.fingerprint \notin Odd
    BY <1>1, <1>3, <1>4, <1>6, StartProper DEF SetUp, Sheds
  <1> QED BY <1>5, <1>6

LEMMA WritableKeeps ==
    ASSUME NEW x \in Record, NEW b \in BOOLEAN, Proper(x)
    PROVE  Proper([x EXCEPT !.writable = b]) /\ [x EXCEPT !.writable = b].keys = x.keys
  <1>1. PICK y : y = [x EXCEPT !.writable = b]
    OBVIOUS
  <1>2. /\ y \in Record /\ y.keys = x.keys /\ y.dtls = x.dtls /\ y.installed = x.installed
        /\ y.session = x.session /\ y.ssl = x.ssl /\ y.hello = x.hello
        /\ y.fingerprint = x.fingerprint /\ y.ice_writable = x.ice_writable
    BY <1>1 DEF Record
  <1>3. Proper(y)
    BY <1>2 DEF Proper, KeysOf, Stream
  <1> QED BY <1>1, <1>2, <1>3

-----------------------------------------------------------------------------
LEMMA OnWritableProper ==
    ASSUME NEW D, NEW w \in Point(D), NEW t \in D, KeysOf(w.ts[t]), Stream(w.ts[t])
    PROVE  /\ ProperlyAlters(D, w, OnWritable(w, t), t)
           /\ Sheds(w.ts[t], OnWritable(w, t).ts[t])
  <1>1. w.ts[t] \in Record /\ Alters(D, w, w, t, w.ts[t])
    BY Unaltered
  <1>2. CASE w.ts[t].dtls = "new"
    <2>1. OnWritable(w, t) = MaybeStart(w, t)
      BY <1>2 DEF OnWritable
    <2> QED BY <1>1, <2>1, MaybeStartAlters, StartProper, ProperAlters DEF Alters
  <1>3. CASE w.ts[t].dtls # "new"
    <2>1. Proper(w.ts[t]) /\ w.ts[t].ice_writable \in BOOLEAN
      BY <1>1, <1>3 DEF Proper, Record
    <2>2. CASE w.ts[t].dtls = "connected"
      <3>1. PICK b, y : b = w.ts[t].ice_writable /\ y = [w.ts[t] EXCEPT !.writable = b]
        OBVIOUS
      <3>2. OnWritable(w, t) = SetWritable(w, t, b) /\ b \in BOOLEAN
        BY <2>1, <2>2, <3>1 DEF OnWritable
      <3>3. Alters(D, w, SetWritable(w, t, b), t, y)
        BY <3>1, <3>2, SetWritableAlters
      <3>4. Proper(y) /\ y.keys = w.ts[t].keys
        BY <1>1, <2>1, <3>1, <3>2, WritableKeeps
      <3> QED BY <3>2, <3>3, <3>4, ProperAlters DEF Alters, Sheds
    <2>3. CASE w.ts[t].dtls # "connected"
      BY <1>1, <1>3, <2>1, <2>3, ProperAlters DEF OnWritable, Sheds
    <2> QED BY <2>2, <2>3
  <1> QED BY <1>2, <1>3

LEMMA SetFingerprintProper ==
    ASSUME NEW D, NEW w \in Point(D), NEW t \in D, NEW f \in Good \cup Bad, Proper(w.ts[t]),
           w.ts[t].session < MaxSessions \/ f = w.ts[t].fingerprint
    PROVE  /\ ProperlyAlters(D, w, SetFingerprint(w, t, f), t)
           /\ Sheds(w.ts[t], SetFingerprint(w, t, f).ts[t])
  <1>1. PICK x, y, v : /\ x = w.ts[t] /\ y = [x EXCEPT !.fingerprint = f]
                       /\ v = With(w, t, y)
    OBVIOUS
  <1>2. /\ x \in Record /\ y \in Record /\ y.fingerprint = f /\ y.ssl = x.ssl /\ y.dtls = x.dtls
        /\ y.keys = x.keys /\ y.session = x.session /\ y.installed = x.installed
        /\ y.hello = x.hello /\ y.ice_writable = x.ice_writable
    BY <1>1, Unaltered DEF Record
  <1>3. Alters(D, w, v, t, y) /\ v \in Point(D) /\ v.ts[t] = y
    BY <1>1, <1>2, WithAlters DEF Alters
  <1>4. KeysOf(y)
    BY <1>1, <1>2 DEF Proper, KeysOf
  <1>5. CASE x.fingerprint = f
    BY <1>1, <1>5, Unaltered, ProperAlters DEF SetFingerprint, Sheds
  <1>6. CASE x.fingerprint # f /\ ~x.ssl
    <2>1. SetFingerprint(w, t, f) = Setup(v, t)
      BY <1>1, <1>6 DEF SetFingerprint
    <2>2. y.session < MaxSessions /\ y.dtls # "connected"
      BY <1>1, <1>2, <1>6 DEF Proper, Stream
    <2>3. Alters(D, v, Setup(v, t), t, SetUp(y)) /\ Proper(SetUp(y)) /\ Sheds(y, SetUp(y))
      BY <1>2, <1>3, <1>4, <2>2, SetupAlters, SetUpProper
    <2> QED BY <1>1, <1>2, <1>3, <2>1, <2>3, AltersTwice, ProperAlters DEF Sheds, Alters
  <1>7. CASE x.fingerprint # f /\ x.ssl /\ x.fingerprint # NULL
    <2>1. SetFingerprint(w, t, f) = Setup(Reset(v, t), t)
      BY <1>1, <1>7 DEF SetFingerprint
    <2>2. PICK z, v1, v2, v3 :
              /\ z = [y EXCEPT !.ssl = FALSE] /\ v1 = With(v, t, z)
              /\ v2 = SetDtls(v1, t, "new") /\ v3 = SetWritable(v2, t, FALSE)
      OBVIOUS
    <2>3. Reset(v, t) = v3
      BY <1>3, <2>2 DEF Reset
    <2>4. /\ z \in Record /\ KeysOf(z) /\ z.session = y.session
      BY <1>2, <1>4, <2>2 DEF Record, KeysOf
    <2>5. Alters(D, v, v1, t, z) /\ v1 \in Point(D) /\ v1.ts[t] = z
      <3>1. Alters(D, v, v1, t, z)
        BY <1>3, <2>2, <2>4, WithAlters
      <3> QED BY <3>1 DEF Alters
    <2>6. PICK a : a = Dtls(z, "new")
      OBVIOUS
    <2>7. a \in Record /\ KeysOf(a) /\ a.dtls = "new" /\ a.session = z.session
      BY <2>4, <2>6, DtlsLeft DEF DtlsState, SameStream
    <2>8. Alters(D, v1, v2, t, a) /\ v2 \in Point(D) /\ v2.ts[t] = a
      <3>1. Alters(D, v1, v2, t, a)
        BY <2>2, <2>5, <2>6, SetDtlsAlters DEF DtlsState
      <3> QED BY <3>1 DEF Alters
    <2>9. PICK b : b = [a EXCEPT !.writable = FALSE]
      OBVIOUS
    <2>10. Alters(D, v2, v3, t, b) /\ v3 \in Point(D) /\ v3.ts[t] = b
      <3>1. Alters(D, v2, v3, t, b)
        BY <2>2, <2>8, <2>9, SetWritableAlters
      <3> QED BY <3>1 DEF Alters
    <2>11. b \in Record /\ KeysOf(b) /\ b.dtls = "new" /\ b.session = a.session /\ b.keys = NoKeys
      BY <2>7, <2>9 DEF Record, KeysOf
    <2>12. b.session < MaxSessions
      BY <1>1, <1>2, <1>7, <2>4, <2>7, <2>11
    <2>13. Alters(D, v3, Setup(v3, t), t, SetUp(b)) /\ Proper(SetUp(b)) /\ Sheds(b, SetUp(b))
      BY <2>10, <2>11, <2>12, SetupAlters, SetUpProper
    <2>14. Alters(D, w, v2, t, a)
      BY <1>3, <2>5, <2>8, AltersTwice
    <2>15. Alters(D, w, Setup(v3, t), t, SetUp(b))
      BY <2>10, <2>13, <2>14, AltersTwice
    <2> QED BY <2>1, <2>3, <2>11, <2>13, <2>15, ProperAlters DEF Sheds, Alters
  <1>8. CASE x.fingerprint # f /\ x.ssl /\ x.fingerprint = NULL /\ f \in Bad
    <2>1. SetFingerprint(w, t, f) = SetDtls(v, t, "failed")
      BY <1>1, <1>8 DEF SetFingerprint
    <2>2. PICK a : a = Dtls(y, "failed")
      OBVIOUS
    <2>3. a \in Record /\ KeysOf(a) /\ a.dtls = "failed" /\ SameStream(y, a)
      BY <1>2, <1>4, <2>2, DtlsLeft DEF DtlsState
    <2>4. Proper(a) /\ a.keys = NoKeys
      BY <1>1, <1>2, <1>8, <2>3 DEF Proper, Stream, SameStream, KeysOf
    <2>5. Alters(D, v, SetDtls(v, t, "failed"), t, a)
      BY <1>3, <2>2, SetDtlsAlters DEF DtlsState
    <2> QED BY <1>3, <2>1, <2>4, <2>5, AltersTwice, ProperAlters DEF Sheds, Alters
  <1>9. CASE x.fingerprint # f /\ x.ssl /\ x.fingerprint = NULL /\ f \notin Bad
    <2>1. SetFingerprint(w, t, f) = v
      BY <1>1, <1>9 DEF SetFingerprint
    <2>2. Proper(y)
      BY <1>1, <1>2, <1>4, <1>9 DEF Proper, Stream
    <2> QED BY <1>1, <1>2, <1>3, <2>1, <2>2, ProperAlters DEF Sheds
  <1> QED BY <1>5, <1>6, <1>7, <1>8, <1>9

-----------------------------------------------------------------------------
(* The aggregate of a point of a handler follows its transports: their ICE *)
(* states are those of w, and the controller has just computed its own, or *)
(* has not and no DTLS state has changed.                                  *)
SameIce(D, w, v) ==
    \A u \in D : v.ts[u].ice = w.ts[u].ice /\ v.ts[u].ice_writable = w.ts[u].ice_writable

SameDtls(D, w, v) == \A u \in D : v.ts[u].dtls = w.ts[u].dtls

Follows(D, w, v) ==
    /\ v \in Point(D) /\ SameIce(D, w, v)
    /\ v.pc = PcAggregate(v.ts) \/ (v.pc = w.pc /\ SameDtls(D, w, v))

LEMMA SameAggregate ==
    ASSUME NEW D, NEW ts \in [D -> Record], NEW us \in [D -> Record],
           \A u \in D : us[u].ice = ts[u].ice /\ us[u].dtls = ts[u].dtls
    PROVE  PcAggregate(us) = PcAggregate(ts)
  <1>1. DOMAIN ts = D /\ DOMAIN us = D
    OBVIOUS
  <1>2. /\ {us[t].ice : t \in D} = {ts[t].ice : t \in D}
        /\ {us[t].dtls : t \in D} = {ts[t].dtls : t \in D}
    OBVIOUS
  <1> QED BY <1>1, <1>2 DEF PcAggregate

LEMMA SameIceAggregate ==
    ASSUME NEW D, NEW ts \in [D -> Record], NEW us \in [D -> Record],
           \A u \in D : us[u].ice = ts[u].ice
    PROVE  IceAggregate(us) = IceAggregate(ts)
  <1>1. DOMAIN ts = D /\ DOMAIN us = D
    OBVIOUS
  <1>2. {us[t].ice : t \in D} = {ts[t].ice : t \in D}
    OBVIOUS
  <1> QED BY <1>1, <1>2 DEF IceAggregate

(* A change of a channel that leaves IceAgent's state as it is leaves the  *)
(* controller's too.                                                       *)
LEMMA IceAggregateDecides ==
    ASSUME NEW D, NEW ts \in [D -> Record], NEW us \in [D -> Record],
           \A u \in D : us[u].dtls = ts[u].dtls, IceAggregate(us) = IceAggregate(ts)
    PROVE  PcAggregate(us) = PcAggregate(ts)
  <1>1. DOMAIN ts = D /\ DOMAIN us = D
    OBVIOUS
  <1>2. PICK I, J, K : /\ I = {ts[t].ice : t \in D} /\ J = {us[t].ice : t \in D}
                       /\ K = {ts[t].dtls : t \in D} /\ K = {us[t].dtls : t \in D}
    OBVIOUS
  <1>3. I \subseteq IceState /\ J \subseteq IceState /\ K \subseteq DtlsState
    BY <1>2 DEF Record
  <1>4. (I = {} <=> D = {}) /\ (J = {} <=> D = {})
    <2>1. ASSUME NEW t \in D PROVE ts[t].ice \in I /\ us[t].ice \in J
      BY <1>2
    <2>2. D = {} => I = {} /\ J = {}
      BY <1>2
    <2> QED BY <2>1, <2>2
  <1> DEFINE Agg(S) == IF "failed" \in S THEN "failed"
                       ELSE IF "disconnected" \in S THEN "disconnected"
                       ELSE IF S \subseteq {"new"} THEN "new"
                       ELSE IF S \cap {"new", "checking"} # {} THEN "checking"
                       ELSE "connected"
  <1>6. Agg(I) = Agg(J)
    BY <1>1, <1>2 DEF IceAggregate
  <1>7. /\ "failed" \in I <=> "failed" \in J
        /\ "failed" \notin I => ("disconnected" \in I <=> "disconnected" \in J)
    BY <1>6
  <1>8. CASE "failed" \in I \/ "disconnected" \in I
    BY <1>1, <1>2, <1>7, <1>8 DEF PcAggregate
  <1>9. CASE "failed" \notin I /\ "disconnected" \notin I
    <2>1. /\ I \subseteq {"new"} <=> J \subseteq {"new"}
          /\ I \cap {"new", "checking"} # {} <=> J \cap {"new", "checking"} # {}
      BY <1>3, <1>4, <1>6, <1>7, <1>9 DEF IceState
    <2>2. /\ I \cup K \subseteq {"new", "closed"} <=> J \cup K \subseteq {"new", "closed"}
          /\ (I \cup K) \cap {"checking", "connecting", "new"} # {}
             <=> (J \cup K) \cap {"checking", "connecting", "new"} # {}
      BY <1>3, <2>1 DEF IceState
    <2> QED BY <1>1, <1>2, <1>7, <1>9, <2>2 DEF PcAggregate
  <1> QED BY <1>8, <1>9

LEMMA FollowsTwice ==
    ASSUME NEW D, NEW w \in Point(D), NEW v, NEW u, Follows(D, w, v), Follows(D, v, u)
    PROVE  Follows(D, w, u)
  <1>1. u \in Point(D) /\ v \in Point(D) /\ SameIce(D, w, u)
    BY DEF Follows, SameIce
  <1>2. CASE u.pc = PcAggregate(u.ts)
    BY <1>1, <1>2 DEF Follows
  <1>3. CASE u.pc = v.pc /\ SameDtls(D, v, u)
    <2>1. PcAggregate(u.ts) = PcAggregate(v.ts)
      <3>1. v.ts \in [D -> Record] /\ u.ts \in [D -> Record]
        BY <1>1 DEF Point
      <3> QED BY <1>3, <3>1, SameAggregate DEF Follows, SameIce, SameDtls
    <2> QED BY <1>1, <1>3, <2>1 DEF Follows, SameDtls
  <1> QED BY <1>2, <1>3 DEF Follows

LEMMA FollowsItself ==
    ASSUME NEW D, NEW w \in Point(D)
    PROVE  Follows(D, w, w)
  BY DEF Follows, SameIce, SameDtls

(* A change of other fields needs no new aggregate, one of DTLS does.      *)
LEMMA WithFollows ==
    ASSUME NEW D, NEW w \in Point(D), NEW t \in D, NEW x \in Record,
           x.ice = w.ts[t].ice, x.ice_writable = w.ts[t].ice_writable
    PROVE  /\ x.dtls = w.ts[t].dtls => Follows(D, w, With(w, t, x))
           /\ Follows(D, w, Updated(With(w, t, x)))
  <1>1. PICK v : v = With(w, t, x)
    OBVIOUS
  <1>2. v \in Point(D) /\ v.ts[t] = x /\ v.pc = w.pc /\ \A u \in D \ {t} : v.ts[u] = w.ts[u]
    BY <1>1 DEF With, Point
  <1>3. PcAggregate(v.ts) \in PcState
    BY AggregateTypes
  <1>4. PICK u : u = Updated(v)
    OBVIOUS
  <1>5. u \in Point(D) /\ u.ts = v.ts /\ u.pc = PcAggregate(u.ts)
    BY <1>2, <1>3, <1>4 DEF Updated, Point
  <1> QED BY <1>1, <1>2, <1>4, <1>5 DEF Follows, SameIce, SameDtls

LEMMA SetWritableFollows ==
    ASSUME NEW D, NEW w \in Point(D), NEW t \in D, NEW b \in BOOLEAN
    PROVE  Follows(D, w, SetWritable(w, t, b))
  <1>1. PICK x : x = [w.ts[t] EXCEPT !.writable = b]
    OBVIOUS
  <1>2. w.ts[t] \in Record
    BY Unaltered
  <1>3. x \in Record /\ x.ice = w.ts[t].ice /\ x.ice_writable = w.ts[t].ice_writable
    BY <1>1, <1>2 DEF Record
  <1> QED BY <1>1, <1>3, WithFollows, FollowsItself DEF SetWritable

LEMMA SetDtlsFollows ==
    ASSUME NEW D, NEW w \in Point(D), NEW t \in D, NEW s \in DtlsState
    PROVE  Follows(D, w, SetDtls(w, t, s))
  <1>1. CASE w.ts[t].dtls = s
    BY <1>1, FollowsItself DEF SetDtls
  <1>2. CASE w.ts[t].dtls # s
    <2>1. PICK y, v : y = [w.ts[t] EXCEPT !.dtls = s] /\ v = Updated(With(w, t, y))
      OBVIOUS
    <2>2. y \in Record /\ y.ice = w.ts[t].ice /\ y.ice_writable = w.ts[t].ice_writable
      BY <2>1, Unaltered DEF Record
    <2>3. Follows(D, w, v)
      BY <2>1, <2>2, WithFollows
    <2>4. v \in Point(D) /\ v.ts[t] = y
      <3>1. Alters(D, w, v, t, y)
        BY <2>1, <2>2, WithAlters, UpdatedAlters
      <3> QED BY <3>1 DEF Alters
    <2>5. PICK z, k : k = Srtp(y).keys /\ z = Srtp(y)
      OBVIOUS
    <2>6. z \in Record /\ z = [y EXCEPT !.keys = k]
      BY <2>2, <2>5, SrtpTypes
    <2>7. z.ice = y.ice /\ z.ice_writable = y.ice_writable /\ z.dtls = y.dtls
      BY <2>2, <2>6 DEF Record
    <2>8. Follows(D, v, With(v, t, z))
      BY <2>4, <2>6, <2>7, WithFollows
    <2>9. SetDtls(w, t, s) = With(v, t, z)
      BY <1>2, <2>1, <2>4, <2>5 DEF SetDtls
    <2> QED BY <2>3, <2>8, <2>9, FollowsTwice
  <1> QED BY <1>1, <1>2

LEMMA MaybeStartFollows ==
    ASSUME NEW D, NEW w \in Point(D), NEW t \in D
    PROVE  Follows(D, w, MaybeStart(w, t))
  <1>1. CASE w.ts[t].ssl /\ w.ts[t].ice_writable
    <2>1. PICK v, y : v = SetDtls(w, t, "connecting") /\ y = [v.ts[t] EXCEPT !.hello = FALSE]
      OBVIOUS
    <2>2. Follows(D, w, v) /\ v \in Point(D)
      BY <2>1, SetDtlsFollows DEF DtlsState, Follows
    <2>3. y \in Record /\ y.ice = v.ts[t].ice /\ y.ice_writable = v.ts[t].ice_writable /\ y.dtls = v.ts[t].dtls
      <3>1. PICK x : x = v.ts[t]
        OBVIOUS
      <3>2. x \in Record /\ y = [x EXCEPT !.hello = FALSE]
        BY <2>1, <2>2, <3>1, Unaltered
      <3> QED BY <3>1, <3>2 DEF Record
    <2>4. Follows(D, v, With(v, t, y))
      BY <2>2, <2>3, WithFollows
    <2>5. MaybeStart(w, t) = With(v, t, y)
      BY <1>1, <2>1 DEF MaybeStart
    <2> QED BY <2>2, <2>4, <2>5, FollowsTwice
  <1>2. CASE ~(w.ts[t].ssl /\ w.ts[t].ice_writable)
    BY <1>2, FollowsItself DEF MaybeStart
  <1> QED BY <1>1, <1>2

LEMMA SetupFollows ==
    ASSUME NEW D, NEW w \in Point(D), NEW t \in D, w.ts[t].session < MaxSessions
    PROVE  Follows(D, w, Setup(w, t))
  <1>1. PICK y, v : y = [w.ts[t] EXCEPT !.ssl = TRUE, !.session = @ + 1] /\ v = With(w, t, y)
    OBVIOUS
  <1>2. w.ts[t] \in Record /\ w.ts[t].session + 1 \in 0 .. MaxSessions
    <2>1. w.ts[t] \in Record
      BY Unaltered
    <2>2. w.ts[t].session \in 0 .. MaxSessions
      BY <2>1 DEF Record
    <2> QED BY <2>1, <2>2, SessionsAssumption
  <1>3. y \in Record /\ y.ice = w.ts[t].ice /\ y.ice_writable = w.ts[t].ice_writable /\ y.dtls = w.ts[t].dtls
    BY <1>1, <1>2 DEF Record
  <1>4. Follows(D, w, v) /\ v \in Point(D)
    <2>1. Follows(D, w, v)
      BY <1>1, <1>3, WithFollows
    <2> QED BY <2>1 DEF Follows
  <1>5. Setup(w, t) \in {MaybeStart(v, t), SetDtls(v, t, "failed")}
    BY <1>1 DEF Setup
  <1>6. Follows(D, v, MaybeStart(v, t)) /\ Follows(D, v, SetDtls(v, t, "failed"))
    BY <1>4, MaybeStartFollows, SetDtlsFollows DEF DtlsState
  <1> QED BY <1>4, <1>5, <1>6, FollowsTwice

LEMMA OnWritableFollows ==
    ASSUME NEW D, NEW w \in Point(D), NEW t \in D
    PROVE  Follows(D, w, OnWritable(w, t))
  <1>1. w.ts[t].ice_writable \in BOOLEAN
    BY Unaltered DEF Record
  <1> QED BY <1>1, MaybeStartFollows, SetWritableFollows, FollowsItself DEF OnWritable

LEMMA SetFingerprintFollows ==
    ASSUME NEW D, NEW w \in Point(D), NEW t \in D, NEW f \in Good \cup Bad,
           w.ts[t].session < MaxSessions \/ f = w.ts[t].fingerprint
    PROVE  Follows(D, w, SetFingerprint(w, t, f))
  <1>1. PICK x, y, v : /\ x = w.ts[t] /\ y = [x EXCEPT !.fingerprint = f] /\ v = With(w, t, y)
    OBVIOUS
  <1>2. /\ x \in Record /\ y \in Record /\ y.ice = x.ice /\ y.ice_writable = x.ice_writable
        /\ y.dtls = x.dtls /\ y.session = x.session
    BY <1>1, Unaltered DEF Record
  <1>3. Follows(D, w, v) /\ v \in Point(D) /\ v.ts[t] = y
    <2>1. Alters(D, w, v, t, y)
      BY <1>1, <1>2, WithAlters
    <2> QED BY <1>1, <1>2, <2>1, WithFollows DEF Alters
  <1>4. CASE x.fingerprint = f
    BY <1>1, <1>4, FollowsItself DEF SetFingerprint
  <1>5. CASE x.fingerprint # f /\ ~x.ssl
    <2>1. SetFingerprint(w, t, f) = Setup(v, t) /\ y.session < MaxSessions
      BY <1>1, <1>2, <1>5 DEF SetFingerprint
    <2> QED BY <1>3, <2>1, SetupFollows, FollowsTwice
  <1>6. CASE x.fingerprint # f /\ x.ssl /\ x.fingerprint # NULL
    <2>1. PICK z, v1, v2, v3 :
              /\ z = [y EXCEPT !.ssl = FALSE] /\ v1 = With(v, t, z)
              /\ v2 = SetDtls(v1, t, "new") /\ v3 = SetWritable(v2, t, FALSE)
      OBVIOUS
    <2>2. SetFingerprint(w, t, f) = Setup(v3, t)
      BY <1>1, <1>3, <1>6, <2>1 DEF SetFingerprint, Reset
    <2>3. /\ z \in Record /\ z.ice = y.ice /\ z.ice_writable = y.ice_writable /\ z.dtls = y.dtls
          /\ z.session = y.session
      BY <1>2, <2>1 DEF Record
    <2>4. Follows(D, v, v1) /\ v1 \in Point(D) /\ v1.ts[t] = z
      <3>1. Alters(D, v, v1, t, z)
        BY <1>3, <2>1, <2>3, WithAlters
      <3> QED BY <1>3, <2>1, <2>3, <3>1, WithFollows DEF Alters
    <2>5. PICK a : a = Dtls(z, "new")
      OBVIOUS
    <2>6. Follows(D, v1, v2) /\ v2 \in Point(D) /\ v2.ts[t] = a
      <3>1. Alters(D, v1, v2, t, a) /\ Follows(D, v1, v2)
        BY <2>1, <2>4, <2>5, SetDtlsAlters, SetDtlsFollows DEF DtlsState
      <3> QED BY <3>1 DEF Alters
    <2>7. a \in Record /\ a.session = z.session
      <3>1. PICK c, k : c = [z EXCEPT !.dtls = "new"] /\ k = Srtp(c).keys
        OBVIOUS
      <3>2. c \in Record /\ c.session = z.session
        BY <2>3, <3>1 DEF Record, DtlsState
      <3>3. Srtp(c) = [c EXCEPT !.keys = k] /\ Srtp(c) \in Record
        BY <3>1, <3>2, SrtpTypes
      <3>4. Srtp(c).session = c.session
        BY <3>2, <3>3 DEF Record
      <3> QED BY <2>3, <2>5, <3>1, <3>2, <3>3, <3>4 DEF Dtls
    <2>8. Follows(D, v2, v3) /\ v3 \in Point(D) /\ v3.ts[t].session = a.session
      <3>1. PICK b : b = [a EXCEPT !.writable = FALSE]
        OBVIOUS
      <3>2. Follows(D, v2, v3) /\ Alters(D, v2, v3, t, b)
        BY <2>1, <2>6, <3>1, SetWritableAlters, SetWritableFollows
      <3>3. b.session = a.session
        BY <2>7, <3>1 DEF Record
      <3> QED BY <3>2, <3>3 DEF Alters
    <2>9. Follows(D, v3, Setup(v3, t))
      <3>1. v3.ts[t].session < MaxSessions
        BY <1>1, <1>2, <1>6, <2>3, <2>7, <2>8
      <3> QED BY <2>8, <3>1, SetupFollows
    <2>10. Follows(D, w, v1)
      BY <1>3, <2>4, FollowsTwice
    <2>11. Follows(D, w, v2)
      BY <2>6, <2>10, FollowsTwice
    <2>12. Follows(D, w, v3)
      BY <2>8, <2>11, FollowsTwice
    <2> QED BY <2>2, <2>9, <2>12, FollowsTwice
  <1>7. CASE x.fingerprint # f /\ x.ssl /\ x.fingerprint = NULL
    <2>1. SetFingerprint(w, t, f) = IF f \in Bad THEN SetDtls(v, t, "failed") ELSE v
      BY <1>1, <1>7 DEF SetFingerprint
    <2>2. Follows(D, v, SetDtls(v, t, "failed"))
      BY <1>3, SetDtlsFollows DEF DtlsState
    <2> QED BY <1>3, <2>1, <2>2, FollowsTwice
  <1> QED BY <1>4, <1>5, <1>6, <1>7

-----------------------------------------------------------------------------
(* NULL, which the state of the controller never is, marks a point at      *)
(* which it has not been computed.                                         *)
Transports ==
    /\ transport \in [Created -> Record] /\ \A t \in Created : Proper(transport[t])
    /\ pc_state \in PcState \cup {NULL}

LEMMA NowPoint ==
    ASSUME Transports
    PROVE  [Now EXCEPT !.pc = NULL] \in Point(Created) /\ [Now EXCEPT !.pc = NULL].ts = transport
  BY DEF Transports, Now, Point

LEMMA Kept ==
    ASSUME Transports, NEW w, w.ts = transport, NEW t \in Created, NEW v, ProperlyAlters(Created, w, v, t),
           transport' = v.ts, pc_state' \in PcState \cup {NULL}
    PROVE  /\ Transports' /\ Created' = Created
           /\ \A u \in Created \ {t} : transport'[u] = transport[u]
  <1>1. v.ts \in [Created -> Record]
    BY DEF ProperlyAlters, Point
  <1>2. Created' = Created
    BY <1>1 DEF Created
  <1>3. \A u \in Created : Proper(transport'[u])
    BY DEF ProperlyAlters, Transports
  <1> QED BY <1>1, <1>2, <1>3 DEF Transports, ProperlyAlters

LEMMA Handled ==
    ASSUME Transports, NEW t \in Created, NEW v, ProperlyAlters(Created, Now, v, t),
           Finish(v)
    PROVE  /\ Transports' /\ Created' = Created
           /\ \A u \in Created \ {t} : transport'[u] = transport[u]
  <1>1. v.pc \in PcState \cup {NULL}
    BY DEF ProperlyAlters, Point
  <1> QED BY <1>1, Kept DEF Finish, Now

LEMMA OneSheds ==
    ASSUME NEW t \in Created, \A u \in Created \ {t} : transport'[u] = transport[u],
           Sheds(transport[t], transport'[t])
    PROVE  \A u \in Created : Sheds(transport[u], transport'[u])
  BY DEF Sheds

(* _set_writable_state() and then _set_dtls_state().                       *)
LEMMA WritableThenDtls ==
    ASSUME NEW D, NEW w \in Point(D), NEW t \in D, NEW b \in BOOLEAN, NEW s \in DtlsState
    PROVE  Alters(D, w, SetDtls(SetWritable(w, t, b), t, s), t, Dtls([w.ts[t] EXCEPT !.writable = b], s))
  <1>1. PICK x, v : x = [w.ts[t] EXCEPT !.writable = b] /\ v = SetWritable(w, t, b)
    OBVIOUS
  <1>2. Alters(D, w, v, t, x)
    BY <1>1, SetWritableAlters
  <1>3. v \in Point(D) /\ v.ts[t] = x
    BY <1>2 DEF Alters
  <1>4. Alters(D, v, SetDtls(v, t, s), t, Dtls(x, s))
    BY <1>3, SetDtlsAlters
  <1> QED BY <1>1, <1>2, <1>4, AltersTwice

LEMMA NowIs ==
    ASSUME Transports, NEW t \in Created
    PROVE  Now \in Point(Created) /\ Now.ts = transport /\ transport[t] \in Record /\ Proper(transport[t])
  BY DEF Transports, Now, Point

LEMMA OpenKeeps ==
    ASSUME Transports, NEW t \in Created, NEW b \in BOOLEAN, Open(t, b)
    PROVE  /\ Transports' /\ Created' = Created
           /\ \A u \in Created \ {t} : transport'[u] = transport[u]
           /\ transport[t].keys = NoKeys /\ (transport'[t].keys # NoKeys <=> b)
  <1>1. PICK x, y, v : /\ x = transport[t] /\ y = [x EXCEPT !.installed = b] /\ v = With(Now, t, y)
    OBVIOUS
  <1>2. x \in Record /\ Proper(x) /\ x.dtls = "connecting" /\ Now \in Point(Created) /\ Now.ts[t] = x
    BY <1>1, NowIs DEF Open
  <1>3. /\ y \in Record /\ y.installed = b /\ y.keys = NoKeys /\ y.ssl /\ y.session = x.session
        /\ y.dtls = "connecting"
    BY <1>1, <1>2 DEF Record, Proper, KeysOf, Stream
  <1>4. Alters(Created, Now, v, t, y)
    BY <1>1, <1>2, <1>3, WithAlters
  <1>5. v \in Point(Created) /\ v.ts[t] = y
    BY <1>4 DEF Alters
  <1>6. PICK z, u : z = [y EXCEPT !.writable = TRUE] /\ u = SetDtls(SetWritable(v, t, TRUE), t, "connected")
    OBVIOUS
  <1>7. Alters(Created, v, u, t, Dtls(z, "connected"))
    BY <1>5, <1>6, WritableThenDtls DEF DtlsState
  <1>8. PICK a : a = [z EXCEPT !.dtls = "connected"]
    OBVIOUS
  <1>9. /\ a \in Record /\ a.dtls = "connected" /\ a.writable /\ a.installed = b /\ a.keys = NoKeys
        /\ a.ssl /\ a.session = x.session
    BY <1>3, <1>6, <1>8 DEF Record, DtlsState
  <1>10. Dtls(z, "connected") = Srtp(a)
    BY <1>3, <1>6, <1>8 DEF Dtls, Record
  <1>11. PICK k : k = Srtp(a).keys
    OBVIOUS
  <1>12. /\ Srtp(a) \in Record /\ Srtp(a) = [a EXCEPT !.keys = k]
         /\ k = IF b THEN a.session ELSE NoKeys
    BY <1>9, <1>11, SrtpTypes
  <1>13. Proper(Srtp(a)) /\ Srtp(a).keys = k /\ (k # NoKeys <=> b)
    <2>1. x.session # 0
      BY <1>2 DEF Proper, Stream
    <2> QED BY <1>9, <1>12, <2>1 DEF Proper, KeysOf, Stream, Record, NoKeys
  <1>14. ProperlyAlters(Created, Now, u, t) /\ u.ts[t] = Srtp(a)
    <2>1. Alters(Created, Now, u, t, Srtp(a))
      BY <1>4, <1>7, <1>10, AltersTwice
    <2> QED BY <1>13, <2>1, ProperAlters DEF Alters
  <1>15. Finish(u)
    BY <1>1, <1>6 DEF Open
  <1>16. x.keys = NoKeys
    BY <1>2 DEF Proper, KeysOf
  <1> QED BY <1>1, <1>13, <1>14, <1>15, <1>16, Handled DEF Finish

LEMMA CloseKeeps ==
    ASSUME Transports, NEW t \in Created, NEW s \in {"closed", "failed"}, Close(t, s)
    PROVE  /\ Transports' /\ Created' = Created
           /\ \A u \in Created : Sheds(transport[u], transport'[u])
  <1>1. PICK x, y : x = transport[t] /\ y = [x EXCEPT !.writable = FALSE]
    OBVIOUS
  <1>2. x \in Record /\ Proper(x) /\ Now \in Point(Created) /\ Now.ts[t] = x
    BY <1>1, NowIs
  <1>3. Proper(y) /\ y \in Record /\ y.ssl
    <2>1. x.ssl
      BY <1>1, <1>2 DEF Proper, Stream, Close
    <2> QED BY <1>1, <1>2, <2>1, WritableKeeps DEF Record
  <1>4. PICK a, u : a = Dtls(y, s) /\ u = SetDtls(SetWritable(Now, t, FALSE), t, s)
    OBVIOUS
  <1>5. Alters(Created, Now, u, t, a)
    BY <1>1, <1>2, <1>4, WritableThenDtls DEF DtlsState
  <1>6. a \in Record /\ KeysOf(a) /\ a.dtls = s /\ SameStream(y, a)
    BY <1>3, <1>4, DtlsLeft DEF Proper, DtlsState
  <1>7. Proper(a) /\ a.keys = NoKeys /\ u.ts[t] = a
    BY <1>3, <1>5, <1>6 DEF Proper, Stream, SameStream, KeysOf, Alters
  <1>8. Finish(u)
    BY <1>4 DEF Close
  <1>9. Sheds(transport[t], transport'[t])
    BY <1>7, <1>8 DEF Finish, Sheds
  <1> QED BY <1>5, <1>7, <1>8, <1>9, ProperAlters, Handled, OneSheds

LEMMA HelloKeeps ==
    ASSUME Transports, NEW t \in Created, ClientHello(t)
    PROVE  /\ Transports' /\ Created' = Created
           /\ \A u \in Created : Sheds(transport[u], transport'[u])
  <1>1. PICK x, y, v : x = transport[t] /\ y = [x EXCEPT !.hello = TRUE] /\ v = With(Now, t, y)
    OBVIOUS
  <1>2. x \in Record /\ Proper(x) /\ x.dtls = "new" /\ Now \in Point(Created) /\ Now.ts[t] = x
    BY <1>1, NowIs DEF ClientHello
  <1>3. /\ y \in Record /\ y.keys = x.keys /\ y.dtls = x.dtls /\ y.installed = x.installed
        /\ y.session = x.session /\ y.ssl = x.ssl /\ y.fingerprint = x.fingerprint
        /\ y.ice_writable = x.ice_writable
    BY <1>1, <1>2 DEF Record
  <1>4. Alters(Created, Now, v, t, y)
    BY <1>1, <1>2, <1>3, WithAlters
  <1>5. KeysOf(y)
    BY <1>2, <1>3 DEF Proper, KeysOf
  <1>6. CASE x.ssl
    <2>1. Proper(y)
      BY <1>2, <1>3, <1>5, <1>6 DEF Proper, Stream
    <2>2. Finish(v)
      BY <1>1, <1>6 DEF ClientHello
    <2>3. Sheds(transport[t], transport'[t])
      BY <1>1, <1>3, <1>4, <2>2 DEF Finish, Sheds, Alters
    <2> QED BY <1>4, <2>1, <2>2, <2>3, ProperAlters, Handled, OneSheds
  <1>7. CASE ~x.ssl
    <2>1. Finish(Setup(v, t)) /\ y.session < MaxSessions
      BY <1>1, <1>3, <1>7 DEF ClientHello
    <2>2. v \in Point(Created) /\ v.ts[t] = y
      BY <1>4 DEF Alters
    <2>3. Alters(Created, v, Setup(v, t), t, SetUp(y))
      BY <2>1, <2>2, SetupAlters
    <2>4. Proper(SetUp(y)) /\ Sheds(y, SetUp(y))
      BY <1>2, <1>3, <1>5, <2>1, SetUpProper
    <2>5. Sheds(transport[t], transport'[t])
      BY <1>1, <1>3, <2>1, <2>3, <2>4 DEF Finish, Sheds, Alters
    <2> QED BY <1>4, <2>1, <2>3, <2>4, <2>5, AltersTwice, ProperAlters, Handled, OneSheds
  <1> QED BY <1>6, <1>7

LEMMA IceKeeps ==
    ASSUME Transports, NEW t \in Created, NEW s \in IceState, IceChange(t, s)
    PROVE  /\ Transports' /\ Created' = Created
           /\ \A u \in Created : Sheds(transport[u], transport'[u])
  <1>1. PICK x, on, y, v, w1, z, w2 :
            /\ x = transport[t] /\ on = (s = "connected")
            /\ y = [x EXCEPT !.ice_writable = on, !.been = @ \/ s = "connected"]
            /\ v = With(Now, t, y)
            /\ w1 = (IF x.ice_writable = on THEN v ELSE OnWritable(v, t))
            /\ z = [w1.ts[t] EXCEPT !.ice = s] /\ w2 = With(w1, t, z)
    OBVIOUS
  <1>2. x \in Record /\ Proper(x) /\ Now \in Point(Created) /\ Now.ts[t] = x
    BY <1>1, NowIs
  <1>3. /\ y \in Record /\ y.keys = x.keys /\ y.dtls = x.dtls /\ y.installed = x.installed
        /\ y.session = x.session /\ y.ssl = x.ssl /\ y.fingerprint = x.fingerprint
        /\ y.ice_writable = on /\ y.hello = x.hello
    <2>1. on \in BOOLEAN /\ (x.been \/ s = "connected") \in BOOLEAN
      BY <1>1, <1>2 DEF Record
    <2> QED BY <1>1, <1>2, <2>1 DEF Record
  <1>4. Alters(Created, Now, v, t, y)
    BY <1>1, <1>2, <1>3, WithAlters
  <1>5. v \in Point(Created) /\ v.ts[t] = y
    BY <1>4 DEF Alters
  <1>6. KeysOf(y) /\ Stream(y)
    BY <1>2, <1>3 DEF Proper, KeysOf, Stream
  <1>7. ProperlyAlters(Created, Now, w1, t) /\ Sheds(x, w1.ts[t])
    <2>1. CASE x.ice_writable = on
      <3>1. Proper(y)
        BY <1>2, <1>3, <1>6, <2>1 DEF Proper
      <3> QED BY <1>1, <1>3, <1>4, <1>5, <2>1, <3>1, ProperAlters DEF Sheds
    <2>2. CASE x.ice_writable # on
      <3>1. ProperlyAlters(Created, v, w1, t) /\ Sheds(y, w1.ts[t])
        BY <1>1, <1>5, <1>6, <2>2, OnWritableProper
      <3> QED BY <1>3, <1>4, <3>1 DEF Alters, ProperlyAlters, Sheds
    <2> QED BY <2>1, <2>2
  <1>8. w1 \in Point(Created) /\ Proper(w1.ts[t]) /\ w1.ts[t] \in Record
    BY <1>7 DEF ProperlyAlters, Proper
  <1>9. PICK a : a = w1.ts[t]
    OBVIOUS
  <1>10. /\ z \in Record /\ z.keys = a.keys /\ z.dtls = a.dtls /\ z.installed = a.installed
         /\ z.session = a.session /\ z.ssl = a.ssl /\ z.fingerprint = a.fingerprint
         /\ z.ice_writable = a.ice_writable /\ z.hello = a.hello
    <2>1. z = [a EXCEPT !.ice = s]
      BY <1>1, <1>9
    <2> QED BY <1>8, <1>9, <2>1 DEF Record
  <1>11. Proper(z)
    BY <1>8, <1>9, <1>10 DEF Proper, KeysOf, Stream
  <1>12. Alters(Created, w1, w2, t, z)
    BY <1>1, <1>8, <1>10, WithAlters
  <1>13. ProperlyAlters(Created, Now, w2, t)
    <2>1. ProperlyAlters(Created, w1, w2, t)
      BY <1>11, <1>12, ProperAlters
    <2> QED BY <1>7, <2>1 DEF ProperlyAlters
  <1>14. transport' = w2.ts /\ pc_state' \in PcState \cup {NULL}
    <2>1. PICK u : u = (IF ice_state' # ice_state THEN Updated(w2) ELSE w2)
      OBVIOUS
    <2>2. transport' = u.ts /\ pc_state' = u.pc
      BY <1>1, <2>1 DEF IceChange, Finish
    <2>3. w2.pc \in PcState \cup {NULL}
      BY <1>12 DEF Alters, Point
    <2>4. Updated(w2).ts = w2.ts /\ Updated(w2).pc \in PcState
      <3>1. w2 \in Point(Created) /\ PcAggregate(w2.ts) \in PcState
        BY <1>12, AggregateTypes DEF Alters
      <3> QED BY <3>1 DEF Updated, Point
    <2> QED BY <2>1, <2>2, <2>3, <2>4
  <1>15. Sheds(transport[t], transport'[t])
    <2>1. transport'[t] = z
      BY <1>12, <1>14 DEF Alters
    <2>2. x = transport[t]
      BY <1>1
    <2> QED BY <1>7, <1>9, <1>10, <2>1, <2>2 DEF Sheds
  <1> QED BY <1>2, <1>13, <1>14, <1>15, Kept, NowIs, OneSheds

(* An answer: one transport after the other, none sees another.            *)
LEMMA AnswerKeeps ==
    ASSUME Transports, NEW f, \A t \in DOMAIN f \cap Created : f[t] \in Good \cup Bad,
           set_remote_description(f)
    PROVE  /\ Transports' /\ Created' = Created
           /\ \A u \in Created : Sheds(transport[u], transport'[u])
  <1> DEFINE mids == DOMAIN f \cap Created
             w == [Now EXCEPT !.pc = NULL]
             Alone(t) == SetFingerprint(w, t, f[t])
             ts == [t \in Created |-> IF t \in mids THEN Alone(t).ts[t] ELSE transport[t]]
  <1>1. w \in Point(Created) /\ w.ts = transport
    BY NowPoint
  <1>2. ASSUME NEW t \in mids
        PROVE  Alone(t).ts[t] \in Record /\ Proper(Alone(t).ts[t]) /\ Sheds(transport[t], Alone(t).ts[t])
    <2>1. /\ Proper(w.ts[t]) /\ f[t] \in Good \cup Bad
          /\ w.ts[t].session < MaxSessions \/ f[t] = w.ts[t].fingerprint
      BY <1>1 DEF Transports, set_remote_description
    <2> HIDE DEF w
    <2>2. /\ ProperlyAlters(Created, w, SetFingerprint(w, t, f[t]), t)
          /\ Sheds(w.ts[t], SetFingerprint(w, t, f[t]).ts[t])
      BY <1>1, <2>1, SetFingerprintProper
    <2> QED BY <1>1, <2>2 DEF ProperlyAlters, Proper
  <1>3. ts \in [Created -> Record] /\ \A t \in Created : Proper(ts[t]) /\ Sheds(transport[t], ts[t])
    <2> HIDE DEF Alone
    <2> QED BY <1>2 DEF Transports, Sheds
  <1>4. transport' = ts /\ pc_state' \in PcState \cup {NULL}
    <2>1. transport' = ts
      BY DEF set_remote_description, Finish
    <2>2. pc_state' = pc_state \/ pc_state' = PcAggregate(ts)
      BY DEF set_remote_description, Finish
    <2> HIDE DEF ts
    <2> QED BY <2>1, <2>2, AggregateTypes DEF Transports
  <1>5. Created' = Created
    BY <1>3, <1>4 DEF Created
  <1> HIDE DEF ts
  <1> QED BY <1>3, <1>4, <1>5 DEF Transports

-----------------------------------------------------------------------------
LEMMA NewProper == NewTransport \in Record /\ Proper(NewTransport)
  <1>1. NewTransport \in Record
    BY SessionsAssumption DEF NewTransport, Record, IceState, DtlsState, NoKeys
  <1> QED BY <1>1 DEF NewTransport, Proper, KeysOf, Stream

LEMMA FreshKeeps ==
    ASSUME NEW mids, transport' = [t \in mids |-> NewTransport],
           pc_state' \in PcState \cup {NULL}
    PROVE  Transports'
  BY NewProper DEF Transports, Created

(* The states signalled so far are the aggregates of the present states of *)
(* the transports, of which those writable are those connected.            *)
Aggregated ==
    /\ ice_state = IceAggregate(transport) /\ pc_state = PcAggregate(transport)
    /\ \A t \in Created : transport[t].ice_writable <=> transport[t].ice = "connected"

LEMMA FollowsKeeps ==
    ASSUME Transports, Aggregated, NEW v, Follows(Created, Now, v), Finish(v), UNCHANGED ice_state
    PROVE  Aggregated'
  <1>1. transport \in [Created -> Record] /\ Now \in Point(Created) /\ Now.ts = transport /\ Now.pc = pc_state
    BY DEF Transports, Now, Point
  <1>2. v.ts \in [Created -> Record] /\ transport' = v.ts /\ pc_state' = v.pc
    BY DEF Follows, Point, Finish
  <1>3. Created' = Created
    BY <1>2 DEF Created
  <1>4. IceAggregate(v.ts) = IceAggregate(transport)
    BY <1>1, <1>2, SameIceAggregate DEF Follows, SameIce
  <1>5. v.pc = PcAggregate(v.ts)
    <2>1. CASE v.pc = pc_state /\ SameDtls(Created, Now, v)
      <3>1. PcAggregate(v.ts) = PcAggregate(transport)
        BY <1>1, <1>2, <2>1, SameAggregate DEF Follows, SameIce, SameDtls
      <3> QED BY <2>1, <3>1 DEF Aggregated
    <2> QED BY <1>1, <2>1 DEF Follows
  <1>6. \A t \in Created : v.ts[t].ice_writable <=> v.ts[t].ice = "connected"
    BY <1>1 DEF Follows, SameIce, Aggregated
  <1>7. IceAggregate(transport)' = IceAggregate(v.ts) /\ PcAggregate(transport)' = PcAggregate(v.ts)
    BY <1>2 DEF IceAggregate, PcAggregate
  <1> QED BY <1>2, <1>3, <1>4, <1>5, <1>6, <1>7 DEF Aggregated

LEMMA OpenAggregated ==
    ASSUME Transports, Aggregated, NEW t \in Created, NEW b \in BOOLEAN, Open(t, b)
    PROVE  Aggregated'
  <1>1. PICK x, v, u : /\ x = [transport[t] EXCEPT !.installed = b] /\ v = With(Now, t, x)
                       /\ u = SetWritable(v, t, TRUE)
    OBVIOUS
  <1>2. /\ x \in Record /\ x.ice = transport[t].ice /\ x.ice_writable = transport[t].ice_writable
        /\ x.dtls = transport[t].dtls
    BY <1>1, NowIs DEF Record
  <1>3. Now \in Point(Created) /\ Now.ts = transport
    BY NowIs
  <1>4. Follows(Created, Now, v)
    BY <1>1, <1>2, <1>3, WithFollows
  <1>5. v \in Point(Created)
    BY <1>4 DEF Follows
  <1>6. Follows(Created, v, u)
    BY <1>1, <1>5, SetWritableFollows
  <1>7. u \in Point(Created)
    BY <1>6 DEF Follows
  <1>8. Follows(Created, u, SetDtls(u, t, "connected"))
    BY <1>7, SetDtlsFollows DEF DtlsState
  <1>9. Follows(Created, Now, u)
    BY <1>3, <1>4, <1>6, FollowsTwice
  <1>10. Follows(Created, Now, SetDtls(u, t, "connected"))
    BY <1>3, <1>8, <1>9, FollowsTwice
  <1>11. Finish(SetDtls(u, t, "connected")) /\ UNCHANGED ice_state
    BY <1>1 DEF Open
  <1> QED BY <1>10, <1>11, FollowsKeeps

LEMMA CloseAggregated ==
    ASSUME Transports, Aggregated, NEW t \in Created, NEW s \in {"closed", "failed"}, Close(t, s)
    PROVE  Aggregated'
  <1>1. PICK u : u = SetWritable(Now, t, FALSE)
    OBVIOUS
  <1>2. Now \in Point(Created)
    BY NowIs
  <1>3. Follows(Created, Now, u)
    BY <1>1, <1>2, SetWritableFollows
  <1>4. u \in Point(Created)
    BY <1>3 DEF Follows
  <1>5. Follows(Created, u, SetDtls(u, t, s))
    BY <1>4, SetDtlsFollows DEF DtlsState
  <1>6. Follows(Created, Now, SetDtls(u, t, s))
    BY <1>2, <1>3, <1>5, FollowsTwice
  <1>7. Finish(SetDtls(u, t, s)) /\ UNCHANGED ice_state
    BY <1>1 DEF Close
  <1> QED BY <1>6, <1>7, FollowsKeeps

LEMMA HelloAggregated ==
    ASSUME Transports, Aggregated, NEW t \in Created, ClientHello(t)
    PROVE  Aggregated'
  <1>1. PICK x, v : x = [transport[t] EXCEPT !.hello = TRUE] /\ v = With(Now, t, x)
    OBVIOUS
  <1>2. /\ x \in Record /\ x.ice = transport[t].ice /\ x.ice_writable = transport[t].ice_writable
        /\ x.dtls = transport[t].dtls /\ x.session = transport[t].session
    BY <1>1, NowIs DEF Record
  <1>3. Now \in Point(Created) /\ Now.ts = transport
    BY NowIs
  <1>4. Follows(Created, Now, v)
    BY <1>1, <1>2, <1>3, WithFollows
  <1>5. v \in Point(Created) /\ v.ts[t] = x
    BY <1>1, <1>2, <1>3, WithAlters DEF Alters
  <1>6. CASE transport[t].ssl
    <2>1. Finish(v) /\ UNCHANGED ice_state
      BY <1>1, <1>6 DEF ClientHello
    <2> QED BY <1>4, <2>1, FollowsKeeps
  <1>7. CASE ~transport[t].ssl
    <2>1. Finish(Setup(v, t)) /\ UNCHANGED ice_state /\ v.ts[t].session < MaxSessions
      BY <1>1, <1>2, <1>5, <1>7 DEF ClientHello
    <2>2. Follows(Created, v, Setup(v, t))
      BY <1>5, <2>1, SetupFollows
    <2>3. Follows(Created, Now, Setup(v, t))
      BY <1>3, <1>4, <2>2, FollowsTwice
    <2> QED BY <2>1, <2>3, FollowsKeeps
  <1> QED BY <1>6, <1>7

(* A channel's change reaches the controller if IceAgent's state changes;  *)
(* if it does not, the controller's would not either.                      *)
LEMMA IceAggregated ==
    ASSUME Transports, Aggregated, NEW t \in Created, NEW s \in IceState, IceChange(t, s)
    PROVE  Aggregated'
  <1>1. PICK x, on, y, v, w1, z, w2 :
            /\ x = transport[t] /\ on = (s = "connected")
            /\ y = [x EXCEPT !.ice_writable = on, !.been = @ \/ s = "connected"]
            /\ v = With(Now, t, y)
            /\ w1 = (IF x.ice_writable = on THEN v ELSE OnWritable(v, t))
            /\ z = [w1.ts[t] EXCEPT !.ice = s] /\ w2 = With(w1, t, z)
    OBVIOUS
  <1>2. x \in Record /\ Now \in Point(Created) /\ Now.ts = transport /\ Now.pc = pc_state /\ on \in BOOLEAN
    BY <1>1, NowIs DEF Now
  <1>3. y \in Record /\ y.ice = x.ice /\ y.dtls = x.dtls /\ y.ice_writable = on
    <2>1. (x.been \/ s = "connected") \in BOOLEAN
      BY <1>2 DEF Record
    <2> QED BY <1>1, <1>2, <2>1 DEF Record
  <1>4. /\ v \in Point(Created) /\ v.ts[t] = y /\ v.pc = pc_state
        /\ \A u \in Created \ {t} : v.ts[u] = transport[u]
    <2>1. Alters(Created, Now, v, t, y)
      BY <1>1, <1>2, <1>3, WithAlters
    <2> QED BY <1>1, <1>2, <2>1 DEF Alters, With
  <1>5. transport \in [Created -> Record] /\ v.ts \in [Created -> Record]
    BY <1>2, <1>4 DEF Point
  <1>6. ASSUME NEW u \in Created PROVE v.ts[u].ice = transport[u].ice /\ v.ts[u].dtls = transport[u].dtls
    <2>1. CASE u = t
      BY <1>1, <1>3, <1>4, <2>1
    <2>2. CASE u # t
      BY <1>4, <2>2
    <2> QED BY <2>1, <2>2
  <1>7. v.pc = PcAggregate(v.ts) /\ IceAggregate(v.ts) = ice_state
    <2>1. PcAggregate(v.ts) = PcAggregate(transport) /\ IceAggregate(v.ts) = IceAggregate(transport)
      BY <1>5, <1>6, SameAggregate, SameIceAggregate
    <2> QED BY <1>4, <2>1 DEF Aggregated
  <1>8. Follows(Created, v, w1)
    BY <1>1, <1>4, OnWritableFollows, FollowsItself
  <1>9. w1 \in Point(Created) /\ w1.ts \in [Created -> Record] /\ SameIce(Created, v, w1)
    BY <1>8 DEF Follows, Point
  <1>10. w1.pc = PcAggregate(w1.ts) /\ IceAggregate(w1.ts) = ice_state
    <2>1. IceAggregate(w1.ts) = IceAggregate(v.ts)
      BY <1>5, <1>9, SameIceAggregate DEF SameIce
    <2>2. CASE w1.pc = v.pc /\ SameDtls(Created, v, w1)
      <3>1. PcAggregate(w1.ts) = PcAggregate(v.ts)
        BY <1>5, <1>9, <2>2, SameAggregate DEF SameIce, SameDtls
      <3> QED BY <1>7, <2>1, <2>2, <3>1
    <2> QED BY <1>7, <1>8, <2>1, <2>2 DEF Follows
  <1>11. PICK a : a = w1.ts[t]
    OBVIOUS
  <1>12. z \in Record /\ z.ice = s /\ z.dtls = a.dtls /\ z.ice_writable = a.ice_writable
    <2>1. a \in Record /\ z = [a EXCEPT !.ice = s]
      BY <1>1, <1>9, <1>11
    <2> QED BY <2>1 DEF Record
  <1>13. /\ w2 \in Point(Created) /\ w2.ts \in [Created -> Record] /\ w2.ts[t] = z /\ w2.pc = w1.pc
         /\ \A u \in Created \ {t} : w2.ts[u] = w1.ts[u]
    <2>1. Alters(Created, w1, w2, t, z)
      BY <1>1, <1>9, <1>12, WithAlters
    <2> QED BY <1>1, <1>9, <2>1 DEF Alters, With, Point
  <1>14. \A u \in Created : w2.ts[u].dtls = w1.ts[u].dtls
    BY <1>11, <1>12, <1>13
  <1>15. \A u \in Created : w2.ts[u].ice_writable <=> w2.ts[u].ice = "connected"
    <2>1. a.ice_writable = on
      BY <1>3, <1>4, <1>9, <1>11 DEF SameIce
    <2>2. ASSUME NEW u \in Created \ {t}
          PROVE  w2.ts[u].ice = transport[u].ice /\ w2.ts[u].ice_writable = transport[u].ice_writable
      <3>1. v.ts[u] = transport[u] /\ w2.ts[u] = w1.ts[u]
        BY <1>4, <1>13
      <3>2. w1.ts[u].ice = v.ts[u].ice /\ w1.ts[u].ice_writable = v.ts[u].ice_writable
        BY <1>9 DEF SameIce
      <3> QED BY <3>1, <3>2
    <2>3. w2.ts[t].ice_writable = on /\ w2.ts[t].ice = s
      BY <1>11, <1>12, <1>13, <2>1
    <2>4. ASSUME NEW u \in Created PROVE w2.ts[u].ice_writable <=> w2.ts[u].ice = "connected"
      <3>1. CASE u = t
        BY <1>1, <2>3, <3>1
      <3>2. CASE u # t
        BY <2>2, <3>2 DEF Aggregated
      <3> QED BY <3>1, <3>2
    <2> QED BY <2>4
  <1>16. PICK u : u = (IF ice_state' # ice_state THEN Updated(w2) ELSE w2)
    OBVIOUS
  <1>17. ice_state' = IceAggregate(w2.ts) /\ transport' = u.ts /\ pc_state' = u.pc
    BY <1>1, <1>16 DEF IceChange, Finish
  <1>18. u.ts = w2.ts /\ u.pc = PcAggregate(w2.ts)
    <2>1. CASE ice_state' # ice_state
      <3>1. PICK p : p = PcAggregate(w2.ts)
        OBVIOUS
      <3>2. u = [w2 EXCEPT !.pc = p]
        BY <1>16, <2>1, <3>1 DEF Updated
      <3> QED BY <1>13, <3>1, <3>2 DEF Point
    <2>2. CASE ice_state' = ice_state
      <3>1. IceAggregate(w2.ts) = IceAggregate(w1.ts)
        BY <1>10, <1>17, <2>2
      <3>2. PcAggregate(w2.ts) = PcAggregate(w1.ts)
        BY <1>9, <1>13, <1>14, <3>1, IceAggregateDecides
      <3> QED BY <1>10, <1>13, <1>16, <2>2, <3>2
    <2> QED BY <2>1, <2>2
  <1>19. transport' = w2.ts /\ Created' = Created
    BY <1>13, <1>17, <1>18 DEF Created
  <1>20. IceAggregate(transport)' = IceAggregate(w2.ts) /\ PcAggregate(transport)' = PcAggregate(w2.ts)
    BY <1>19 DEF IceAggregate, PcAggregate
  <1> QED BY <1>15, <1>17, <1>18, <1>19, <1>20 DEF Aggregated

(* An answer: if no transport signals, no DTLS state has changed.          *)
LEMMA AnswerAggregated ==
    ASSUME Transports, Aggregated, NEW f, \A t \in DOMAIN f \cap Created : f[t] \in Good \cup Bad,
           set_remote_description(f)
    PROVE  Aggregated'
  <1> DEFINE mids == DOMAIN f \cap Created
             w == [Now EXCEPT !.pc = NULL]
             Alone(t) == SetFingerprint(w, t, f[t])
             ts == [t \in Created |-> IF t \in mids THEN Alone(t).ts[t] ELSE transport[t]]
  <1>1. w \in Point(Created) /\ w.ts = transport /\ w.pc = NULL
    BY NowPoint DEF Now
  <1>2. ASSUME NEW t \in mids PROVE Follows(Created, w, Alone(t))
    <2>1. f[t] \in Good \cup Bad /\ (w.ts[t].session < MaxSessions \/ f[t] = w.ts[t].fingerprint)
      BY <1>1 DEF set_remote_description
    <2> HIDE DEF w
    <2> QED BY <1>1, <2>1, SetFingerprintFollows
  <1>3. /\ transport' = ts /\ UNCHANGED ice_state
        /\ pc_state' = IF \E t \in mids : Alone(t).pc # NULL THEN PcAggregate(ts) ELSE pc_state
    BY DEF set_remote_description, Finish
  <1> HIDE DEF w, Alone
  <1>4. ts \in [Created -> Record] /\ transport \in [Created -> Record]
    BY <1>1, <1>2 DEF Follows, Point, Transports
  <1>5. \A t \in Created : ts[t].ice = transport[t].ice /\ ts[t].ice_writable = transport[t].ice_writable
    BY <1>1, <1>2 DEF Follows, SameIce
  <1>6. pc_state' = PcAggregate(ts)
    <2>1. CASE \A t \in mids : Alone(t).pc = NULL
      <3>1. ASSUME NEW t \in mids PROVE ts[t].dtls = transport[t].dtls
        <4>1. Alone(t).pc = w.pc /\ SameDtls(Created, w, Alone(t))
          <5>1. PcAggregate(Alone(t).ts) \in PcState
            BY AggregateTypes
          <5>2. Alone(t).pc # PcAggregate(Alone(t).ts)
            BY <2>1, <5>1, NullAssumption DEF PcState
          <5> QED BY <1>2, <5>2 DEF Follows
        <4> QED BY <1>1, <4>1 DEF SameDtls
      <3>2. PcAggregate(ts) = PcAggregate(transport)
        BY <1>4, <1>5, <3>1, SameAggregate
      <3> QED BY <1>3, <2>1, <3>2 DEF Aggregated
    <2> HIDE DEF ts
    <2> QED BY <1>3, <2>1
  <1> HIDE DEF ts
  <1>7. IceAggregate(ts) = IceAggregate(transport)
    BY <1>4, <1>5, SameIceAggregate
  <1>8. Created' = Created
    BY <1>3, <1>4 DEF Created
  <1>9. IceAggregate(transport)' = IceAggregate(ts) /\ PcAggregate(transport)' = PcAggregate(ts)
    BY <1>3 DEF IceAggregate, PcAggregate
  <1> QED BY <1>3, <1>5, <1>6, <1>7, <1>8, <1>9 DEF Aggregated

LEMMA InitTransports == Init => Transports
  BY DEF Init, TransportInit, Transports, Created, PcState

(* One media transport is created for every content of the offer, or one   *)
(* for all, which is the audio one if there is audio.                      *)
Offered ==
    /\ offer = NULL => Created = {}
    /\ offer # NULL => /\ offer \in SUBSET Media
                       /\ \E mux \in BOOLEAN : Created = TransportMids(offer, mux)

LEMMA FreshAggregated ==
    ASSUME NEW mids, transport' = [t \in mids |-> NewTransport], ice_state' = "new", pc_state' = "new"
    PROVE  Aggregated'
  <1>1. PICK ts : ts = [t \in mids |-> NewTransport]
    OBVIOUS
  <1>2. /\ \A t \in DOMAIN ts : ts[t].ice = "new" /\ ts[t].dtls = "new" /\ ts[t].ice_writable = FALSE
        /\ DOMAIN ts = mids
    BY <1>1 DEF NewTransport
  <1>3. {ts[t].ice : t \in DOMAIN ts} \subseteq {"new"} /\ {ts[t].dtls : t \in DOMAIN ts} \subseteq {"new"}
    BY <1>2
  <1>4. IceAggregate(ts) = "new"
    BY <1>3 DEF IceAggregate
  <1>5. PcAggregate(ts) = "new"
    BY <1>3 DEF PcAggregate
  <1>6. transport' = ts
    BY <1>1
  <1>7. IceAggregate(transport)' = IceAggregate(ts) /\ PcAggregate(transport)' = PcAggregate(ts)
        /\ Created' = DOMAIN ts
    BY <1>6 DEF IceAggregate, PcAggregate, Created
  <1> QED BY <1>2, <1>4, <1>5, <1>6, <1>7 DEF Aggregated

(* Before the offer there is no transport, so the states are new.          *)
LEMMA NoneAggregate ==
    ASSUME Aggregated, Created = {}
    PROVE  ice_state = "new" /\ pc_state = "new"
  BY DEF Aggregated, Created, IceAggregate, PcAggregate

LEMMA TransportStepKeeps ==
    ASSUME Transports, TransportStep
    PROVE  Transports' /\ Created' = Created
  <1>1. PICK t \in Created : Connected(t) \/ Event(t)
    BY DEF TransportStep
  <1>2. CASE Connected(t)
    <2>1. PICK b \in BOOLEAN : Open(t, b)
      <3>1. ASSUME NEW a \in Outcome, NEW c \in Outcome PROVE set_rtp_params(lib, t, a, c).ok \in BOOLEAN
        BY DEF set_rtp_params
      <3> QED BY <1>2, <3>1 DEF Connected
    <2> QED BY <2>1, OpenKeeps
  <1>3. CASE Event(t)
    BY <1>3, IceKeeps, HelloKeeps, CloseKeeps DEF Event
  <1> QED BY <1>1, <1>2, <1>3

LEMMA TransportsInductive == Transports /\ [Next]_vars => Transports'
  <1> SUFFICES ASSUME Transports, [Next]_vars PROVE Transports'
    OBVIOUS
  <1>1. ASSUME NEW media \in SUBSET Media, NEW mux \in Mux, create_offer(media, mux)
        PROVE  Transports'
    BY <1>1, FreshKeeps DEF create_offer, set_local_description, Transports
  <1>2. ASSUME NEW sdp \in Sdp, set_remote_sdp(sdp) PROVE Transports'
    <2>1. PICK p : p = Parse(sdp)
      OBVIOUS
    <2>2. Accept(p) \/ Refuse(p) \/ UNCHANGED transportVars
      BY <1>2, <2>1 DEF set_remote_sdp
    <2>3. CASE UNCHANGED transportVars
      BY <2>3 DEF transportVars, Transports, Created
    <2>4. CASE /\ Accept(p) /\ \A t \in p.contents \cap Created : p.fingerprint[t] # NULL
      <3>1. PICK f : f = [t \in p.contents |-> p.fingerprint[t]]
        OBVIOUS
      <3>2. set_remote_description(f)
        BY <2>4, <3>1 DEF Accept
      <3>3. \A t \in DOMAIN f \cap Created : f[t] \in Good \cup Bad
        BY <2>1, <2>4, <3>1, AnswerParsed DEF Parsed
      <3> QED BY <3>2, <3>3, AnswerKeeps
    <2> QED BY <2>2, <2>3, <2>4 DEF Accept, Refuse
  <1>3. CASE TransportStep
    BY <1>3, TransportStepKeeps
  <1>4. CASE Destroy
    BY <1>4, FreshKeeps DEF Destroy, PcState
  <1>5. CASE OtherWorker \/ UNCHANGED vars
    BY <1>5 DEF OtherWorker, vars, transportVars, Transports, Created
  <1> QED BY <1>1, <1>2, <1>3, <1>4, <1>5 DEF Next

LEMMA TransportsProper == Spec => []Transports
  <1> QED BY InitTransports, TransportsInductive, PTL DEF Spec

LEMMA InitAggregated == Init => Aggregated /\ Offered
  <1> SUFFICES ASSUME Init PROVE Aggregated /\ Offered
    OBVIOUS
  <1>1. Created = {} /\ ice_state = "new" /\ pc_state = "new" /\ offer = NULL
    BY DEF Init, TransportInit, Created
  <1>2. Aggregated
    BY <1>1 DEF Aggregated, Created, IceAggregate, PcAggregate
  <1> QED BY <1>1, <1>2 DEF Offered

LEMMA StepAggregated ==
    ASSUME Transports, Aggregated, TransportStep
    PROVE  Aggregated'
  <1>1. PICK t \in Created : Connected(t) \/ Event(t)
    BY DEF TransportStep
  <1>2. CASE Connected(t)
    <2>1. PICK b \in BOOLEAN : Open(t, b)
      <3>1. ASSUME NEW a \in Outcome, NEW c \in Outcome PROVE set_rtp_params(lib, t, a, c).ok \in BOOLEAN
        BY DEF set_rtp_params
      <3> QED BY <1>2, <3>1 DEF Connected
    <2> QED BY <2>1, OpenAggregated
  <1>3. CASE Event(t)
    BY <1>3, IceAggregated, HelloAggregated, CloseAggregated DEF Event
  <1> QED BY <1>1, <1>2, <1>3

LEMMA AggregatedInductive ==
    Transports /\ Aggregated /\ Offered /\ [Next]_vars => Aggregated' /\ Offered'
  <1> SUFFICES ASSUME Transports, Aggregated, Offered, [Next]_vars PROVE Aggregated' /\ Offered'
    OBVIOUS
  <1>1. ASSUME NEW media \in SUBSET Media, NEW mux \in Mux, create_offer(media, mux)
        PROVE  Aggregated' /\ Offered'
    <2>1. /\ Created = {} /\ offer' = media /\ media # NULL /\ mux \in BOOLEAN
          /\ transport' = [t \in TransportMids(media, mux) |-> NewTransport]
          /\ ice_state' = ice_state /\ pc_state' = pc_state
      BY <1>1, OfferAssumption, MuxAssumption DEF create_offer, set_local_description, Offered
    <2>2. Aggregated'
      BY <2>1, NoneAggregate, FreshAggregated
    <2>3. Created' = TransportMids(media, mux)
      BY <2>1 DEF Created
    <2> QED BY <2>1, <2>2, <2>3 DEF Offered
  <1>2. ASSUME NEW sdp \in Sdp, set_remote_sdp(sdp) PROVE Aggregated' /\ Offered'
    <2>1. PICK p : p = Parse(sdp)
      OBVIOUS
    <2>2. (Accept(p) \/ Refuse(p) \/ UNCHANGED transportVars) /\ offer' = offer
      BY <1>2, <2>1 DEF set_remote_sdp
    <2>3. CASE UNCHANGED transportVars
      BY <2>2, <2>3 DEF transportVars, Aggregated, Offered, Created, IceAggregate, PcAggregate
    <2>4. CASE /\ Accept(p) /\ \A t \in p.contents \cap Created : p.fingerprint[t] # NULL
      <3>1. PICK f : f = [t \in p.contents |-> p.fingerprint[t]]
        OBVIOUS
      <3>2. set_remote_description(f)
        BY <2>4, <3>1 DEF Accept
      <3>3. \A t \in DOMAIN f \cap Created : f[t] \in Good \cup Bad
        BY <2>1, <2>4, <3>1, AnswerParsed DEF Parsed
      <3>4. Aggregated' /\ Created' = Created
        BY <3>2, <3>3, AnswerAggregated, AnswerKeeps
      <3> QED BY <2>2, <3>4 DEF Offered
    <2> QED BY <2>2, <2>3, <2>4 DEF Accept, Refuse
  <1>3. CASE TransportStep
    <2>1. offer' = offer
      BY <1>3 DEF TransportStep
    <2> QED BY <1>3, <2>1, StepAggregated, TransportStepKeeps DEF Offered
  <1>4. CASE Destroy
    <2>1. Created' = {} /\ offer' = NULL
      BY <1>4 DEF Destroy, Created
    <2> QED BY <1>4, <2>1, FreshAggregated DEF Destroy, Offered
  <1>5. CASE OtherWorker \/ UNCHANGED vars
    <2>1. transport' = transport /\ ice_state' = ice_state /\ pc_state' = pc_state /\ offer' = offer
      BY <1>5 DEF OtherWorker, vars, transportVars
    <2>2. IceAggregate(transport)' = IceAggregate(transport) /\ PcAggregate(transport)' = PcAggregate(transport)
      BY <2>1 DEF IceAggregate, PcAggregate
    <2> QED BY <2>1, <2>2 DEF Aggregated, Offered, Created
  <1> QED BY <1>1, <1>2, <1>3, <1>4, <1>5 DEF Next

LEMMA AlwaysAggregated == Spec => [](Transports /\ Aggregated /\ Offered)
  <1> QED BY InitTransports, TransportsInductive, InitAggregated, AggregatedInductive, PTL DEF Spec

(* What was last signalled for the PeerConnection is never out of date.    *)
THEOREM StateIsCurrent == Spec => []PcStateCurrent
  <1>1. Transports /\ Aggregated /\ Offered => PcStateCurrent
    <2> SUFFICES ASSUME Transports, Aggregated, Offered PROVE PcStateCurrent
      OBVIOUS
    <2>1. Created \subseteq Transport
      BY MediaAssumption DEF Offered, TransportMids, Media
    <2>2. ice_state \in IceState /\ pc_state \in PcState
      BY AggregateTypes DEF Aggregated
    <2> QED BY <2>1, <2>2 DEF PcStateCurrent, TransportTypeOK, Transports, Aggregated
  <1> QED BY AlwaysAggregated, <1>1, PTL

(* A PeerConnection signalled as connected takes in media on every         *)
(* transport, and sends, unless a peer closed or SRTP refused.             *)
THEOREM MediaOnceConnected == Spec => []ConnectedCarriesMedia
  <1>1. Transports /\ Aggregated /\ Offered => ConnectedCarriesMedia
    <2> SUFFICES ASSUME Transports, Aggregated, Offered, pc_state = "connected"
                 PROVE  /\ \A t \in Created : transport[t].dtls # "closed" /\ transport[t].installed =>
                                                 Received(transport[t]) /\ Sent(transport[t])
                        /\ "audio" \in offer => "audio" \in Created
      BY DEF ConnectedCarriesMedia
    <2>1. ASSUME NEW t \in Created, transport[t].dtls # "closed", transport[t].installed
          PROVE  Received(transport[t]) /\ Sent(transport[t])
      <3>1. PICK x : x = transport[t]
        OBVIOUS
      <3>2. x \in Record /\ KeysOf(x) /\ Stream(x) /\ (x.ice_writable <=> x.ice = "connected")
        BY <3>1 DEF Transports, Proper, Aggregated
      <3>3. x.ice = "connected" /\ x.dtls = "connected"
        <4>1. PICK S : S = {transport[u].ice : u \in DOMAIN transport} \cup {transport[u].dtls : u \in DOMAIN transport}
          OBVIOUS
        <4>2. x.ice \in S /\ x.dtls \in S
          BY <3>1, <4>1 DEF Created
        <4>3. PcAggregate(transport) = "connected"
          BY DEF Aggregated
        <4>4. S \cap {"failed", "disconnected", "checking", "connecting", "new"} = {}
          BY <4>1, <4>3 DEF PcAggregate
        <4> QED BY <2>1, <3>1, <3>2, <4>2, <4>4 DEF Record, IceState, DtlsState
      <3> QED BY <2>1, <3>1, <3>2, <3>3 DEF KeysOf, Stream, Received, Sent, NoKeys
    <2>2. offer # NULL
      BY NoneAggregate DEF Offered
    <2>3. "audio" \in offer => "audio" \in Created
      BY <2>2 DEF Offered, TransportMids
    <2> QED BY <2>1, <2>3
  <1> QED BY AlwaysAggregated, <1>1, PTL

(* SRTP has the keys of the current handshake or none.                     *)
THEOREM KeysAreCurrent == Spec => []KeysCurrent
  <1>1. Transports => KeysCurrent
    BY DEF Transports, Proper, KeysOf, KeysCurrent
  <1> QED BY TransportsProper, <1>1, PTL

(* In any order of ClientHello, answer and connectivity the handshake      *)
(* starts.                                                                 *)
THEOREM HandshakesStart == Spec => []HandshakeStarts
  <1>1. Transports => HandshakeStarts
    BY DEF Transports, Proper, Stream, HandshakeStarts
  <1> QED BY TransportsProper, <1>1, PTL
-----------------------------------------------------------------------------
(* libsrtp, for any finite number of sessions of any threads.              *)

(* A count over the sessions is a natural number, and zero only when none  *)
(* is counted.                                                             *)
LEMMA CountIsFinite ==
    ASSUME NEW l \in Library
    PROVE  /\ IsFiniteSet(Counted(l))
           /\ Cardinality(Counted(l)) \in Nat
           /\ Cardinality(Counted(l)) = 0 <=> Counted(l) = {}
  <1>1. Counted(l) \subseteq Session
    BY DEF Counted
  <1>2. IsFiniteSet(Counted(l))
    BY <1>1, SessionAssumption, FS_Subset
  <1> QED BY <1>2, FS_CardinalityType, FS_EmptySet

(* The record that describes the library, from its fields.                 *)
LEMMA RecordIsLibrary ==
    ASSUME NEW u \in BOOLEAN, NEW n \in Nat, NEW f \in [Session -> SessionState]
    PROVE  [up |-> u, usage |-> n, session |-> f] \in Library
  BY DEF Library

(* _set_key() keeps the count, whatever fails in it.                       *)
LEMMA SetKeySound ==
    ASSUME NEW l, Sound(l), NEW s \in Session, l.session[s] = "none", NEW o \in Outcome
    PROVE  Sound(SetKey(l, s, o))
  <1> DEFINE m == SetKey(l, s, o)
             new == IF o = "create" THEN "inited" ELSE "created"
  <1>1. l \in Library /\ l.usage \in Nat /\ l.usage = Cardinality(Counted(l))
    BY DEF Sound, Library
  <1>2. CASE o = "init" /\ l.usage = 0
    BY <1>2 DEF SetKey
  <1>3. CASE ~(o = "init" /\ l.usage = 0)
    <2>1. m = [up |-> TRUE, usage |-> l.usage + 1, session |-> [l.session EXCEPT ![s] = new]]
      BY <1>3 DEF SetKey
    <2>2. m \in Library
      BY <2>1, <1>1 DEF Library, SessionState
    <2>3. Counted(m) = Counted(l) \cup {s}
      BY <2>1, <1>1 DEF Counted, Library
    <2>4. s \notin Counted(l)
      BY DEF Counted
    <2>5. Cardinality(Counted(m)) = Cardinality(Counted(l)) + 1
      BY <2>3, <2>4, <1>1, CountIsFinite, FS_AddElement
    <2>6. m.usage = Cardinality(Counted(m)) /\ m.up = TRUE /\ m.usage > 0
      BY <2>1, <2>5, <1>1
    <2> QED BY <2>2, <2>6 DEF Sound
  <1> QED BY <1>2, <1>3

(* The destructor gives back exactly the reference its session holds.      *)
LEMMA DeleteSound ==
    ASSUME NEW l, Sound(l), NEW s \in Session
    PROVE  Sound(Delete(l, s))
  <1> DEFINE m == Delete(l, s)
  <1>1. l \in Library /\ l.usage \in Nat /\ l.usage = Cardinality(Counted(l))
    BY DEF Sound, Library
  <1>2. CASE l.session[s] = "none"
    BY <1>2 DEF Delete
  <1>3. CASE l.session[s] # "none"
    <2>1. m = [up |-> IF l.usage = 1 THEN FALSE ELSE l.up, usage |-> l.usage - 1,
               session |-> [l.session EXCEPT ![s] = "none"]]
      BY <1>3 DEF Delete
    <2>2. s \in Counted(l)
      BY <1>3 DEF Counted
    <2>3. l.usage > 0
      BY <1>1, <2>2, CountIsFinite
    <2>4. m \in Library
      <3>1. (IF l.usage = 1 THEN FALSE ELSE l.up) \in BOOLEAN
        BY <1>1 DEF Library
      <3>2. l.usage - 1 \in Nat
        BY <1>1, <2>3
      <3>3. [l.session EXCEPT ![s] = "none"] \in [Session -> SessionState]
        BY <1>1 DEF Library, SessionState
      <3> QED BY <2>1, <3>1, <3>2, <3>3, RecordIsLibrary
    <2>5. Counted(m) = Counted(l) \ {s}
      BY <2>1, <1>1 DEF Counted, Library
    <2>6. Cardinality(Counted(m)) = Cardinality(Counted(l)) - 1
      BY <2>2, <2>5, <1>1, CountIsFinite, FS_RemoveElement
    <2>7. m.usage = Cardinality(Counted(m))
      BY <2>1, <2>6, <1>1
    <2>8. m.up <=> m.usage > 0
      <3>1. CASE l.usage = 1
        <4>1. m.up = FALSE /\ m.usage = 0
          BY <3>1, <2>1
        <4> QED BY <4>1
      <3>2. CASE l.usage # 1
        <4>1. m.up = l.up /\ m.usage > 0
          BY <3>2, <2>1, <2>3, <1>1
        <4> QED BY <4>1, <2>3 DEF Sound
      <3> QED BY <3>1, <3>2
    <2> QED BY <2>4, <2>7, <2>8 DEF Sound
  <1> QED BY <1>2, <1>3

LEMMA DownSound == Sound(Down)
  <1>1. Down \in Library /\ Counted(Down) = {}
    BY DEF Down, Library, SessionState, Counted
  <1>2. Cardinality(Counted(Down)) = 0 /\ Down.usage = 0 /\ Down.up = FALSE
    BY <1>1, FS_EmptySet DEF Down
  <1> QED BY <1>1, <1>2 DEF Sound

(* libsrtp is up whenever a session exists, is stopped when the last one   *)
(* goes, and its count never drifts.                                       *)
THEOREM LibrarySound == LibSpec => []Sound(lib)
  <1>1. LibInit => Sound(lib)
    BY DownSound DEF LibInit
  <1>2. Sound(lib) /\ [LibNext]_lib => Sound(lib)'
    <2> SUFFICES ASSUME Sound(lib), [LibNext]_lib PROVE Sound(lib)'
      OBVIOUS
    <2>1. ASSUME NEW s \in Session, NEW o \in Outcome, lib.session[s] = "none",
                 lib' = SetKey(lib, s, o)
          PROVE  Sound(lib)'
      <3>1. Sound(SetKey(lib, s, o))
        BY <2>1, SetKeySound
      <3> QED BY <3>1, <2>1 DEF Sound, Library, Counted
    <2>2. ASSUME NEW s \in Session, lib' = Delete(lib, s)
          PROVE  Sound(lib)'
      <3>1. Sound(Delete(lib, s))
        BY DeleteSound
      <3> QED BY <3>1, <2>2 DEF Sound, Library, Counted
    <2>3. CASE lib' = lib
      BY <2>3 DEF Sound, Library, Counted
    <2> QED BY <2>1, <2>2, <2>3 DEF LibNext
  <1> QED BY <1>1, <1>2, PTL DEF LibSpec

(* No session is ever left without its library.                            *)
THEOREM NeverWithoutLibrary ==
    LibSpec => [](\A s \in Session : lib.session[s] = "created" => lib.up)
  <1>1. Sound(lib) => \A s \in Session : lib.session[s] = "created" => lib.up
    <2> SUFFICES ASSUME Sound(lib), NEW s \in Session, lib.session[s] = "created"
                 PROVE  lib.up
      OBVIOUS
    <2>1. lib \in Library /\ lib.usage \in Nat /\ lib.usage = Cardinality(Counted(lib))
      BY DEF Sound, Library
    <2>2. s \in Counted(lib)
      BY DEF Counted
    <2>3. lib.usage > 0
      BY <2>1, <2>2, CountIsFinite
    <2> QED BY <2>3 DEF Sound
  <1> QED BY <1>1, LibrarySound, PTL

(* What the two operations do to the sessions.                             *)
LEMMA SetKeySessions ==
    ASSUME NEW l \in Library, NEW s \in Session, NEW o \in Outcome, NEW u \in Session
    PROVE  /\ u # s => SetKey(l, s, o).session[u] = l.session[u]
           /\ Succeeds(l, o) => SetKey(l, s, o).session[s] = "created"
  <1>1. l.session \in [Session -> SessionState] /\ l.usage \in Nat
    BY DEF Library
  <1> QED BY <1>1 DEF SetKey, Succeeds, Outcome

LEMMA DeleteSessions ==
    ASSUME NEW l \in Library, NEW s \in Session, NEW u \in Session
    PROVE  Delete(l, s).session[u] = IF u = s THEN "none" ELSE l.session[u]
  <1>1. l.session \in [Session -> SessionState]
    BY DEF Library
  <1> QED BY <1>1 DEF Delete

-----------------------------------------------------------------------------
(* The transports with keys are those with sessions; the PeerConnections   *)
(* to come have none.                                                      *)
Keyed == {t \in Created : transport[t].keys # NoKeys}

Accounted ==
    /\ Sound(lib) /\ pc \in Nat \ {0} /\ (pc > MaxPcs => Created = {})
    /\ \A n \in pc .. MaxPcs, t \in Media, d \in Direction :
          lib.session[<<n, t, d>>] = IF n = pc /\ t \in Keyed THEN "created" ELSE "none"

LEMMA SessionsExist ==
    ASSUME NEW n \in 1 .. MaxPcs, NEW t \in Media, NEW d \in Direction
    PROVE  <<n, t, d>> \in Session
  BY OwnSessionsAssumption DEF Direction

LEMMA ResetParams ==
    ASSUME NEW l, Sound(l), pc \in 1 .. MaxPcs, NEW t \in Media
    PROVE  /\ Sound(reset_params(l, t))
           /\ \A u \in Session : reset_params(l, t).session[u] =
                  IF u \in {<<pc, t, "send">>, <<pc, t, "recv">>} THEN "none" ELSE l.session[u]
  <1>1. PICK a, b, m : /\ a = <<pc, t, "send">> /\ b = <<pc, t, "recv">> /\ m = Delete(l, a)
    OBVIOUS
  <1>2. a \in Session /\ b \in Session
    BY <1>1, SessionsExist DEF Direction
  <1>3. Sound(m) /\ Sound(Delete(m, b)) /\ l \in Library /\ m \in Library
    <2>1. Sound(m)
      BY <1>1, <1>2, DeleteSound
    <2>2. Sound(Delete(m, b))
      BY <1>2, <2>1, DeleteSound
    <2> QED BY <2>1, <2>2 DEF Sound
  <1>4. reset_params(l, t) = Delete(m, b)
    BY <1>1 DEF reset_params
  <1>5. ASSUME NEW u \in Session PROVE Delete(m, b).session[u] = IF u \in {a, b} THEN "none" ELSE l.session[u]
    <2>1. Delete(m, b).session[u] = IF u = b THEN "none" ELSE m.session[u]
      BY <1>2, <1>3, DeleteSessions
    <2>2. m.session[u] = IF u = a THEN "none" ELSE l.session[u]
      BY <1>1, <1>2, <1>3, DeleteSessions
    <2> QED BY <2>1, <2>2
  <1> QED BY <1>1, <1>3, <1>4, <1>5

(* Either both sessions of a transport come into being or none does.       *)
LEMMA RtpParams ==
    ASSUME Accounted, pc \in 1 .. MaxPcs, NEW t \in Media \ Keyed, NEW a \in Outcome, NEW b \in Outcome,
           NEW r, r = set_rtp_params(lib, t, a, b)
    PROVE  /\ Sound(r.lib) /\ r.ok \in BOOLEAN
           /\ \A u \in Session : r.lib.session[u] =
                  IF u \in {<<pc, t, "send">>, <<pc, t, "recv">>}
                  THEN (IF r.ok THEN "created" ELSE "none") ELSE lib.session[u]
  <1>1. PICK s1, s2, l1, l2 : /\ s1 = <<pc, t, "send">> /\ s2 = <<pc, t, "recv">>
                              /\ l1 = SetKey(lib, s1, a) /\ l2 = SetKey(l1, s2, b)
    OBVIOUS
  <1>2. s1 \in Session /\ s2 \in Session /\ s1 # s2
    BY <1>1, SessionsExist DEF Direction
  <1>3. lib.session[s1] = "none" /\ lib.session[s2] = "none" /\ Sound(lib) /\ lib \in Library
    BY <1>1, PcsAssumption DEF Accounted, Direction, Sound
  <1>4. Sound(l1)
    BY <1>1, <1>2, <1>3, SetKeySound
  <1>5. /\ \A u \in Session \ {s1} : l1.session[u] = lib.session[u]
        /\ Succeeds(lib, a) => l1.session[s1] = "created"
    BY <1>1, <1>2, <1>3, SetKeySessions
  <1>6. l1 \in Library /\ l1.session[s2] = "none"
    BY <1>2, <1>3, <1>4, <1>5 DEF Sound
  <1>7. Sound(l2)
    BY <1>1, <1>2, <1>4, <1>6, SetKeySound
  <1>8. /\ \A u \in Session \ {s2} : l2.session[u] = l1.session[u]
        /\ Succeeds(l1, b) => l2.session[s2] = "created"
    BY <1>1, <1>2, <1>6, SetKeySessions
  <1>9. CASE ~Succeeds(lib, a)
    <2>1. r = [ok |-> FALSE, lib |-> reset_params(l1, t)]
      BY <1>1, <1>9 DEF set_rtp_params
    <2>2. /\ Sound(reset_params(l1, t))
          /\ \A u \in Session : reset_params(l1, t).session[u] = IF u \in {s1, s2} THEN "none" ELSE l1.session[u]
      BY <1>1, <1>4, ResetParams
    <2> QED BY <1>1, <1>5, <2>1, <2>2
  <1>10. CASE Succeeds(lib, a) /\ ~Succeeds(l1, b)
    <2>1. r = [ok |-> FALSE, lib |-> reset_params(l2, t)]
      BY <1>1, <1>10 DEF set_rtp_params
    <2>2. /\ Sound(reset_params(l2, t))
          /\ \A u \in Session : reset_params(l2, t).session[u] = IF u \in {s1, s2} THEN "none" ELSE l2.session[u]
      BY <1>1, <1>7, ResetParams
    <2> QED BY <1>1, <1>5, <1>8, <2>1, <2>2
  <1>11. CASE Succeeds(lib, a) /\ Succeeds(l1, b)
    <2>1. r = [ok |-> TRUE, lib |-> l2]
      BY <1>1, <1>11 DEF set_rtp_params
    <2>2. l2.session[s1] = "created" /\ l2.session[s2] = "created"
      BY <1>2, <1>5, <1>8, <1>11
    <2> QED BY <1>1, <1>5, <1>7, <1>8, <2>1, <2>2
  <1> QED BY <1>9, <1>10, <1>11

(* The sessions go with the keys.                                          *)
LEMMA ResetLostAccounted ==
    ASSUME Accounted, pc \in 1 .. MaxPcs, Created \subseteq Media, Created' = Created,
           \A u \in Created : Sheds(transport[u], transport'[u]),
           lib' = ResetLost(lib), UNCHANGED pc
    PROVE  Accounted'
  <1> DEFINE Lost(t) == t \in Created /\ transport[t].keys # NoKeys /\ transport'[t].keys = NoKeys
             Both(t) == {<<pc, t, "send">>, <<pc, t, "recv">>}
  <1>1. PICK m : m = IF Lost("audio") THEN reset_params(lib, "audio") ELSE lib
    OBVIOUS
  <1>2. lib' = IF Lost("video") THEN reset_params(m, "video") ELSE m
    BY <1>1 DEF ResetLost
  <1> HIDE DEF Lost
  <1>3. /\ Sound(m)
        /\ \A u \in Session : m.session[u] =
               IF Lost("audio") /\ u \in Both("audio") THEN "none" ELSE lib.session[u]
    BY <1>1, ResetParams DEF Accounted, Media
  <1>4. /\ Sound(lib')
        /\ \A u \in Session : lib'.session[u] =
               IF Lost("video") /\ u \in Both("video") THEN "none" ELSE m.session[u]
    BY <1>2, <1>3, ResetParams DEF Media
  <1>5. Sound(lib)'
    BY <1>4 DEF Sound, Counted, Library
  <1>6. ASSUME NEW t \in Media PROVE t \in Keyed' <=> t \in Keyed /\ ~Lost(t)
    BY DEF Keyed, Sheds, Lost, Created
  <1>7. ASSUME NEW n \in pc .. MaxPcs, NEW t \in Media, NEW d \in Direction
        PROVE  lib'.session[<<n, t, d>>] = IF n = pc /\ t \in Keyed' THEN "created" ELSE "none"
    <2>1. PICK u : u = <<n, t, d>>
      OBVIOUS
    <2>2. n \in 1 .. MaxPcs /\ u \in Session
      BY <2>1, SessionsExist, PcsAssumption
    <2>3. \A v \in Media : u \in Both(v) <=> n = pc /\ t = v
      BY <2>1 DEF Direction
    <2>4. lib'.session[u] = IF n = pc /\ Lost(t) THEN "none" ELSE lib.session[u]
      BY <1>3, <1>4, <2>2, <2>3 DEF Media
    <2>5. lib.session[u] = IF n = pc /\ t \in Keyed THEN "created" ELSE "none"
      BY <2>1 DEF Accounted
    <2> QED BY <1>6, <2>1, <2>4, <2>5
  <1> QED BY <1>5, <1>7 DEF Accounted

(* Whatever keeps pc and the keys keeps the account.                       *)
LEMMA SameKeysAccounted ==
    ASSUME Accounted, Keyed' = Keyed, UNCHANGED <<lib, pc>>, pc > MaxPcs => Created' = {}
    PROVE  Accounted'
  BY DEF Accounted, Sound, Counted, Library

LEMMA OpenAccounted ==
    ASSUME Transports, Accounted, pc \in 1 .. MaxPcs, Created \subseteq Media, UNCHANGED pc,
           NEW t \in Created, Connected(t)
    PROVE  Accounted'
  <1>1. CASE Open(t, FALSE) /\ UNCHANGED lib
    <2>1. Keyed' = Keyed /\ Created' = Created
      BY <1>1, OpenKeeps DEF Keyed
    <2> QED BY <1>1, <2>1, SameKeysAccounted, PcsAssumption
  <1>2. CASE \E a, b \in Outcome : LET r == set_rtp_params(lib, t, a, b) IN Open(t, r.ok) /\ lib' = r.lib
    <2>1. PICK a \in Outcome, b \in Outcome :
              \E r : r = set_rtp_params(lib, t, a, b) /\ Open(t, r.ok) /\ lib' = r.lib
      BY <1>2
    <2> PICK r : r = set_rtp_params(lib, t, a, b) /\ Open(t, r.ok) /\ lib' = r.lib
      BY <2>1
    <2>2. r.ok \in BOOLEAN
      BY <2>1 DEF set_rtp_params
    <2>3. /\ Created' = Created /\ transport[t].keys = NoKeys /\ (transport'[t].keys # NoKeys <=> r.ok)
          /\ \A u \in Created \ {t} : transport'[u] = transport[u]
      BY <2>1, <2>2, OpenKeeps
    <2>4. t \in Media \ Keyed
      BY <2>3 DEF Keyed
    <2>5. /\ Sound(r.lib)
          /\ \A u \in Session : r.lib.session[u] =
                 IF u \in {<<pc, t, "send">>, <<pc, t, "recv">>}
                 THEN (IF r.ok THEN "created" ELSE "none") ELSE lib.session[u]
      BY <2>1, <2>4, RtpParams
    <2>6. Sound(lib)'
      BY <2>1, <2>5 DEF Sound, Counted, Library
    <2>7. ASSUME NEW v \in Media PROVE v \in Keyed' <=> IF v = t THEN r.ok ELSE v \in Keyed
      BY <2>3 DEF Keyed, Created
    <2>8. ASSUME NEW n \in pc .. MaxPcs, NEW v \in Media, NEW d \in Direction
          PROVE  lib'.session[<<n, v, d>>] = IF n = pc /\ v \in Keyed' THEN "created" ELSE "none"
      <3>1. PICK u : u = <<n, v, d>>
        OBVIOUS
      <3>2. n \in 1 .. MaxPcs /\ u \in Session
        BY <3>1, SessionsExist, PcsAssumption
      <3>3. u \in {<<pc, t, "send">>, <<pc, t, "recv">>} <=> n = pc /\ v = t
        BY <3>1 DEF Direction
      <3>4. lib.session[u] = IF n = pc /\ v \in Keyed THEN "created" ELSE "none"
        BY <3>1 DEF Accounted
      <3> QED BY <2>1, <2>5, <2>7, <3>1, <3>2, <3>3, <3>4
    <2> QED BY <2>3, <2>6, <2>8 DEF Accounted
  <1> QED BY <1>1, <1>2 DEF Connected

LEMMA CreatedAreMedia ==
    ASSUME Offered
    PROVE  Created \subseteq Media
  BY DEF Offered, TransportMids, Media

LEMMA NewIsUnkeyed ==
    ASSUME NEW mids, transport' = [t \in mids |-> NewTransport]
    PROVE  Keyed' = {} /\ Created' = mids
  BY DEF Keyed, Created, NewTransport, NoKeys

LEMMA InitAccounted == Init => Accounted
  <1> SUFFICES ASSUME Init PROVE Accounted
    OBVIOUS
  <1>1. LibInit /\ pc = 1 /\ Created = {}
    BY DEF Init, TransportInit, Created
  <1>2. Sound(lib) /\ lib = Down
    BY <1>1, DownSound DEF LibInit
  <1>3. ASSUME NEW n \in pc .. MaxPcs, NEW t \in Media, NEW d \in Direction
        PROVE  lib.session[<<n, t, d>>] = "none"
    BY <1>1, <1>2, SessionsExist, PcsAssumption DEF Down
  <1> QED BY <1>1, <1>2, <1>3 DEF Accounted, Keyed

LEMMA OtherWorkerAccounted ==
    ASSUME Accounted, OtherWorker
    PROVE  Accounted'
  <1>1. PICK s \in Others :
            \/ \E o \in Outcome : lib.session[s] = "none" /\ lib' = SetKey(lib, s, o)
            \/ lib' = Delete(lib, s)
    BY DEF OtherWorker
  <1>2. s \in Session /\ s[1] = 0 /\ lib \in Library /\ Sound(lib)
    BY DEF Others, Accounted, Sound
  <1>3. Sound(lib') /\ \A u \in Session \ {s} : lib'.session[u] = lib.session[u]
    BY <1>1, <1>2, SetKeySound, DeleteSound, SetKeySessions, DeleteSessions
  <1>4. Sound(lib)'
    BY <1>3 DEF Sound, Counted, Library
  <1>5. UNCHANGED <<transport, pc>>
    BY DEF OtherWorker, transportVars
  <1>6. ASSUME NEW n \in pc .. MaxPcs, NEW t \in Media, NEW d \in Direction
        PROVE  lib'.session[<<n, t, d>>] = lib.session[<<n, t, d>>]
    <2>1. pc \in Nat \ {0}
      BY DEF Accounted
    <2>2. n \in 1 .. MaxPcs /\ n # 0
      BY <2>1, PcsAssumption
    <2>3. <<n, t, d>>[1] # s[1]
      BY <1>2, <2>2
    <2> QED BY <1>3, <2>2, <2>3, SessionsExist
  <1> QED BY <1>4, <1>5, <1>6 DEF Accounted, Keyed, Created

LEMMA DestroyAccounted ==
    ASSUME Accounted, Destroy
    PROVE  Accounted'
  <1>1. Keyed' = {} /\ Created' = {}
    BY NewIsUnkeyed DEF Destroy
  <1>2. pc' = pc + 1 /\ lib' = lib /\ pc \in Nat \ {0}
    BY DEF Destroy, Accounted
  <1>3. ASSUME NEW n \in pc' .. MaxPcs, NEW t \in Media, NEW d \in Direction
        PROVE  lib'.session[<<n, t, d>>] = "none"
    <2>1. n \in pc .. MaxPcs /\ n # pc
      BY <1>2, PcsAssumption
    <2> QED BY <1>2, <2>1 DEF Accounted
  <1>4. Sound(lib)'
    BY <1>2 DEF Accounted, Sound, Counted, Library
  <1> QED BY <1>1, <1>2, <1>3, <1>4 DEF Accounted

LEMMA AccountedInductive ==
    Transports /\ Offered /\ Accounted /\ [Next]_vars => Accounted'
  <1> SUFFICES ASSUME Transports, Offered, Accounted, [Next]_vars PROVE Accounted'
    OBVIOUS
  <1>1. Created \subseteq Media
    BY CreatedAreMedia
  <1>2. Running => pc \in 1 .. MaxPcs
    BY PcsAssumption DEF Running, Accounted
  <1>3. ASSUME NEW media \in SUBSET Media, NEW mux \in Mux, create_offer(media, mux)
        PROVE  Accounted'
    <2>1. Keyed' = {} /\ Keyed = {}
      BY <1>3, NewIsUnkeyed DEF create_offer, set_local_description, Offered, Keyed
    <2> QED BY <1>2, <1>3, <2>1, SameKeysAccounted, PcsAssumption DEF create_offer
  <1>4. ASSUME NEW sdp \in Sdp, set_remote_sdp(sdp) PROVE Accounted'
    <2>1. PICK p : p = Parse(sdp)
      OBVIOUS
    <2>2. /\ Accept(p) \/ Refuse(p) \/ UNCHANGED <<transportVars, lib>>
          /\ pc' = pc /\ pc \in 1 .. MaxPcs
      BY <1>2, <1>4, <2>1 DEF set_remote_sdp
    <2>3. CASE UNCHANGED <<transportVars, lib>>
      BY <2>2, <2>3, SameKeysAccounted, PcsAssumption DEF transportVars, Keyed, Created
    <2>4. CASE /\ Accept(p) /\ \A t \in p.contents \cap Created : p.fingerprint[t] # NULL
      <3>1. PICK f : f = [t \in p.contents |-> p.fingerprint[t]]
        OBVIOUS
      <3>2. set_remote_description(f) /\ lib' = ResetLost(lib)
        BY <2>4, <3>1 DEF Accept
      <3>3. \A t \in DOMAIN f \cap Created : f[t] \in Good \cup Bad
        BY <2>1, <2>4, <3>1, AnswerParsed DEF Parsed
      <3>4. Created' = Created /\ \A u \in Created : Sheds(transport[u], transport'[u])
        BY <3>2, <3>3, AnswerKeeps
      <3> QED BY <1>1, <2>2, <3>2, <3>4, ResetLostAccounted
    <2> QED BY <2>2, <2>3, <2>4 DEF Accept, Refuse
  <1>5. CASE TransportStep
    <2>1. PICK t \in Created : Connected(t) \/ Event(t)
      BY <1>5 DEF TransportStep
    <2>2. pc' = pc /\ pc \in 1 .. MaxPcs
      BY <1>2, <1>5 DEF TransportStep
    <2>3. CASE Connected(t)
      BY <1>1, <2>2, <2>3, OpenAccounted
    <2>4. CASE Event(t)
      <3>1. Created' = Created /\ \A u \in Created : Sheds(transport[u], transport'[u])
        BY <2>4, IceKeeps, HelloKeeps, CloseKeeps DEF Event
      <3>2. lib' = ResetLost(lib)
        BY <2>4 DEF Event
      <3> QED BY <1>1, <2>2, <3>1, <3>2, ResetLostAccounted
    <2> QED BY <2>1, <2>3, <2>4
  <1>6. CASE UNCHANGED vars
    BY <1>6, SameKeysAccounted DEF vars, transportVars, Keyed, Created, Accounted
  <1> QED BY <1>3, <1>4, <1>5, <1>6, DestroyAccounted, OtherWorkerAccounted DEF Next

(* Every reference to libsrtp is that of a session, and the sessions of    *)
(* the living PeerConnection are those of its transports with keys.        *)
THEOREM SessionsAccounted == Spec => []LibraryAccounted
  <1>1. Offered /\ Accounted => LibraryAccounted
    <2> SUFFICES ASSUME Offered, Accounted, NEW t \in Created, NEW s \in Own(t)
                 PROVE  Sound(lib) /\ lib.session[s] = IF transport[t].keys # NoKeys THEN "created" ELSE "none"
      BY DEF LibraryAccounted, Accounted
    <2>1. pc \in 1 .. MaxPcs /\ t \in Media
      BY CreatedAreMedia, PcsAssumption DEF Accounted
    <2>2. PICK d \in Direction : s = <<pc, t, d>>
      BY DEF Own
    <2> QED BY <2>1, <2>2, PcsAssumption DEF Accounted, Keyed
  <1> QED BY AlwaysAggregated, InitAccounted, AccountedInductive, <1>1, PTL DEF Spec

-----------------------------------------------------------------------------
Tracked == [id : Track \cup {NULL}, ssrcs : Seq(Ssrc)]

(* A track has the SSRCs listed for it among the first n, each once.       *)
Collects(infos, n, x) ==
    /\ \A i, j \in 1 .. Len(x.ssrcs) : x.ssrcs[i] = x.ssrcs[j] => i = j
    /\ ToSet(x.ssrcs) = {infos[i].id : i \in {j \in 1 .. n : infos[j].track = x.id}}

Distinct(infos) ==
    \A i, j \in 1 .. Len(infos) : infos[i].id = infos[j].id => i = j

LEMMA CollectsMore ==
    ASSUME NEW infos \in Seq(Info), Distinct(infos), NEW n \in Nat, n + 1 \in 1 .. Len(infos),
           NEW x \in Tracked, Collects(infos, n, x)
    PROVE  IF infos[n + 1].track = x.id
           THEN Collects(infos, n + 1, [x EXCEPT !.ssrcs = Append(@, infos[n + 1].id)])
           ELSE Collects(infos, n + 1, x)
  <1>1. PICK e : e = infos[n + 1]
    OBVIOUS
  <1>2. e \in Info /\ e.id \in Ssrc
    <2>1. e \in Info
      BY <1>1
    <2> QED BY <2>1 DEF Info
  <1>3. \A j : j \in 1 .. n + 1 <=> j \in 1 .. n \/ j = n + 1
    OBVIOUS
  <1>4. PICK J : J = {j \in 1 .. n : infos[j].track = x.id}
    OBVIOUS
  <1>5. ToSet(x.ssrcs) = {infos[i].id : i \in J}
    BY <1>4 DEF Collects
  <1>6. CASE e.track = x.id
    <2>1. PICK s : s = Append(x.ssrcs, e.id)
      OBVIOUS
    <2>2. x.ssrcs \in Seq(Ssrc) /\ Len(x.ssrcs) \in Nat
      BY DEF Tracked
    <2>3. /\ s \in Seq(Ssrc) /\ Len(s) = Len(x.ssrcs) + 1 /\ s[Len(s)] = e.id
          /\ \A i \in 1 .. Len(x.ssrcs) : s[i] = x.ssrcs[i]
      BY <1>2, <2>1, <2>2
    <2>4. \A i : i \in 1 .. Len(s) <=> i \in 1 .. Len(x.ssrcs) \/ i = Len(s)
      BY <2>2, <2>3
    <2>5. DOMAIN s = 1 .. Len(s) /\ DOMAIN x.ssrcs = 1 .. Len(x.ssrcs)
      BY <2>2, <2>3
    <2>6. ToSet(s) = ToSet(x.ssrcs) \cup {e.id}
      BY <2>3, <2>4, <2>5 DEF ToSet
    <2>7. \A i \in 1 .. Len(x.ssrcs) : x.ssrcs[i] # e.id
      <3>1. \A i \in J : i \in 1 .. Len(infos) /\ i # n + 1
        BY <1>4
      <3>2. \A i \in J : infos[i].id # e.id
        BY <1>1, <3>1 DEF Distinct
      <3>3. \A i \in 1 .. Len(x.ssrcs) : x.ssrcs[i] \in ToSet(x.ssrcs)
        BY <2>5 DEF ToSet
      <3> QED BY <1>5, <3>2, <3>3
    <2>8. ASSUME NEW i \in 1 .. Len(s), NEW j \in 1 .. Len(s), s[i] = s[j] PROVE i = j
      <3>1. CASE i \in 1 .. Len(x.ssrcs) /\ j \in 1 .. Len(x.ssrcs)
        BY <2>3, <2>8, <3>1 DEF Collects
      <3>2. CASE i = Len(s) \/ j = Len(s)
        BY <2>3, <2>4, <2>7, <2>8, <3>2
      <3> QED BY <2>4, <3>1, <3>2
    <2>9. {j \in 1 .. n + 1 : infos[j].track = x.id} = J \cup {n + 1}
      BY <1>1, <1>3, <1>4, <1>6
    <2>10. {infos[i].id : i \in J \cup {n + 1}} = {infos[i].id : i \in J} \cup {e.id}
      BY <1>1
    <2>11. PICK y : y = [x EXCEPT !.ssrcs = s]
      OBVIOUS
    <2>12. y.ssrcs = s /\ y.id = x.id
      BY <2>11 DEF Tracked
    <2>13. Collects(infos, n + 1, y)
      BY <1>5, <2>6, <2>8, <2>9, <2>10, <2>12 DEF Collects
    <2>14. y = [x EXCEPT !.ssrcs = Append(@, infos[n + 1].id)]
      BY <1>1, <2>1, <2>11
    <2> QED BY <1>1, <1>6, <2>13, <2>14
  <1>7. CASE e.track # x.id
    <2>1. {j \in 1 .. n + 1 : infos[j].track = x.id} = J
      BY <1>1, <1>3, <1>4, <1>7
    <2>2. Collects(infos, n + 1, x)
      BY <1>5, <2>1 DEF Collects
    <2> QED BY <1>1, <1>7, <2>2
  <1> QED BY <1>6, <1>7

(* The tracks of the first n SSRCs, each once.                             *)
Gathered(infos, n, tracks) ==
    /\ tracks \in Seq(Tracked)
    /\ \A j, k \in 1 .. Len(tracks) : tracks[j].id = tracks[k].id => j = k
    /\ {tracks[k].id : k \in 1 .. Len(tracks)} = {infos[i].track : i \in 1 .. n}
    /\ \A k \in 1 .. Len(tracks) : Collects(infos, n, tracks[k])

LEMMA GatheredMore ==
    ASSUME NEW infos \in Seq(Info), Distinct(infos), NEW n \in Nat, n + 1 \in 1 .. Len(infos),
           NEW tracks, Gathered(infos, n, tracks)
    PROVE  Gathered(infos, n + 1, AddTrack(tracks, infos[n + 1]))
  <1>1. PICK e : e = infos[n + 1]
    OBVIOUS
  <1>2. e \in Info /\ e.id \in Ssrc /\ e.track \in Track \cup {NULL}
    <2>1. e \in Info
      BY <1>1
    <2> QED BY <2>1 DEF Info
  <1>3. \A j : j \in 1 .. n + 1 <=> j \in 1 .. n \/ j = n + 1
    OBVIOUS
  <1>4. PICK q : q = AddTrack(tracks, e)
    OBVIOUS
  <1>5. /\ tracks \in Seq(Tracked) /\ Len(tracks) \in Nat /\ DOMAIN tracks = 1 .. Len(tracks)
        /\ \A k \in 1 .. Len(tracks) : tracks[k] \in Tracked
    BY DEF Gathered
  <1>6. {infos[i].track : i \in 1 .. n + 1} = {infos[i].track : i \in 1 .. n} \cup {e.track}
    BY <1>1, <1>3
  <1>7. {tracks[k].id : k \in 1 .. Len(tracks)} = {infos[i].track : i \in 1 .. n}
    BY DEF Gathered
  <1> DEFINE more(x) == [x EXCEPT !.ssrcs = Append(@, e.id)]
  <1>8. ASSUME NEW k \in 1 .. Len(tracks)
        PROVE  IF e.track = tracks[k].id THEN Collects(infos, n + 1, more(tracks[k]))
               ELSE Collects(infos, n + 1, tracks[k])
    <2>1. tracks[k] \in Tracked /\ Collects(infos, n, tracks[k])
      BY <1>5 DEF Gathered
    <2> QED BY <1>1, <2>1, CollectsMore
  <1>9. CASE \A k \in 1 .. Len(tracks) : tracks[k].id # e.track
    <2>1. PICK x : x = [id |-> e.track, ssrcs |-> <<e.id>>]
      OBVIOUS
    <2>2. x \in Tracked
      BY <1>2, <2>1 DEF Tracked
    <2>3. q = Append(tracks, x)
      BY <1>4, <1>5, <1>9, <2>1 DEF AddTrack
    <2>4. /\ q \in Seq(Tracked) /\ Len(q) = Len(tracks) + 1 /\ q[Len(q)] = x
          /\ \A k \in 1 .. Len(tracks) : q[k] = tracks[k]
      BY <1>5, <2>2, <2>3
    <2>5. \A k : k \in 1 .. Len(q) <=> k \in 1 .. Len(tracks) \/ k = Len(q)
      BY <1>5, <2>4
    <2>6. Collects(infos, n + 1, x)
      <3>1. \A i \in 1 .. n : infos[i].track # e.track
        BY <1>7, <1>9
      <3>2. {j \in 1 .. n + 1 : infos[j].track = x.id} = {n + 1}
        BY <1>1, <1>3, <2>1, <3>1
      <3>3. {infos[i].id : i \in {n + 1}} = {e.id}
        BY <1>1
      <3>4. x.ssrcs = <<e.id>> /\ ToSet(<<e.id>>) = {e.id}
        BY <2>1 DEF ToSet
      <3>5. \A i, j \in 1 .. Len(x.ssrcs) : i = j
        BY <3>4
      <3> QED BY <3>2, <3>3, <3>4, <3>5 DEF Collects
    <2>7. x.id = e.track
      BY <2>1
    <2>8. ASSUME NEW j \in 1 .. Len(q), NEW k \in 1 .. Len(q), q[j].id = q[k].id PROVE j = k
      <3>1. CASE j \in 1 .. Len(tracks) /\ k \in 1 .. Len(tracks)
        BY <2>4, <2>8, <3>1 DEF Gathered
      <3>2. CASE j = Len(q) \/ k = Len(q)
        BY <1>9, <2>4, <2>5, <2>7, <2>8, <3>2
      <3> QED BY <2>5, <3>1, <3>2
    <2>9. {q[k].id : k \in 1 .. Len(q)} = {tracks[k].id : k \in 1 .. Len(tracks)} \cup {e.track}
      BY <2>4, <2>5, <2>7
    <2>10. ASSUME NEW k \in 1 .. Len(q) PROVE Collects(infos, n + 1, q[k])
      <3>1. CASE k \in 1 .. Len(tracks)
        <4>1. e.track # tracks[k].id
          BY <1>9, <3>1
        <4> QED BY <1>8, <2>4, <3>1, <4>1
      <3>2. CASE k = Len(q)
        BY <2>4, <2>6, <3>2
      <3> QED BY <2>5, <3>1, <3>2
    <2>11. Gathered(infos, n + 1, q)
      BY <1>6, <1>7, <2>4, <2>8, <2>9, <2>10 DEF Gathered
    <2> QED BY <1>1, <1>4, <2>11
  <1>10. CASE \E k \in 1 .. Len(tracks) : tracks[k].id = e.track
    <2> DEFINE y(k) == IF tracks[k].id = e.track THEN more(tracks[k]) ELSE tracks[k]
    <2>1. q = [k \in 1 .. Len(tracks) |-> y(k)]
      BY <1>4, <1>5, <1>10 DEF AddTrack
    <2>2. ASSUME NEW k \in 1 .. Len(tracks) PROVE y(k) \in Tracked /\ y(k).id = tracks[k].id
      <3>1. tracks[k] \in Tracked
        BY <1>5
      <3>2. PICK t : t = tracks[k]
        OBVIOUS
      <3>3. t \in Tracked /\ t.ssrcs \in Seq(Ssrc)
        BY <3>1, <3>2 DEF Tracked
      <3>4. PICK a : a = Append(t.ssrcs, e.id)
        OBVIOUS
      <3>5. a \in Seq(Ssrc)
        BY <1>2, <3>3, <3>4
      <3>6. [t EXCEPT !.ssrcs = a] \in Tracked /\ [t EXCEPT !.ssrcs = a].id = t.id
        BY <3>3, <3>5 DEF Tracked
      <3>7. more(t) = [t EXCEPT !.ssrcs = a]
        BY <3>4
      <3>8. more(tracks[k]) \in Tracked /\ more(tracks[k]).id = tracks[k].id
        BY <3>2, <3>6, <3>7
      <3> QED BY <3>1, <3>8
    <2>3. ASSUME NEW k \in 1 .. Len(tracks) PROVE Collects(infos, n + 1, y(k))
      BY <1>8
    <2> HIDE DEF y, more
    <2>4. q \in Seq(Tracked) /\ Len(q) = Len(tracks)
      <3>1. q \in [1 .. Len(tracks) -> Tracked]
        BY <2>1, <2>2
      <3> QED BY <1>5, <3>1
    <2>5. \A k \in 1 .. Len(tracks) : q[k] = y(k) /\ q[k].id = tracks[k].id
      BY <2>1, <2>2
    <2>6. \A j, k \in 1 .. Len(q) : q[j].id = q[k].id => j = k
      BY <2>4, <2>5 DEF Gathered
    <2>7. {q[k].id : k \in 1 .. Len(q)} = {tracks[k].id : k \in 1 .. Len(tracks)}
      BY <2>4, <2>5
    <2>8. e.track \in {tracks[k].id : k \in 1 .. Len(tracks)}
      BY <1>10
    <2>9. Gathered(infos, n + 1, q)
      BY <1>6, <1>7, <2>3, <2>4, <2>5, <2>6, <2>7, <2>8 DEF Gathered
    <2> QED BY <1>1, <1>4, <2>9
  <1> QED BY <1>9, <1>10

(* Each track once, with all the SSRCs that are listed for it.             *)
LEMMA TracksGathered ==
    ASSUME NEW infos \in Seq(Info), Distinct(infos)
    PROVE  Gathered(infos, Len(infos), create_track_from_ssrc_info(infos))
  <1> DEFINE N == Len(infos)
  <1>1. N \in Nat
    OBVIOUS
  <1>2. PICK f : /\ f[0] = <<>> /\ create_track_from_ssrc_info(infos) = f[N]
                 /\ \A n \in 1 .. N : f[n] = AddTrack(f[n - 1], infos[n])
    BY <1>1, TrackSteps
  <1> DEFINE T == {n \in Nat : n <= N => Gathered(infos, n, f[n])}
  <1>3. 0 \in T
    <2>1. <<>> \in Seq(Tracked) /\ Len(<<>>) = 0
      OBVIOUS
    <2>2. {infos[i].track : i \in 1 .. 0} = {}
      OBVIOUS
    <2>3. Gathered(infos, 0, <<>>)
      BY <2>1, <2>2 DEF Gathered
    <2> QED BY <1>2, <2>3
  <1>4. ASSUME NEW n \in Nat, n \in T PROVE n + 1 \in T
    <2> SUFFICES ASSUME n + 1 <= N PROVE Gathered(infos, n + 1, f[n + 1])
      OBVIOUS
    <2>1. n + 1 \in 1 .. N /\ n <= N /\ (n + 1) - 1 = n
      BY <1>1
    <2>2. Gathered(infos, n, f[n])
      BY <1>4, <2>1
    <2>3. f[n + 1] = AddTrack(f[n], infos[n + 1])
      BY <1>2, <2>1
    <2> QED BY <2>1, <2>2, <2>3, GatheredMore
  <1>5. N \in T
    <2> HIDE DEF T
    <2> QED BY <1>1, <1>3, <1>4, CountUp
  <1>6. N <= N
    BY <1>1
  <1> QED BY <1>2, <1>5, <1>6

(* The groups that a track leads.                                          *)
Led(p, m, x) == IF m = "video" THEN {g \in p.groups : Head(g) \in ToSet(x.ssrcs)} ELSE {}

(* Streams are tracks with their groups.                                   *)
Carries(s, p, m, tracks) ==
    /\ s \in Seq(StreamParams) /\ Len(s) = Len(tracks) /\ DOMAIN s = 1 .. Len(tracks)
    /\ \A k \in 1 .. Len(tracks) : /\ tracks[k] \in Tracked
                                   /\ s[k].id = tracks[k].id /\ s[k].ssrcs = tracks[k].ssrcs
                                   /\ s[k].groups = Led(p, m, tracks[k])

(* The streams of an accepted answer, medium by medium.                    *)
LEMMA StreamsAre ==
    ASSUME NEW p \in Parsed, NEW m \in Media, Distinct(p.ssrcs[m])
    PROVE  \E tracks : /\ Gathered(p.ssrcs[m], Len(p.ssrcs[m]), tracks)
                       /\ Carries(Streams(p)[m], p, m, tracks)
  <1>1. p.ssrcs[m] \in Seq(Info) /\ p.groups \in SUBSET Seq(Ssrc)
    BY DEF Parsed
  <1>2. PICK tracks : tracks = create_track_from_ssrc_info(p.ssrcs[m])
    OBVIOUS
  <1>3. Gathered(p.ssrcs[m], Len(p.ssrcs[m]), tracks)
    BY <1>1, <1>2, TracksGathered
  <1>4. tracks \in Seq(Tracked) /\ Len(tracks) \in Nat /\ DOMAIN tracks = 1 .. Len(tracks)
    BY <1>3 DEF Gathered
  <1> DEFINE stream(x) == [id |-> x.id, ssrcs |-> x.ssrcs, groups |-> Led(p, m, x)]
  <1>5. Streams(p)[m] = [k \in 1 .. Len(tracks) |-> stream(tracks[k])]
    BY <1>2, <1>4 DEF Streams, Led
  <1>6. ASSUME NEW x \in Tracked PROVE stream(x) \in StreamParams
    <2>1. x.id \in Track \cup {NULL} /\ x.ssrcs \in Seq(Ssrc)
      BY DEF Tracked
    <2>2. Led(p, m, x) \in SUBSET Seq(Ssrc)
      BY <1>1 DEF Led
    <2> QED BY <2>1, <2>2 DEF StreamParams
  <1>7. \A k \in 1 .. Len(tracks) : tracks[k] \in Tracked
    BY <1>4
  <1>8. \A k \in 1 .. Len(tracks) : stream(tracks[k]) \in StreamParams
    BY <1>6, <1>7
  <1>9. PICK s : s = Streams(p)[m]
    OBVIOUS
  <1>10. \A k \in 1 .. Len(tracks) : /\ s[k].id = tracks[k].id /\ s[k].ssrcs = tracks[k].ssrcs
                                     /\ s[k].groups = Led(p, m, tracks[k])
    BY <1>5, <1>9
  <1>11. s \in Seq(StreamParams) /\ Len(s) = Len(tracks) /\ DOMAIN s = 1 .. Len(tracks)
    <2> HIDE DEF stream
    <2>1. s \in [1 .. Len(tracks) -> StreamParams]
      BY <1>5, <1>8, <1>9
    <2> QED BY <1>4, <2>1
  <1>12. Carries(s, p, m, tracks)
    BY <1>7, <1>10, <1>11 DEF Carries
  <1> QED BY <1>3, <1>9, <1>12

Described(p) == [contents |-> p.contents,
                 streams |-> IF p.ok THEN Streams(p) ELSE [m \in Media |-> <<>>]]

(* The streams that are offered are what the lines say.                    *)
Matches(sdp, n, m, ids, groups, offered) ==
    /\ {offered[k].id : k \in DOMAIN offered} = {TrackAt(sdp, n, m, id) : id \in ids}
    /\ IsInjective([k \in DOMAIN offered |-> offered[k].id])
    /\ \A k \in DOMAIN offered :
          /\ IsInjective(offered[k].ssrcs)
          /\ ToSet(offered[k].ssrcs) = {id \in ids : TrackAt(sdp, n, m, id) = offered[k].id}
          /\ offered[k].groups = {g \in groups : Head(g) \in ToSet(offered[k].ssrcs)}

(* What is offered after an answer that was accepted.                      *)
LEMMA OfferIs ==
    ASSUME NEW sdp \in Seq(Line), NEW p, p = Parse(sdp), p.ok, NEW m \in Media,
           NEW offered, offered = IF m \in p.contents THEN Streams(p)[m] ELSE <<>>,
           NEW n, n = Len(sdp), NEW ids, ids = {sdp[i].id : i \in SsrcLines(sdp, n, m)},
           NEW groups, groups = IF m = "video" THEN GroupsAt(sdp, n) ELSE {}
    PROVE  Matches(sdp, n, m, ids, groups, offered)
  <1>1. p \in Parsed /\ Read(sdp, n, p) /\ n \in Nat
    BY ParseReads
  <1>2. PICK infos : infos = p.ssrcs[m]
    OBVIOUS
  <1>3. Listed(sdp, n, m, infos) /\ p.groups = GroupsAt(sdp, n)
    BY <1>1, <1>2 DEF Read
  <1>4. infos \in Seq(Info) /\ Distinct(infos) /\ Len(infos) \in Nat
    BY <1>3 DEF Listed, Distinct
  <1>5. /\ {infos[k].id : k \in 1 .. Len(infos)} = ids
        /\ \A k \in 1 .. Len(infos) : infos[k].track = TrackAt(sdp, n, m, infos[k].id)
    BY <1>3 DEF Listed
  <1>6. {infos[k].track : k \in 1 .. Len(infos)} = {TrackAt(sdp, n, m, id) : id \in ids}
    <2>1. PICK P : P = [id \in ids |-> TrackAt(sdp, n, m, id)]
      OBVIOUS
    <2>2. \A k \in 1 .. Len(infos) : infos[k].id \in ids /\ infos[k].track = P[infos[k].id]
      BY <1>5, <2>1
    <2>3. \A id \in ids : \E k \in 1 .. Len(infos) : infos[k].id = id
      BY <1>5
    <2>4. {infos[k].track : k \in 1 .. Len(infos)} = {P[id] : id \in ids}
      <3>1. \A k \in 1 .. Len(infos) : infos[k].track \in {P[id] : id \in ids}
        BY <2>2
      <3>2. ASSUME NEW id \in ids PROVE P[id] \in {infos[k].track : k \in 1 .. Len(infos)}
        <4>1. PICK k \in 1 .. Len(infos) : infos[k].id = id
          BY <2>3
        <4>2. P[id] = infos[k].track
          BY <2>2, <4>1
        <4> QED BY <4>2
      <3> QED BY <3>1, <3>2
    <2>5. {P[id] : id \in ids} = {TrackAt(sdp, n, m, id) : id \in ids}
      BY <2>1
    <2> QED BY <2>4, <2>5
  <1>7. CASE m \notin p.contents
    <2>1. offered = <<>> /\ DOMAIN offered = {}
      BY <1>7
    <2>2. SsrcLines(sdp, n, m) = {}
      <3>1. \A i \in 1 .. n : MediaAt(sdp, i) # m
        BY <1>1, <1>7 DEF Read
      <3> QED BY <3>1 DEF SsrcLines
    <2>3. ids = {}
      BY <2>2
    <2> QED BY <2>1, <2>3 DEF IsInjective, Matches
  <1>8. CASE m \in p.contents
    <2>1. offered = Streams(p)[m]
      BY <1>8
    <2>2. PICK tracks : Gathered(infos, Len(infos), tracks) /\ Carries(offered, p, m, tracks)
      BY <1>1, <1>2, <1>4, <2>1, StreamsAre
    <2>3. /\ DOMAIN offered = 1 .. Len(tracks)
          /\ \A k \in 1 .. Len(tracks) : offered[k].id = tracks[k].id
      BY <2>2 DEF Carries
    <2>4. {offered[k].id : k \in DOMAIN offered} = {infos[k].track : k \in 1 .. Len(infos)}
      <3>1. {tracks[k].id : k \in 1 .. Len(tracks)} = {infos[k].track : k \in 1 .. Len(infos)}
        BY <2>2 DEF Gathered
      <3>2. {offered[k].id : k \in DOMAIN offered} = {tracks[k].id : k \in 1 .. Len(tracks)}
        BY <2>3
      <3> QED BY <3>1, <3>2
    <2>5. \A j, k \in DOMAIN offered : offered[j].id = offered[k].id => j = k
      <3>1. \A j, k \in 1 .. Len(tracks) : tracks[j].id = tracks[k].id => j = k
        BY <2>2 DEF Gathered
      <3> QED BY <2>3, <3>1
    <2>6. IsInjective([k \in DOMAIN offered |-> offered[k].id])
      BY <2>5 DEF IsInjective
    <2>7. ASSUME NEW k \in DOMAIN offered
          PROVE  /\ IsInjective(offered[k].ssrcs)
                 /\ ToSet(offered[k].ssrcs) = {id \in ids : TrackAt(sdp, n, m, id) = offered[k].id}
                 /\ offered[k].groups = {g \in groups : Head(g) \in ToSet(offered[k].ssrcs)}
      <3>1. PICK x : x = tracks[k]
        OBVIOUS
      <3>2. /\ x \in Tracked /\ Collects(infos, Len(infos), x)
            /\ offered[k].id = x.id /\ offered[k].ssrcs = x.ssrcs
            /\ offered[k].groups = Led(p, m, x)
        BY <2>2, <2>3, <2>7, <3>1 DEF Gathered, Carries
      <3>3. x.ssrcs \in Seq(Ssrc) /\ DOMAIN x.ssrcs = 1 .. Len(x.ssrcs)
        BY <3>2 DEF Tracked
      <3>4. IsInjective(x.ssrcs)
        BY <3>2, <3>3 DEF Collects, IsInjective
      <3>5. ToSet(x.ssrcs) = {infos[i].id : i \in {j \in 1 .. Len(infos) : infos[j].track = x.id}}
        BY <3>2 DEF Collects
      <3>6. ToSet(x.ssrcs) = {id \in ids : TrackAt(sdp, n, m, id) = x.id}
        BY <1>5, <3>5
      <3>7. offered[k].groups = {g \in groups : Head(g) \in ToSet(x.ssrcs)}
        BY <1>3, <3>2 DEF Led
      <3> QED BY <3>2, <3>4, <3>6, <3>7
    <2> QED BY <1>6, <2>4, <2>6, <2>7 DEF Matches
  <1> QED BY <1>7, <1>8

(* An accepted answer gives a description.                                 *)
LEMMA AcceptedIsDescription ==
    ASSUME NEW sdp \in Seq(Line), Parse(sdp).ok
    PROVE  Described(Parse(sdp)) # NULL
  <1>1. PICK p : p = Parse(sdp)
    OBVIOUS
  <1>2. p \in Parsed /\ Read(sdp, Len(sdp), p) /\ p.ok
    BY <1>1, ParseReads
  <1>3. \A m \in Media : Listed(sdp, Len(sdp), m, p.ssrcs[m])
    BY <1>2 DEF Read
  <1>4. \A m \in Media : Distinct(p.ssrcs[m])
    BY <1>3 DEF Listed, Distinct
  <1>5. \A m \in Media : Streams(p)[m] \in Seq(StreamParams)
    BY <1>2, <1>4, StreamsAre DEF Carries
  <1>6. PICK s : s = Streams(p)
    OBVIOUS
  <1>7. s = [m \in Media |-> s[m]]
    BY <1>6 DEF Streams
  <1>8. s \in [Media -> Seq(StreamParams)]
    BY <1>5, <1>6, <1>7
  <1>9. p.contents \in SUBSET Media
    BY <1>2 DEF Parsed
  <1>10. [contents |-> p.contents, streams |-> s] \in SessionDescription
    BY <1>8, <1>9 DEF SessionDescription
  <1> QED BY <1>1, <1>2, <1>6, <1>10, DescriptionAssumption DEF Described

(* The remote description is that of the last answer that had lines.       *)
Published == answer # NULL => answer \in Seq(Line) /\ remote = Described(Parse(answer))

LEMMA PublishedInductive == Published /\ [Next]_vars => Published'
  <1> SUFFICES ASSUME Published, [Next]_vars PROVE Published'
    OBVIOUS
  <1>1. ASSUME NEW media \in SUBSET Media, NEW mux \in Mux, create_offer(media, mux)
        PROVE  Published'
    BY <1>1 DEF create_offer, Published
  <1>2. ASSUME NEW sdp \in Sdp, set_remote_sdp(sdp) PROVE Published'
    <2>1. PICK p : p = Parse(sdp)
      OBVIOUS
    <2>2. CASE sdp = <<>>
      <3>1. answer' = answer /\ remote' = remote
        BY <1>2, <2>2 DEF set_remote_sdp
      <3> QED BY <3>1 DEF Published
    <2>3. CASE sdp # <<>>
      <3>1. answer' = sdp /\ sdp \in Seq(Line)
        BY <1>2, <2>3, SdpAssumption DEF set_remote_sdp
      <3>2. (p.ok /\ Accept(p)) \/ (~p.ok /\ Refuse(p))
        BY <1>2, <2>1, <2>3 DEF set_remote_sdp
      <3>3. remote' = Described(p)
        BY <3>2 DEF Accept, Refuse, Described
      <3>4. answer' \in Seq(Line) /\ remote' = Described(Parse(answer'))
        BY <2>1, <3>1, <3>3
      <3> QED BY <3>4 DEF Published
    <2> QED BY <2>2, <2>3
  <1>3. CASE TransportStep \/ OtherWorker \/ UNCHANGED vars
    BY <1>3 DEF TransportStep, OtherWorker, vars, Published
  <1>4. CASE Destroy
    BY <1>4 DEF Destroy, Published
  <1> QED BY <1>1, <1>2, <1>3, <1>4 DEF Next

(* Whatever lines the answers have and however many, viewers are offered   *)
(* the tracks of the last one that had any, each SSRC under its last msid, *)
(* or nothing if one of its lines was refused.  Answers without lines      *)
(* between change nothing.                                                 *)
THEOREM OfferIsPublished == Spec => []OfferedAsPublished
  <1>1. Init => Published
    BY DEF Init, Published
  <1>2. Published => OfferedAsPublished
    <2> SUFFICES ASSUME Published, answer # NULL PROVE OfferedAsPublished
      BY DEF OfferedAsPublished
    <2>1. PICK p : p = Parse(answer)
      OBVIOUS
    <2>2. answer \in Seq(Line) /\ remote = Described(p)
      BY <2>1 DEF Published
    <2>3. ASSUME ~p.ok, NEW m \in Media PROVE _get_source(m) = <<>>
      <3>1. remote.streams[m] = <<>>
        BY <2>2, <2>3 DEF Described
      <3> QED BY <3>1 DEF _get_source
    <2>4. ASSUME p.ok, NEW m \in Media
          PROVE  Matches(answer, Len(answer), m, {answer[i].id : i \in SsrcLines(answer, Len(answer), m)},
                         IF m = "video" THEN GroupsAt(answer, Len(answer)) ELSE {}, _get_source(m))
      <3>1. remote # NULL
        BY <2>1, <2>2, <2>4, AcceptedIsDescription
      <3>2. _get_source(m) = IF m \in p.contents THEN Streams(p)[m] ELSE <<>>
        <4>1. remote.contents = p.contents /\ remote.streams = Streams(p)
          BY <2>2, <2>4 DEF Described
        <4> QED BY <3>1, <4>1 DEF _get_source
      <3> QED BY <2>1, <2>2, <2>4, <3>2, OfferIs
    <2>5. CASE ~p.ok
      BY <2>1, <2>3, <2>5 DEF OfferedAsPublished
    <2>6. CASE p.ok
      BY <2>1, <2>4, <2>6 DEF OfferedAsPublished, Matches
    <2> QED BY <2>5, <2>6
  <1> QED BY <1>1, <1>2, PublishedInductive, PTL DEF Spec
=============================================================================
