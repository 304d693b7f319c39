-------------------------- MODULE DialogueProofs ---------------------------
(***************************************************************************)
(* The dialogue of a phone and the base station, proved for messages,      *)
(* blocks and queues of every length and for every way in which blocks are *)
(* lost and timers expire early: what is under way is of the connection    *)
(* of the phone or is told apart from it, so that no answer to an earlier  *)
(* connection is taken for one that is waited for, and every fragment that *)
(* polls is acknowledged.                                                  *)
(***************************************************************************)
EXTENDS EndToEndProofs

----------------------------------------------------------------------------
(* The bytes of a block, SDU by SDU. *)

\* All SDUs are complete in a block that is large enough.
LEMMA AllComplete ==
  ASSUME NEW sdus, Sequence(sdus), NEW size \in Nat,
         HeadBytes(sdus) \in Nat, ByteLength(Bodies(sdus)) \in Nat,
         HeadBytes(sdus) + ByteLength(Bodies(sdus)) <= size
  PROVE  Complete(sdus, size) = Len(sdus)
<1> DEFINE n == Len(sdus)
           cost(m) == HeadBytes(sdus) + ByteLength(Bodies(SubSeq(sdus, 1, m)))
           fits(m) == m = 0 \/ cost(m) <= size
           OK(m) == fits(m) /\ \A k \in m + 1 .. n : ~ fits(k)
<1>1. n \in Nat
  BY DEF Sequence
<1>2. SubSeq(sdus, 1, n) = sdus
  <2> DEFINE T == {sdus[i] : i \in 1 .. Len(sdus)}
  <2>1. sdus \in Seq(T)
    BY SequenceIsSeq
  <2> HIDE DEF T
  <2> QED BY <2>1
<1>3. fits(n)
  <2> DEFINE x == HeadBytes(sdus)
             y == ByteLength(Bodies(sdus))
  <2>1. cost(n) = x + y
    BY <1>2
  <2>2. x \in Nat /\ y \in Nat /\ x + y <= size
    OBVIOUS
  <2> HIDE DEF x, y, cost
  <2> QED BY <2>1, <2>2
<1>4. Complete(sdus, size) = CHOOSE m \in 0 .. n : OK(m)
  BY DEF Complete
<1> HIDE DEF fits, n
<1>5. OK(n) /\ n \in 0 .. n
  <2>1. n + 1 .. n = {}
    BY <1>1
  <2> QED BY <1>1, <1>3, <2>1
<1>6. ASSUME NEW m \in 0 .. n, OK(m) PROVE m = n
  <2>1. SUFFICES ASSUME m # n PROVE FALSE
    OBVIOUS
  <2>2. n \in m + 1 .. n
    BY <1>1, <2>1
  <2> QED BY <1>3, <1>6, <2>2
<1> HIDE DEF OK
<1>7. Complete(sdus, size) = n
  BY <1>4, <1>5, <1>6
<1> QED BY <1>7 DEF n

\* The bytes of two sequences add up.
LEMMA ByteLengthAdds ==
  ASSUME NEW S, \A u \in S : Bytes(u) \in Nat, NEW x \in Seq(S), NEW y \in Seq(S)
  PROVE  /\ ByteLength(x) \in Nat /\ ByteLength(y) \in Nat
         /\ ByteLength(x \o y) = ByteLength(x) + ByteLength(y)
<1> DEFINE z == x \o y
           l == Len(x)
           n == Len(y)
<1>1. /\ l \in Nat /\ n \in Nat /\ z \in Seq(S) /\ Len(z) = l + n
      /\ \A i \in 1 .. l : z[i] = x[i]
      /\ \A i \in 1 .. n : z[l + i] = y[i]
  <2>1. /\ z \in Seq(S) /\ Len(z) = l + n /\ l \in Nat /\ n \in Nat
        /\ \A i \in 1 .. l + n : z[i] = IF i <= l THEN x[i] ELSE y[i - l]
    BY ConcatProperties
  <2> HIDE DEF z, l, n
  <2>2. ASSUME NEW i \in 1 .. n PROVE z[l + i] = y[i]
    <3>1. l + i \in 1 .. l + n /\ ~ (l + i <= l) /\ l + i - l = i
      BY <2>1
    <3> QED BY <2>1, <3>1
  <2>3. ASSUME NEW i \in 1 .. l PROVE z[i] = x[i]
    <3>1. i \in 1 .. l + n /\ i <= l
      BY <2>1
    <3> QED BY <2>1, <3>1
  <2> QED BY <2>1, <2>2, <2>3
<1>2. \A s \in Seq(S) : Len(s) \in Nat /\ \A k \in 1 .. Len(s) : Bytes(s[k]) \in Nat
  OBVIOUS
<1>3. PICK f : /\ ByteLength(x) = f[l] /\ f[0] = 0
               /\ \A k \in 1 .. l : f[k] = f[k - 1] + Bytes(x[k])
  BY <1>2, ByteLengthUnfolds
<1>4. PICK g : /\ ByteLength(y) = g[n] /\ g[0] = 0
               /\ \A k \in 1 .. n : g[k] = g[k - 1] + Bytes(y[k])
  BY <1>2, ByteLengthUnfolds
<1> HIDE DEF z
<1>5. PICK h : /\ ByteLength(z) = h[Len(z)] /\ h[0] = 0
               /\ \A k \in 1 .. Len(z) : h[k] = h[k - 1] + Bytes(z[k])
  BY <1>1, <1>2, ByteLengthUnfolds
<1>6. (\A k \in 1 .. l : Bytes(x[k]) \in Nat) /\ \A k \in 1 .. n : Bytes(y[k]) \in Nat
  BY <1>2
<1> HIDE DEF l, n
<1> DEFINE P == {m \in 0 .. l : f[m] \in Nat /\ h[m] = f[m]}
           Q == {m \in 0 .. n : g[m] \in Nat /\ h[l + m] = f[l] + g[m]}
<1>7. 0 \in P
  BY <1>1, <1>3, <1>5
<1>8. ASSUME NEW m \in 1 .. l, m - 1 \in P PROVE m \in P
  <2>1. m \in 0 .. l /\ m \in 1 .. Len(z) /\ z[m] = x[m]
    BY <1>1
  <2>2. f[m] = f[m - 1] + Bytes(x[m]) /\ h[m] = h[m - 1] + Bytes(x[m]) /\ Bytes(x[m]) \in Nat
    BY <1>3, <1>5, <1>6, <2>1
  <2>3. f[m - 1] \in Nat /\ h[m - 1] = f[m - 1]
    BY <1>8
  <2> QED BY <2>1, <2>2, <2>3
<1>9. l \in P
  <2> HIDE DEF P
  <2>1. 0 .. l \subseteq P
    BY <1>1, <1>7, <1>8, IntervalInduction
  <2> QED BY <1>1, <2>1
<1>10. f[l] \in Nat /\ h[l] = f[l]
  BY <1>9
<1>11. 0 \in Q
  BY <1>1, <1>4, <1>10
<1>12. ASSUME NEW m \in 1 .. n, m - 1 \in Q PROVE m \in Q
  <2>1. m \in 0 .. n /\ l + m \in 1 .. Len(z) /\ z[l + m] = y[m] /\ l + m - 1 = l + (m - 1)
    BY <1>1
  <2>2. /\ g[m] = g[m - 1] + Bytes(y[m]) /\ h[l + m] = h[l + (m - 1)] + Bytes(y[m])
        /\ Bytes(y[m]) \in Nat
    <3>1. g[m] = g[m - 1] + Bytes(y[m]) /\ Bytes(y[m]) \in Nat
      BY <1>4, <1>6
    <3> DEFINE i == l + m
    <3>2. i \in 1 .. Len(z) /\ z[i] = y[m] /\ i - 1 = l + (m - 1)
      BY <1>1, <2>1
    <3> HIDE DEF i
    <3>3. h[i] = h[i - 1] + Bytes(z[i])
      BY <1>5, <3>2
    <3> QED BY <3>1, <3>2, <3>3 DEF i
  <2>3. g[m - 1] \in Nat /\ h[l + (m - 1)] = f[l] + g[m - 1]
    BY <1>12
  <2> QED BY <1>10, <2>1, <2>2, <2>3
<1>13. n \in Q
  <2> HIDE DEF Q
  <2>1. 0 .. n \subseteq Q
    BY <1>1, <1>11, <1>12, IntervalInduction
  <2> QED BY <1>1, <2>1
<1> QED BY <1>1, <1>3, <1>4, <1>5, <1>10, <1>13 DEF z

\* Two sums in one.
LEMMA SumsFit ==
  ASSUME NEW s \in Nat, NEW l \in Nat, NEW v \in Nat, s + l <= v,
         NEW t \in Nat, NEW m \in Nat, NEW w \in Nat, t + m <= w
  PROVE  s + t \in Nat /\ l + m \in Nat /\ v + w \in Nat /\ (s + t) + (l + m) <= v + w
OBVIOUS

\* What an SDU takes in a block, if no message has a length of its own.
Weight(x) == SubheaderBytes(x) + ByteLength(x.bytes)

Weighed(a) == Bytefull(a) /\ \A k \in 1 .. Len(a) : \A i \in 1 .. Len(a[k].bytes) :
                               Bytes(a[k].bytes[i]) \in Nat

\* Up to three SDUs are complete in a block that has room for them.
LEMMA ThreeComplete ==
  ASSUME NEW a, Weighed(a), a # << >>, Len(a) <= 3, NEW size \in Nat,
         NEW w, \A k \in 1 .. Len(a) : w[k] \in Nat /\ Weight(a[k]) <= w[k],
         \/ Len(a) = 1 /\ w[1] + 1 <= size
         \/ Len(a) = 2 /\ w[1] + w[2] + 1 <= size
         \/ Len(a) = 3 /\ w[1] + w[2] + w[3] + 1 <= size
  PROVE  Complete(a, size) = Len(a)
<1> DEFINE n == Len(a)
           S == {u \in UnitsOf(a) : Bytes(u) \in Nat}
<1>1. Sequence(a) /\ n \in 1 .. 3
  <2>1. Sequence(a) /\ n \in Nat /\ n <= 3
    BY DEF Weighed, Bytefull, Sequence
  <2>2. n # 0
    <3>1. Sequence(a) => (Len(a) = 0 => a = << >>)
      <4> SUFFICES ASSUME Sequence(a), Len(a) = 0 PROVE a = << >>
        OBVIOUS
      <4>1. a \in Seq({a[i] : i \in 1 .. Len(a)})
        BY SequenceIsSeq
      <4> QED BY <4>1
    <3> QED BY <2>1, <3>1
  <2> QED BY <2>1, <2>2
<1>2. HoldUnits(a, S)
  <2>1. ASSUME NEW k \in 1 .. n PROVE a[k].bytes \in Seq(S)
    <3> DEFINE b == a[k].bytes
               R == {b[i] : i \in 1 .. Len(b)}
    <3>1. Sequence(b)
      BY DEF Weighed, Bytefull, Speakable
    <3>2. R \subseteq S
      BY DEF UnitsOf, Weighed
    <3> HIDE DEF b, S
    <3>3. b \in Seq(R)
      BY <3>1, SequenceIsSeq
    <3> HIDE DEF R
    <3> QED BY <3>2, <3>3, SeqMonotonic DEF b
  <2> HIDE DEF S
  <2> QED BY <1>1, <2>1 DEF HoldUnits
<1>3. \A u \in S : Bytes(u) \in Nat
  OBVIOUS
<1> HIDE DEF S
<1>4. PICK cat \in [0 .. n -> Seq(S)] : Concatenated(cat, a) /\ Bodies(a) = cat[n]
  BY <1>2, BodiesUnfold
<1> DEFINE l(k) == ByteLength(a[k].bytes)
           s(k) == SubheaderBytes(a[k])
           c(k) == ByteLength(cat[k])
<1>5. ASSUME NEW k \in 1 .. n
      PROVE  l(k) \in Nat /\ c(k - 1) \in Nat /\ c(k) = c(k - 1) + l(k)
  <2>1. cat[k - 1] \in Seq(S) /\ a[k].bytes \in Seq(S)
    <3>1. k - 1 \in 0 .. n
      BY <1>1
    <3> HIDE DEF n
    <3> QED BY <1>2, <1>4, <3>1 DEF HoldUnits, n
  <2>2. cat[k] = cat[k - 1] \o a[k].bytes
    BY <1>4 DEF Concatenated
  <2> QED BY <1>3, <2>1, <2>2, ByteLengthAdds
<1>6. c(0) = 0
  <2>1. cat[0] = << >>
    BY <1>4 DEF Concatenated
  <2>2. ByteLength(<< >>) = 0
    <3>1. Len(<< >>) = 0 /\ \A k \in 1 .. Len(<< >>) : Bytes(<< >>[k]) \in Nat
      OBVIOUS
    <3> DEFINE e == << >>
    <3> HIDE DEF e
    <3>2. PICK sum : ByteLength(e) = sum[Len(e)] /\ sum[0] = 0
      BY <3>1, ByteLengthUnfolds DEF e
    <3> QED BY <3>1, <3>2 DEF e
  <2> QED BY <2>1, <2>2
<1>7. \A k \in 1 .. n : s(k) \in Nat
  BY DEF SubheaderBytes
<1>8. PICK sum : /\ HeadBytes(a) = sum[n] + 1 /\ sum[0] = 0
                 /\ \A k \in 1 .. n : sum[k] = sum[k - 1] + s(k)
  BY <1>1, HeadBytesUnfolds
<1>9. \A k \in 1 .. n : w[k] \in Nat /\ s(k) + l(k) <= w[k]
  BY DEF Weight
<1> DEFINE len == HeadBytes(a) + ByteLength(Bodies(a))
<1>10. HeadBytes(a) = sum[n] + 1 /\ ByteLength(Bodies(a)) = c(n)
  BY <1>4, <1>8
<1> HIDE DEF s, l, c
<1>11. CASE n = 1
  <2>1. /\ sum[1] = sum[1 - 1] + s(1) /\ c(1) = c(1 - 1) + l(1) /\ l(1) \in Nat /\ s(1) \in Nat
        /\ w[1] \in Nat /\ s(1) + l(1) <= w[1] /\ w[1] + 1 <= size
    BY <1>5, <1>7, <1>8, <1>9, <1>11
  <2>2. sum[1] = s(1) /\ c(1) = l(1)
    BY <1>6, <1>8, <2>1
  <2>3. /\ HeadBytes(a) = s(1) + 1 /\ ByteLength(Bodies(a)) = l(1)
    BY <1>10, <1>11, <2>2
  <2>4. s(1) + 1 \in Nat /\ l(1) \in Nat /\ (s(1) + 1) + l(1) <= size
    <3> DEFINE x == s(1)
               y == l(1)
               v == w[1]
    <3>1. x \in Nat /\ y \in Nat /\ v \in Nat /\ x + y <= v /\ v + 1 <= size
      BY <2>1
    <3> HIDE DEF x, y, v
    <3>2. x + 1 \in Nat /\ (x + 1) + y <= size
      BY ONLY <3>1, size \in Nat
    <3> QED BY <3>1, <3>2 DEF x, y
  <2> QED BY <1>1, <2>3, <2>4, AllComplete
<1>12. CASE n = 2
  <2>1. /\ sum[1] = sum[1 - 1] + s(1) /\ c(1) = c(1 - 1) + l(1) /\ l(1) \in Nat /\ s(1) \in Nat
        /\ sum[2] = sum[2 - 1] + s(2) /\ c(2) = c(2 - 1) + l(2) /\ l(2) \in Nat /\ s(2) \in Nat
        /\ w[1] \in Nat /\ s(1) + l(1) <= w[1] /\ w[2] \in Nat /\ s(2) + l(2) <= w[2]
        /\ w[1] + w[2] + 1 <= size
    BY <1>5, <1>7, <1>8, <1>9, <1>12
  <2>2. sum[2] = s(1) + s(2) /\ c(2) = l(1) + l(2)
    BY <1>6, <1>8, <2>1
  <2>3. HeadBytes(a) = s(1) + s(2) + 1 /\ ByteLength(Bodies(a)) = l(1) + l(2)
    BY <1>10, <1>12, <2>2
  <2>4. /\ s(1) + s(2) + 1 \in Nat /\ l(1) + l(2) \in Nat
        /\ (s(1) + s(2) + 1) + (l(1) + l(2)) <= size
    <3> DEFINE p == s(1) + s(2)
               q == l(1) + l(2)
               v == w[1] + w[2]
    <3>1. p \in Nat /\ q \in Nat /\ v \in Nat /\ p + q <= v
      BY <2>1, SumsFit
    <3>2. v + 1 <= size
      BY <2>1
    <3> HIDE DEF p, q, v
    <3>3. p + 1 \in Nat /\ (p + 1) + q <= size
      BY <3>1, <3>2
    <3> QED BY <3>1, <3>3 DEF p, q
  <2> QED BY <1>1, <2>3, <2>4, AllComplete
<1>13. CASE n = 3
  <2>1. /\ sum[1] = sum[1 - 1] + s(1) /\ c(1) = c(1 - 1) + l(1) /\ l(1) \in Nat /\ s(1) \in Nat
        /\ sum[2] = sum[2 - 1] + s(2) /\ c(2) = c(2 - 1) + l(2) /\ l(2) \in Nat /\ s(2) \in Nat
        /\ sum[3] = sum[3 - 1] + s(3) /\ c(3) = c(3 - 1) + l(3) /\ l(3) \in Nat /\ s(3) \in Nat
        /\ w[1] \in Nat /\ s(1) + l(1) <= w[1] /\ w[2] \in Nat /\ s(2) + l(2) <= w[2]
        /\ w[3] \in Nat /\ s(3) + l(3) <= w[3]
        /\ w[1] + w[2] + w[3] + 1 <= size
    BY <1>5, <1>7, <1>8, <1>9, <1>13
  <2>2. sum[3] = s(1) + s(2) + s(3) /\ c(3) = l(1) + l(2) + l(3)
    <3>1. 1 - 1 = 0 /\ 2 - 1 = 1 /\ 3 - 1 = 2
      OBVIOUS
    <3>2. sum[1] = s(1) /\ c(1) = l(1)
      <4>1. sum[1] = sum[0] + s(1) /\ c(1) = c(0) + l(1)
        BY ONLY <2>1, <3>1, Zenon
      <4>2. sum[0] = 0 /\ c(0) = 0 /\ s(1) \in Nat /\ l(1) \in Nat
        BY ONLY <1>6, <1>8, <2>1, Zenon
      <4> QED BY ONLY <4>1, <4>2
    <3>3. sum[2] = sum[1] + s(2) /\ c(2) = c(1) + l(2)
      BY ONLY <2>1, <3>1, Zenon
    <3>4. sum[3] = sum[2] + s(3) /\ c(3) = c(2) + l(3)
      BY ONLY <2>1, <3>1, Zenon
    <3> QED BY ONLY <3>2, <3>3, <3>4, Zenon
  <2>3. HeadBytes(a) = s(1) + s(2) + s(3) + 1 /\ ByteLength(Bodies(a)) = l(1) + l(2) + l(3)
    BY <1>10, <1>13, <2>2
  <2>4. /\ s(1) + s(2) + s(3) + 1 \in Nat /\ l(1) + l(2) + l(3) \in Nat
        /\ (s(1) + s(2) + s(3) + 1) + (l(1) + l(2) + l(3)) <= size
    <3> DEFINE x == s(1) + s(2)
               y == l(1) + l(2)
               z == w[1] + w[2]
               p == x + s(3)
               q == y + l(3)
               v == z + w[3]
    <3>1. x \in Nat /\ y \in Nat /\ z \in Nat /\ x + y <= z
      BY <2>1, SumsFit
    <3>2. p \in Nat /\ q \in Nat /\ v \in Nat /\ p + q <= v
      <4> HIDE DEF x, y, z
      <4> QED BY <2>1, <3>1, SumsFit
    <3>3. v + 1 <= size
      BY <2>1
    <3> HIDE DEF p, q, v
    <3>4. p + 1 \in Nat /\ (p + 1) + q <= size
      BY <3>2, <3>3
    <3> QED BY <3>2, <3>4 DEF p, q
  <2> QED BY <1>1, <2>3, <2>4, AllComplete
<1> QED BY <1>1, <1>11, <1>12, <1>13

----------------------------------------------------------------------------
(* What a fragment on channel 1 is answered. *)

\* Short sequences, one behind the other.
LEMMA TwoAndOne ==
  ASSUME NEW a, NEW b, NEW c
  PROVE  << a, b >> \o << c >> = << a, b, c >>
<1> DEFINE S == {a, b, c}
           u == << a, b >>
           v == << c >>
           w == << a, b, c >>
           z == u \o v
<1>1. /\ u \in Seq(S) /\ Len(u) = 2 /\ u[1] = a /\ u[2] = b
      /\ v \in Seq(S) /\ Len(v) = 1 /\ v[1] = c
      /\ w \in Seq(S) /\ Len(w) = 3 /\ w[1] = a /\ w[2] = b /\ w[3] = c
  OBVIOUS
<1> HIDE DEF S, u, v, w
<1>2. /\ z \in Seq(S) /\ Len(z) = Len(u) + Len(v)
      /\ \A i \in 1 .. Len(u) + Len(v) : z[i] = IF i <= Len(u) THEN u[i] ELSE v[i - Len(u)]
  BY <1>1, ConcatProperties
<1> HIDE DEF z
<1>3. z \in Seq(S) /\ Len(z) = 3 /\ z[1] = u[1] /\ z[2] = u[2] /\ z[3] = v[1]
  <2>1. \A i \in 1 .. 3 : z[i] = IF i <= 2 THEN u[i] ELSE v[i - 2]
    BY <1>1, <1>2
  <2>2. z[1] = u[1] /\ z[2] = u[2] /\ z[3] = v[3 - 2]
    BY <2>1
  <2> QED BY <1>1, <1>2, <2>2
<1>4. \A i \in 1 .. 3 : i = 1 \/ i = 2 \/ i = 3
  OBVIOUS
<1>5. z = w
  <2>1. \A i \in 1 .. 3 : z[i] = w[i]
    BY <1>1, <1>3, <1>4
  <2> QED BY <1>1, <1>3, <2>1, SeqEqual
<1> QED BY <1>5 DEF u, v, w, z

LEMMA OneAndThree ==
  ASSUME NEW a, NEW b, NEW c, NEW d
  PROVE  << a >> \o << b, c, d >> = << a, b, c, d >>
<1> DEFINE S == {a, b, c, d}
           u == << a >>
           v == << b, c, d >>
           w == << a, b, c, d >>
           z == u \o v
<1>1. /\ u \in Seq(S) /\ Len(u) = 1 /\ u[1] = a
      /\ v \in Seq(S) /\ Len(v) = 3 /\ v[1] = b /\ v[2] = c /\ v[3] = d
      /\ w \in Seq(S) /\ Len(w) = 4 /\ w[1] = a /\ w[2] = b /\ w[3] = c /\ w[4] = d
  OBVIOUS
<1> HIDE DEF S, u, v, w
<1>2. /\ z \in Seq(S) /\ Len(z) = Len(u) + Len(v)
      /\ \A i \in 1 .. Len(u) + Len(v) : z[i] = IF i <= Len(u) THEN u[i] ELSE v[i - Len(u)]
  BY <1>1, ConcatProperties
<1> HIDE DEF z
<1>3. z \in Seq(S) /\ Len(z) = 4 /\ z[1] = u[1] /\ z[2] = v[1] /\ z[3] = v[2] /\ z[4] = v[3]
  <2>1. \A i \in 1 .. 4 : z[i] = IF i <= 1 THEN u[i] ELSE v[i - 1]
    BY <1>1, <1>2
  <2>2. z[1] = u[1] /\ z[2] = v[2 - 1] /\ z[3] = v[3 - 1] /\ z[4] = v[4 - 1]
    BY <2>1
  <2> QED BY <1>1, <1>2, <2>2
<1>4. \A i \in 1 .. 4 : i = 1 \/ i = 2 \/ i = 3 \/ i = 4
  OBVIOUS
<1>5. z = w
  <2>1. \A i \in 1 .. 4 : z[i] = w[i]
    BY <1>1, <1>3, <1>4
  <2> QED BY <1>1, <1>3, <2>1, SeqEqual
<1> QED BY <1>5 DEF u, v, w, z

\* One and two SDUs, queued one by one.
LEMMA AppendedOne ==
  ASSUME NEW x
  PROVE  Append(<< >>, x) = << x >>
<1>1. << >> \in Seq({x}) /\ Len(<< >>) = 0
  OBVIOUS
<1> DEFINE e == << >>
           r == Append(e, x)
           w == << x >>
<1>2. w \in Seq({x}) /\ Len(w) = 1 /\ w[1] = x
  OBVIOUS
<1> HIDE DEF e, w
<1>3. r \in Seq({x}) /\ Len(r) = 1 /\ r[1] = x
  BY <1>1, AppendProperties DEF e
<1> HIDE DEF r
<1>4. \A i \in 1 .. 1 : r[i] = w[i]
  BY <1>2, <1>3
<1>5. r = w
  BY <1>2, <1>3, <1>4, SeqEqual
<1> QED BY <1>5 DEF e, r, w

LEMMA AppendedTwo ==
  ASSUME NEW x, NEW y
  PROVE  Append(<< x >>, y) = << x, y >>
<1> DEFINE S == {x, y}
           e == << x >>
           r == Append(e, y)
           w == << x, y >>
<1>1. e \in Seq(S) /\ Len(e) = 1 /\ e[1] = x
  OBVIOUS
<1>2. w \in Seq(S) /\ Len(w) = 2 /\ w[1] = x /\ w[2] = y
  OBVIOUS
<1>2a. y \in S
  OBVIOUS
<1> HIDE DEF e, w, S
<1>3. r \in Seq(S) /\ Len(r) = 2 /\ r[1] = x /\ r[2] = y
  <2>1. Sequence(e)
    BY <1>1, SeqIsSequence
  <2>2. Len(r) = Len(e) + 1 /\ r[Len(e) + 1] = y /\ \A i \in 1 .. Len(e) : r[i] = e[i]
    BY <2>1, AppendSequence
  <2>3. r \in Seq(S)
    BY <1>1, <1>2a
  <2> HIDE DEF r
  <2> QED BY <1>1, <2>2, <2>3
<1> HIDE DEF r
<1>4. \A i \in 1 .. 2 : i = 1 \/ i = 2
  OBVIOUS
<1>5. \A i \in 1 .. 2 : r[i] = w[i]
  BY <1>2, <1>3, <1>4
<1>6. r = w
  BY <1>2, <1>3, <1>5, SeqEqual
<1> QED BY <1>6 DEF e, r, w

LEMMA AppendedThree ==
  ASSUME NEW x, NEW y, NEW z
  PROVE  Append(<< x, y >>, z) = << x, y, z >>
<1> DEFINE S == {x, y, z}
           e == << x, y >>
           r == Append(e, z)
           w == << x, y, z >>
<1>1. e \in Seq(S) /\ Len(e) = 2 /\ e[1] = x /\ e[2] = y
  OBVIOUS
<1>2. w \in Seq(S) /\ Len(w) = 3 /\ w[1] = x /\ w[2] = y /\ w[3] = z
  OBVIOUS
<1>3. z \in S
  OBVIOUS
<1> HIDE DEF e, w, S
<1>4. r \in Seq(S) /\ Len(r) = 3 /\ r[1] = x /\ r[2] = y /\ r[3] = z
  <2>1. Sequence(e)
    BY <1>1, SeqIsSequence
  <2>2. Len(r) = Len(e) + 1 /\ r[Len(e) + 1] = z /\ \A i \in 1 .. Len(e) : r[i] = e[i]
    BY <2>1, AppendSequence
  <2>3. r \in Seq(S)
    BY <1>1, <1>3
  <2> HIDE DEF r
  <2> QED BY <1>1, <2>2, <2>3
<1> HIDE DEF r
<1>5. \A i \in 1 .. 3 : i = 1 \/ i = 2 \/ i = 3
  OBVIOUS
<1>6. \A i \in 1 .. 3 : r[i] = w[i]
  BY <1>2, <1>4, <1>5
<1>7. r = w
  BY <1>2, <1>4, <1>6, SeqEqual
<1> QED BY <1>7 DEF e, r, w

MessageHeader(n) ==
  [kind |-> "rlc", dc |-> "data", p |-> TRUE, e |-> 0, first |-> TRUE, last |-> TRUE, sn |-> n]

Command(type, id, n) ==
  [lcid |-> 1, bytes |-> << MessageHeader(n), PdcpData, MsgUnit(type, id), MacI >>]

ReportSdu(n) == [lcid |-> 1, bytes |-> StatusReport(n)]

\* The answers of rrc() to a message of the connection id.
Replies(a, id) ==
  \/ a = << >>
  \/ \E type \in DOMAIN AnswerBytes : \E n : a = << Command(type, id, n) >>
  \/ \E n, m : a = << Command("detachAccept", id, n), Command("release", id, m) >>

LEMMA CommandEncoded ==
  ASSUME NEW n, NEW u
  PROVE  rlc_encode(1, n, pdcp_encode(1, << u >>)) = << MessageHeader(n), PdcpData, u, MacI >>
<1>1. 1 \in AM /\ 1 # 0 /\ ~ (1 >= 28)
  BY DEF AM
<1> DEFINE d == PdcpData
           h == MessageHeader(n)
           i == MacI
           t == << d, u, i >>
<1>2. pdcp_encode(1, << u >>) = (<< d >> \o << u >>) \o << i >>
  BY <1>1 DEF pdcp_encode
<1> HIDE DEF d, i
<1>3. (<< d >> \o << u >>) \o << i >> = t
  <2>1. << d >> \o << u >> = << d, u >>
    BY OneAndOne
  <2>2. << d, u >> \o << i >> = << d, u, i >>
    BY TwoAndOne
  <2> QED BY <2>1, <2>2
<1>4. rlc_encode(1, n, t) = << h >> \o t
  <2> DEFINE p == 1 \in AM
  <2>1. p = TRUE
    BY <1>1
  <2> HIDE DEF p
  <2>2. h = [kind |-> "rlc", dc |-> "data", p |-> p, e |-> 0, first |-> TRUE, last |-> TRUE,
             sn |-> n]
    BY <2>1 DEF MessageHeader
  <2> HIDE DEF h, t
  <2>3. rlc_encode(1, n, t) = << [kind |-> "rlc", dc |-> "data", p |-> p, e |-> 0, first |-> TRUE,
                                  last |-> TRUE, sn |-> n] >> \o t
    BY <1>1 DEF rlc_encode, p
  <2> QED BY <2>2, <2>3
<1> HIDE DEF h
<1>5. << h >> \o t = << h, d, u, i >>
  BY OneAndThree
<1> HIDE DEF t
<1> QED BY <1>2, <1>3, <1>4, <1>5 DEF h, d, i

\* An answer, encoded as a command.
Commanded(s, e, type, id) ==
  /\ Fields(e) /\ e.rx = s.rx
  /\ \E n : e.answers = Append(s.answers, Command(type, id, n))

LEMMA AnswerEncoded ==
  ASSUME NEW s, Fields(s), NEW type, NEW id
  PROVE  Commanded(s, Encode(s, answer(1, type, id)), type, id)
<1> DEFINE x == answer(1, type, id)
           e == Encode(s, x)
           n == IF 1 \in Channel THEN s.sn[1] ELSE 0
           u == MsgUnit(type, id)
<1>1. x.lcid = 1 /\ x.bytes = << u >>
  BY DEF answer, MsgUnit
<1> HIDE DEF x
<1>2. /\ Fields(e) /\ e.rx = s.rx
      /\ e.answers = Append(s.answers, [lcid |-> x.lcid, bytes |-> rlc_encode(x.lcid,
             IF x.lcid \in Channel THEN s.sn[x.lcid] ELSE 0, pdcp_encode(x.lcid, x.bytes))])
  BY EncodeIs
<1> HIDE DEF e, u
<1>3. e.answers = Append(s.answers, [lcid |-> 1, bytes |-> rlc_encode(1, n, pdcp_encode(1, << u >>))])
  BY <1>1, <1>2
<1> HIDE DEF n
<1>4. e.answers = Append(s.answers, Command(type, id, n))
  <2>1. rlc_encode(1, n, pdcp_encode(1, << u >>)) = << MessageHeader(n), PdcpData, u, MacI >>
    BY CommandEncoded
  <2> QED BY <1>3, <2>1 DEF Command, u
<1>5. Commanded(s, e, type, id)
  BY <1>2, <1>4 DEF Commanded
<1> QED BY <1>5 DEF e, x

LEMMA OneEncoded ==
  ASSUME NEW s, Fields(s), NEW x
  PROVE  EncodeAll(s, << x >>) = Encode(s, x)
<1> DEFINE plain == << x >>
<1>1. Len(plain) = 1 /\ plain[1] = x /\ Len(plain) \in Nat
  OBVIOUS
<1> HIDE DEF plain
<1>2. PICK after : /\ EncodeAll(s, plain) = after[Len(plain)] /\ after[0] = s
                   /\ \A k \in 1 .. Len(plain) : after[k] = Encode(after[k - 1], plain[k])
  <2>1. PICK after : EncodingSteps(after, s, plain)
    BY <1>1, EncodeAllSteps
  <2> QED BY ONLY <2>1 DEF EncodingSteps
<1>3. after[1] = Encode(after[1 - 1], plain[1]) /\ 1 - 1 = 0
  BY <1>1, <1>2
<1> QED BY <1>1, <1>2, <1>3 DEF plain

LEMMA TwoEncoded ==
  ASSUME NEW s, Fields(s), NEW x, NEW y
  PROVE  EncodeAll(s, << x, y >>) = Encode(Encode(s, x), y)
<1> DEFINE plain == << x, y >>
<1>1. Len(plain) = 2 /\ plain[1] = x /\ plain[2] = y /\ Len(plain) \in Nat
  OBVIOUS
<1> HIDE DEF plain
<1>2. PICK after : /\ EncodeAll(s, plain) = after[Len(plain)] /\ after[0] = s
                   /\ \A k \in 1 .. Len(plain) : after[k] = Encode(after[k - 1], plain[k])
  <2>1. Len(plain) \in Nat
    BY <1>1
  <2>2. PICK after : EncodingSteps(after, s, plain)
    BY ONLY <2>1, EncodeAllSteps
  <2> QED BY ONLY <2>2 DEF EncodingSteps
<1>3. 1 \in 1 .. Len(plain) /\ 2 \in 1 .. Len(plain) /\ 1 - 1 = 0 /\ 2 - 1 = 1
  BY <1>1
<1>4. after[1] = Encode(after[1 - 1], plain[1]) /\ after[2] = Encode(after[2 - 1], plain[2])
  BY <1>2, <1>3
<1> QED BY <1>1, <1>2, <1>3, <1>4 DEF plain

\* What rrc() has to say to a message on channel 1.
LEMMA SignallingSaid ==
  ASSUME NEW msg
  PROVE  LET plain == rrcAnswers(1, msg)
             id == Head(msg).id
         IN  \/ plain = << >>
             \/ /\ msg # << >> /\ Head(msg).kind = "msg"
                /\ \/ \E type \in DOMAIN AnswerBytes : plain = << answer(1, type, id) >>
                   \/ plain = << answer(1, "detachAccept", id), answer(1, "release", id) >>
<1> DEFINE plain == rrcAnswers(1, msg)
           id == Head(msg).id
           type == typeOf(msg)
<1>1. CASE msg = << >>
  BY <1>1 DEF rrcAnswers
<1>2. CASE msg # << >>
  <2>1. plain = rrcSignalling(1, msg)
    BY <1>2 DEF rrcAnswers
  <2>2. type # "unknown" => Head(msg).kind = "msg"
    BY DEF typeOf
  <2> HIDE DEF plain
  <2>3. CASE type \in DOMAIN NextCommand
    <3>1. type # "unknown" /\ type # "detachRequest" /\ NextCommand[type] \in DOMAIN AnswerBytes
      BY <2>3 DEF NextCommand, AnswerBytes
    <3>2. plain = << answer(1, NextCommand[type], id) >>
      BY <2>1, <2>3, <3>1 DEF rrcSignalling
    <3> QED BY <1>2, <2>2, <3>1, <3>2 DEF plain
  <2>4. CASE type \notin DOMAIN NextCommand /\ type = "detachRequest"
    <3>1. plain = << answer(1, "detachAccept", id), answer(1, "release", id) >>
      BY <2>1, <2>4 DEF rrcSignalling
    <3> QED BY <1>2, <2>2, <2>4, <3>1 DEF plain
  <2>5. CASE type \notin DOMAIN NextCommand /\ type # "detachRequest"
    <3>1. plain = << >>
      BY <2>1, <2>5 DEF rrcSignalling
    <3> QED BY <3>1 DEF plain
  <2> QED BY <2>3, <2>4, <2>5
<1> QED BY <1>1, <1>2

LEMMA RepliesEncoded ==
  ASSUME NEW s, Fields(s), s.answers = << >>, NEW msg
  PROVE  LET e == EncodeAll(s, rrcAnswers(1, msg)) IN
         /\ Fields(e) /\ e.rx = s.rx /\ Replies(e.answers, Head(msg).id)
         /\ e.answers # << >> => msg # << >> /\ Head(msg).kind = "msg"
<1> DEFINE plain == rrcAnswers(1, msg)
           id == Head(msg).id
           e == EncodeAll(s, plain)
<1>1. \/ plain = << >>
      \/ /\ msg # << >> /\ Head(msg).kind = "msg"
         /\ \/ \E type \in DOMAIN AnswerBytes : plain = << answer(1, type, id) >>
            \/ plain = << answer(1, "detachAccept", id), answer(1, "release", id) >>
  BY SignallingSaid
<1> HIDE DEF plain, id
<1>2. CASE plain = << >>
  <2>1. e = s
    <3>1. Len(plain) \in Nat /\ Len(plain) = 0
      BY <1>2
    <3>2. PICK after : EncodingSteps(after, s, plain)
      BY <3>1, EncodeAllSteps
    <3> QED BY <3>1, <3>2 DEF EncodingSteps
  <2> HIDE DEF e
  <2> QED BY <2>1 DEF Replies, e, plain, id
<1>3. ASSUME NEW x, NEW y PROVE Append(<< >>, x) = << x >> /\ Append(<< x >>, y) = << x, y >>
  BY AppendedOne, AppendedTwo
<1>4. ASSUME NEW type \in DOMAIN AnswerBytes, plain = << answer(1, type, id) >>
      PROVE  Fields(e) /\ e.rx = s.rx /\ Replies(e.answers, id)
  <2>1. e = Encode(s, answer(1, type, id))
    <3>1. EncodeAll(s, << answer(1, type, id) >>) = Encode(s, answer(1, type, id))
      BY ONLY Fields(s), OneEncoded
    <3> QED BY ONLY <1>4, <3>1, Zenon DEF e
  <2>2. /\ Fields(e) /\ e.rx = s.rx
        /\ \E n : e.answers = Append(s.answers, Command(type, id, n))
    <3>1. Commanded(s, Encode(s, answer(1, type, id)), type, id)
      BY ONLY Fields(s), AnswerEncoded
    <3> HIDE DEF e
    <3> QED BY ONLY <2>1, <3>1 DEF Commanded
  <2> HIDE DEF e
  <2>3. \E n : e.answers = << Command(type, id, n) >>
    BY <1>3, <2>2
  <2> QED BY <2>2, <2>3 DEF Replies
<1>5. ASSUME plain = << answer(1, "detachAccept", id), answer(1, "release", id) >>
      PROVE  Fields(e) /\ e.rx = s.rx /\ Replies(e.answers, id)
  <2> DEFINE x == answer(1, "detachAccept", id)
             y == answer(1, "release", id)
             t == Encode(s, x)
  <2>1. e = Encode(t, y)
    BY <1>5, TwoEncoded
  <2>2. /\ Fields(t) /\ t.rx = s.rx
        /\ \E n : t.answers = Append(s.answers, Command("detachAccept", id, n))
    <3>1. Commanded(s, t, "detachAccept", id)
      BY ONLY Fields(s), AnswerEncoded
    <3> HIDE DEF t
    <3> QED BY ONLY <3>1 DEF Commanded
  <2> HIDE DEF t
  <2>3. /\ Fields(e) /\ e.rx = t.rx
        /\ \E m : e.answers = Append(t.answers, Command("release", id, m))
    <3>1. Fields(t)
      BY <2>2
    <3>2. Commanded(t, Encode(t, y), "release", id)
      <4> HIDE DEF t
      <4> QED BY ONLY <3>1, AnswerEncoded
    <3> HIDE DEF e, y
    <3> QED BY ONLY <2>1, <3>2 DEF Commanded
  <2> HIDE DEF e
  <2>4. PICK n : t.answers = Append(s.answers, Command("detachAccept", id, n))
    BY <2>2
  <2>5. PICK m : e.answers = Append(t.answers, Command("release", id, m))
    BY <2>3
  <2>6. e.answers = << Command("detachAccept", id, n), Command("release", id, m) >>
    BY <1>3, <2>4, <2>5
  <2> QED BY <2>2, <2>3, <2>6 DEF Replies
<1> QED BY <1>1, <1>2, <1>4, <1>5 DEF plain, id

\* Answers take nothing from the buffers and from the flags of the block.
LEMMA EncodeAllRest ==
  ASSUME NEW s, Fields(s), NEW plain, Len(plain) \in Nat
  PROVE  LET e == EncodeAll(s, plain) IN Fields(e) /\ e.buffer = s.buffer /\ e.rx = s.rx
<1>1. PICK after : /\ EncodeAll(s, plain) = after[Len(plain)] /\ after[0] = s
                   /\ \A k \in 1 .. Len(plain) : after[k] = Encode(after[k - 1], plain[k])
  <2>1. Len(plain) \in Nat
    OBVIOUS
  <2>2. PICK after : EncodingSteps(after, s, plain)
    BY ONLY <2>1, EncodeAllSteps
  <2> QED BY ONLY <2>2 DEF EncodingSteps
<1> DEFINE n == Len(plain)
           Q(x) == Fields(x) /\ x.buffer = s.buffer /\ x.rx = s.rx
<1>2. ASSUME NEW x, Q(x), NEW p PROVE Q(Encode(x, p))
  <2> DEFINE c == p.lcid
             m == IF c \in Channel THEN x.sn[c] ELSE 0
             sn == IF c \in Channel THEN [x.sn EXCEPT ![c] = nextSn(c, m)] ELSE x.sn
             a == Append(x.answers, [lcid |-> c, bytes |-> rlc_encode(c, m, pdcp_encode(c, p.bytes))])
             e == [buffer |-> x.buffer, sn |-> sn, stats |-> x.stats, heard |-> x.heard,
                   delivered |-> x.delivered, answers |-> a, rx |-> x.rx]
  <2>1. Encode(x, p) = [x EXCEPT !.sn = sn, !.answers = a]
    BY <1>2 DEF Encode, Fields
  <2> HIDE DEF sn, a
  <2>2. Encode(x, p) = e
    BY <1>2, <2>1 DEF Fields
  <2>3. Fields(e) /\ e.buffer = x.buffer /\ e.rx = x.rx
    BY DEF Fields
  <2> HIDE DEF e
  <2> QED BY <1>2, <2>2, <2>3
<1> DEFINE P == {m \in 0 .. n : Q(after[m])}
<1>3. /\ n \in Nat
      /\ \A k \in 1 .. n : after[k] = Encode(after[k - 1], plain[k])
  BY <1>1
<1> HIDE DEF n
<1>4. 0 \in P
  BY <1>1, <1>3
<1>5. ASSUME NEW k \in 1 .. n, k - 1 \in P PROVE k \in P
  <2>1. Q(after[k - 1]) /\ k \in 0 .. n
    BY <1>3, <1>5
  <2>2. after[k] = Encode(after[k - 1], plain[k])
    BY <1>3
  <2> HIDE DEF Q
  <2> QED BY <1>2, <2>1, <2>2
<1>6. n \in P
  <2> HIDE DEF P
  <2>1. 0 .. n \subseteq P
    BY <1>3, <1>4, <1>5, IntervalInduction
  <2> QED BY <1>3, <2>1
<1> QED BY <1>1, <1>6 DEF n

LEMMA JudgeRest ==
  ASSUME NEW t, Fields(t), NEW c, NEW b, NEW o
  PROVE  Judge(t, c, b, o).buffer = t.buffer
<1>1. CASE c = 0 \/ Head(b).dc # "data"
  <2>1. Judge(t, c, b, o) = t
    BY <1>1 DEF Judge
  <2> QED BY <2>1
<1>2. CASE ~ (c = 0 \/ Head(b).dc # "data")
  <2> DEFINE h == Head(b)
             ideal == (IF h.first THEN << >> ELSE t.heard[c]) \o Tail(b)
             left == IF h.last THEN << >> ELSE ideal
             D == IF ~ h.last THEN t.delivered ELSE t.delivered \union
                    {[channel |-> c, size |-> Len(h.whole), data |-> h.whole[1] = PdcpData,
                      heard |-> ideal = h.whole, intact |-> o = h.whole,
                      network |-> toNetwork(c, pdcp_decode(c, o))]}
             H == [t.heard EXCEPT ![c] = left]
  <2>1. Judge(t, c, b, o) = [t EXCEPT !.heard[c] = left, !.delivered = D]
    BY <1>2 DEF Judge
  <2> HIDE DEF left, D
  <2>2. Judge(t, c, b, o) = [t EXCEPT !.heard = H, !.delivered = D]
    BY <2>1 DEF Fields
  <2> HIDE DEF H
  <2> QED BY <2>2 DEF Fields
<1> QED BY <1>1, <1>2

\* The buffers and the flags once an SDU is taken.
LEMMA FreshRest ==
  ASSUME NEW s, StateOK(s), NEW sdu
  PROVE  LET f == Fresh(s, sdu)
             d == Decoded(s, sdu).rx
         IN  /\ Fields(f) /\ f.answers = s.answers
             /\ f.rx = [sn |-> d.sn, poll |-> d.poll]
             /\ f.buffer = IF rrcResets(sdu.lcid, Told(s, sdu)) THEN Empty
                           ELSE [s.buffer EXCEPT ![sdu.lcid] = d.buf]
<1> DEFINE f == Fresh(s, sdu)
           j == Judged(s, sdu)
           t == Taken(s, sdu)
           r == [sn |-> Decoded(s, sdu).rx.sn, poll |-> Decoded(s, sdu).rx.poll]
           b == [s.buffer EXCEPT ![sdu.lcid] = Decoded(s, sdu).rx.buf]
           st == StatsAfter(s, sdu)
<1>1. Fields(t) /\ t.buffer = b /\ t.answers = s.answers
  BY TakenIs
<1>2. t.rx = r
  <2>1. Fields(s)
    BY DEF StateOK
  <2>2. Taken(s, sdu) = [s EXCEPT !.buffer = b, !.rx = r, !.stats = st]
    BY <2>1 DEF Taken, Fields, StatsAfter
  <2> HIDE DEF b, r, st
  <2>3. [s EXCEPT !.buffer = b, !.rx = r, !.stats = st].rx = r
    BY <2>1 DEF Fields
  <2> HIDE DEF t
  <2> QED BY <2>2, <2>3 DEF t
<1> HIDE DEF t, b, r
<1>3. Fields(j) /\ j.answers = s.answers /\ j.rx = r /\ j.buffer = b
  <2> DEFINE o == Decoded(s, sdu).out
  <2>1. j = Judge(t, sdu.lcid, sdu.bytes, o)
    BY DEF Judged, t
  <2> HIDE DEF o, j
  <2>2. Fields(j) /\ j.answers = t.answers /\ j.rx = t.rx
    BY <1>1, <2>1, JudgeIs
  <2>3. j.buffer = t.buffer
    BY <1>1, <2>1, JudgeRest
  <2> QED BY <1>1, <1>2, <2>2, <2>3
<1> HIDE DEF j
<1>4. CASE ~ rrcResets(sdu.lcid, Told(s, sdu))
  <2>1. f = j
    BY <1>4 DEF Fresh, j
  <2> HIDE DEF f
  <2> QED BY <1>3, <1>4, <2>1 DEF f, b, r
<1>5. CASE rrcResets(sdu.lcid, Told(s, sdu))
  <2> DEFINE g == [buffer |-> Empty, sn |-> Reset, stats |-> j.stats, heard |-> Empty,
                   delivered |-> j.delivered, answers |-> j.answers, rx |-> j.rx]
  <2>1. f = [reset_state(j) EXCEPT !.heard = Empty]
    BY <1>5 DEF Fresh, j
  <2>2. f = g
    BY <1>3, <2>1 DEF Fields, reset_state
  <2>3. g.answers = j.answers /\ g.rx = j.rx /\ Fields(g) /\ g.buffer = Empty
    BY DEF Fields
  <2> HIDE DEF g, f
  <2> QED BY <1>3, <1>5, <2>2, <2>3 DEF f, r
<1> QED BY <1>4, <1>5

\* The buffers after an SDU.
LEMMA HandleBuffer ==
  ASSUME NEW s, StateOK(s), NEW sdu
  PROVE  Handle(s, sdu).buffer =
           IF rrcResets(sdu.lcid, Told(s, sdu)) THEN Empty
           ELSE [s.buffer EXCEPT ![sdu.lcid] = Decoded(s, sdu).rx.buf]
<1> DEFINE f == Fresh(s, sdu)
           plain == PlainAnswers(s, sdu)
           e == EncodeAll(f, plain)
           R == IF rrcResets(sdu.lcid, Told(s, sdu)) THEN Empty
                ELSE [s.buffer EXCEPT ![sdu.lcid] = Decoded(s, sdu).rx.buf]
<1>1. Handle(s, sdu) = Report(e, sdu.lcid, plain # << >>)
  BY HandleIs
<1>2. Fields(f) /\ f.buffer = R
  BY FreshRest
<1>3. Len(plain) \in Nat
  BY AnswersAreSequences DEF Sequence, PlainAnswers
<1> HIDE DEF f, R, plain
<1>4. Fields(e) /\ e.buffer = f.buffer
  BY <1>2, <1>3, EncodeAllRest
<1> HIDE DEF e
<1>5. Report(e, sdu.lcid, plain # << >>).buffer = e.buffer
  <2>1. CASE ~ e.rx.poll
    BY <2>1, NothingReported
  <2>2. CASE e.rx.poll
    <3> DEFINE a == Append(e.answers, [lcid |-> sdu.lcid, bytes |-> StatusReport(e.rx.sn)])
    <3>1. Report(e, sdu.lcid, plain # << >>) = [e EXCEPT !.answers = a]
      BY <2>2 DEF Report
    <3> HIDE DEF a
    <3> QED BY <1>4, <3>1 DEF Fields
  <2> QED BY <2>1, <2>2
<1> QED BY <1>1, <1>2, <1>4, <1>5 DEF R

\* The flags rlc_decode keeps of a fragment in acknowledged mode.
LEMMA RlcFlags ==
  ASSUME NEW b, Head(b).dc = "data", Head(b).e = 0, NEW x, NEW y, NEW z
  PROVE  LET r == rlc_decode(1, b, [buf |-> x, sn |-> y, poll |-> z]) IN
         r.rx.sn = Head(b).sn /\ r.rx.poll = Head(b).p
<1> DEFINE rx == [buf |-> x, sn |-> y, poll |-> z]
           h == Head(b)
           seen == [rx EXCEPT !.sn = h.sn, !.poll = h.p]
           buf == reassemble(rx.buf, h.first, Tail(b))
           out == IF h.last THEN buf ELSE << >>
<1>1. rlc_decode(1, b, rx) = [rx |-> [seen EXCEPT !.buf = buf], out |-> out]
  <2>1. 1 \in AM /\ 1 # 0
    BY DEF AM
  <2> HIDE DEF rx
  <2> QED BY <2>1 DEF rlc_decode
<1>2. seen = [buf |-> x, sn |-> h.sn, poll |-> h.p]
  <2>1. ASSUME NEW n, NEW p, NEW r, r = [buf |-> x, sn |-> y, poll |-> z],
               NEW q, q = [r EXCEPT !.sn = n, !.poll = p]
        PROVE  q = [buf |-> x, sn |-> n, poll |-> p]
    BY ONLY <2>1
  <2>2. rx = [buf |-> x, sn |-> y, poll |-> z] /\ seen = [rx EXCEPT !.sn = h.sn, !.poll = h.p]
    OBVIOUS
  <2> HIDE DEF rx, seen, h
  <2> QED BY ONLY <2>1, <2>2, Zenon
<1> HIDE DEF seen, buf, out, rx
<1>3. [seen EXCEPT !.buf = buf] = [buf |-> buf, sn |-> h.sn, poll |-> h.p]
  BY <1>2
<1>4. rlc_decode(1, b, rx).rx = [buf |-> buf, sn |-> h.sn, poll |-> h.p]
  BY <1>1, <1>3
<1> QED BY <1>4 DEF rx

\* A fragment on channel 1: the flags, and the units of its message.
LEMMA FragmentTold ==
  ASSUME NEW s, StateOK(s), NEW sdu, sdu.lcid = 1, NEW h \in Header, NEW t \in Seq(Plain),
         sdu.bytes = << h >> \o t, NEW T, s.buffer[1] \in Seq(T), t \in Seq(T)
  PROVE  LET d == Decoded(s, sdu) IN
         /\ d.rx.sn = h.sn /\ d.rx.poll = h.p /\ d.rx.buf \in Seq(T)
         /\ Told(s, sdu) \in Seq(T)
<1> DEFINE d == Decoded(s, sdu)
           buf == reassemble(s.buffer[sdu.lcid], h.first, t)
<1>1. /\ Head(sdu.bytes) = h /\ h.dc = "data"
      /\ d.rx.buf = buf /\ d.out = IF h.last THEN buf ELSE << >>
  BY DataDecoded
<1>2. h.e = 0 /\ h.first \in BOOLEAN /\ h.last \in BOOLEAN
  BY DEF Header
<1>3. d.rx.sn = h.sn /\ d.rx.poll = h.p
  <2> DEFINE b == sdu.bytes
             x == s.buffer[1]
             y == s.rx.sn
             z == s.rx.poll
             r == rlc_decode(1, b, [buf |-> x, sn |-> y, poll |-> z])
  <2>1. d = r
    BY DEF Decoded
  <2>2. Head(b).dc = "data" /\ Head(b).e = 0
    BY <1>1, <1>2
  <2> HIDE DEF b, x, y, z
  <2>3. r.rx.sn = Head(b).sn /\ r.rx.poll = Head(b).p
    BY <2>2, RlcFlags
  <2> HIDE DEF d, r
  <2> QED BY <1>1, <2>1, <2>3 DEF b
<1>4. buf \in Seq(T)
  <2>1. reassemble(s.buffer[1], h.first, t) \in Seq(T)
    BY <1>2, ReassembleFits
  <2> QED BY <2>1
<1> HIDE DEF d, buf
<1>5. d.out \in Seq(T)
  BY <1>1, <1>4
<1>6. Told(s, sdu) \in Seq(T)
  <2> DEFINE o == d.out
             l == Len(o)
  <2>1. Told(s, sdu) = pdcp_decode(1, o)
    BY DEF Told, d
  <2> HIDE DEF o
  <2>2. CASE o = << >>
    <3>1. pdcp_decode(1, o) = o
      BY <2>2 DEF pdcp_decode
    <3> QED BY <1>5, <2>1, <3>1 DEF o
  <2>3. CASE o # << >>
    <3>1. pdcp_decode(1, o) = SubSeq(o, 2, l - 1)
      BY <2>3 DEF pdcp_decode, AM
    <3>2. o \in Seq(T) /\ l \in Nat
      BY <1>5 DEF o
    <3>3. \A i \in 2 .. l - 1 : o[i] \in T
      BY <3>2
    <3>4. l - 1 \in Int /\ 2 \in Int
      BY <3>2
    <3> DEFINE m == l - 1
    <3> HIDE DEF l, m
    <3>5. SubSeq(o, 2, m) \in Seq(T)
      BY <3>3, <3>4, SubSeqProperties DEF m
    <3> QED BY <2>1, <3>1, <3>5 DEF m
  <2> QED BY <2>2, <2>3
<1> QED BY <1>1, <1>3, <1>4, <1>6 DEF d

\* A fragment on channel 1 is answered by what its message calls for, and
\* reported behind that when it is polled.
LEMMA FragmentAnswered ==
  ASSUME NEW s, StateOK(s), s.answers = << >>, NEW sdu, sdu.lcid = 1,
         NEW h \in Header, NEW t \in Seq(Plain), sdu.bytes = << h >> \o t,
         NEW T, s.buffer[1] \in Seq(T), t \in Seq(T)
  PROVE  LET r == Handle(s, sdu) IN
         /\ r.buffer[1] \in Seq(T)
         /\ \E a, id : /\ Replies(a, id) /\ (a # << >> => \E u \in T : u.kind = "msg" /\ u.id = id)
                       /\ r.answers = IF h.p THEN Append(a, ReportSdu(h.sn)) ELSE a
<1> DEFINE f == Fresh(s, sdu)
           plain == PlainAnswers(s, sdu)
           msg == Told(s, sdu)
           e == EncodeAll(f, plain)
           id == Head(msg).id
           d == Decoded(s, sdu).rx
<1>1. Handle(s, sdu) = Report(e, sdu.lcid, plain # << >>)
  BY HandleIs
<1>2. d.sn = h.sn /\ d.poll = h.p /\ d.buf \in Seq(T) /\ msg \in Seq(T)
  BY FragmentTold
<1>3. ~ rrcResets(sdu.lcid, msg)
  BY DEF rrcResets
<1>4. /\ Fields(f) /\ f.answers = << >> /\ f.rx = [sn |-> h.sn, poll |-> h.p]
  <2>1. Fields(f) /\ f.answers = s.answers /\ f.rx = [sn |-> d.sn, poll |-> d.poll]
    BY ONLY StateOK(s), FreshRest
  <2> HIDE DEF f, d
  <2> QED BY <1>2, <2>1
<1>5. Handle(s, sdu).buffer[1] \in Seq(T)
  <2>1. Handle(s, sdu).buffer = [s.buffer EXCEPT ![1] = d.buf]
    <3>1. Handle(s, sdu).buffer =
            IF rrcResets(sdu.lcid, Told(s, sdu)) THEN Empty
            ELSE [s.buffer EXCEPT ![sdu.lcid] = Decoded(s, sdu).rx.buf]
      BY ONLY StateOK(s), HandleBuffer
    <3> QED BY ONLY <1>3, <3>1, sdu.lcid = 1
  <2>2. 1 \in DOMAIN s.buffer
    BY DEF StateOK, BuffersOK, Channel
  <2> HIDE DEF d
  <2> QED BY <1>2, <2>1, <2>2
<1>6. plain = rrcAnswers(1, msg)
  <2>1. TestReply(1, msg) = << >>
    BY DEF TestReply
  <2>2. plain = rrcAnswers(1, msg) \o << >>
    BY <2>1 DEF PlainAnswers
  <2> DEFINE p == rrcAnswers(1, msg)
             U == {p[i] : i \in 1 .. Len(p)}
  <2>3. Sequence(p)
    <3>1. \/ p = << >>
          \/ \E type : p = << answer(1, type, id) >>
          \/ p = << answer(1, "detachAccept", id), answer(1, "release", id) >>
      <4> HIDE DEF msg
      <4> QED BY SignallingSaid
    <3>2. \A x, y : Sequence(<< x >>) /\ Sequence(<< x, y >>) /\ Sequence(<< >>)
      <4> TAKE x, y
      <4> QED BY SeqIsSequence, << x >> \in Seq({x}), << x, y >> \in Seq({x, y}), << >> \in Seq({})
    <3> HIDE DEF p
    <3> QED BY <3>1, <3>2
  <2> HIDE DEF p
  <2>4. p \in Seq(U)
    BY <2>3, SequenceIsSeq
  <2> HIDE DEF U
  <2>5. p \o << >> = p
    BY <2>4
  <2> HIDE DEF plain
  <2> QED BY <2>2, <2>5 DEF p
<1> HIDE DEF f, msg, plain
<1>7. /\ Fields(e) /\ e.rx = f.rx /\ Replies(e.answers, id)
      /\ e.answers # << >> => msg # << >> /\ Head(msg).kind = "msg"
  BY <1>4, <1>6, RepliesEncoded
<1> HIDE DEF e
<1>8. e.answers # << >> => \E u \in T : u.kind = "msg" /\ u.id = id
  <2> SUFFICES ASSUME e.answers # << >> PROVE \E u \in T : u.kind = "msg" /\ u.id = id
    OBVIOUS
  <2>1. Head(msg) \in T
    BY <1>2, <1>7
  <2> QED BY <1>7, <2>1
<1>9. Handle(s, sdu).answers = IF h.p THEN Append(e.answers, ReportSdu(h.sn)) ELSE e.answers
  <2>1. e.rx.poll = h.p /\ e.rx.sn = h.sn
    BY <1>4, <1>7
  <2>2. CASE ~ h.p
    BY <1>1, <2>1, <2>2, NothingReported
  <2>3. CASE h.p
    <3> DEFINE a == Append(e.answers, ReportSdu(h.sn))
    <3>1. Report(e, sdu.lcid, plain # << >>) = [e EXCEPT !.answers = a]
      BY <2>1, <2>3 DEF Report, ReportSdu
    <3> HIDE DEF a
    <3>2. Handle(s, sdu).answers = a
      BY <1>1, <1>7, <3>1 DEF Fields
    <3> QED BY <2>3, <3>2 DEF a
  <2> QED BY <2>2, <2>3
<1> QED BY <1>5, <1>7, <1>8, <1>9

----------------------------------------------------------------------------
(* Answers that the phone hears all of. *)

\* The phone finds the SDUs of b in the block of an answer.
AllHeard(b) ==
  LET sdus == PhoneSdus(InBlock(b, RrcBlock)) IN
  Len(sdus) = Len(b) /\ \A k \in 1 .. Len(b) : sdus[k].lcid = b[k].lcid /\ sdus[k].bytes = b[k].bytes

\* An SDU that takes no more than w bytes.
Light(x, w) ==
  /\ Speakable(x) /\ \A i \in 1 .. Len(x.bytes) : Bytes(x.bytes[i]) \in Nat
  /\ w \in Nat /\ Weight(x) <= w

LEMMA LightHeard ==
  ASSUME NEW a, Sequence(a), a # << >>, Len(a) <= 3,
         NEW w, \A k \in 1 .. Len(a) : Light(a[k], w[k]),
         \/ Len(a) = 1 /\ w[1] + 1 <= RrcBlock
         \/ Len(a) = 2 /\ w[1] + w[2] + 1 <= RrcBlock
         \/ Len(a) = 3 /\ w[1] + w[2] + w[3] + 1 <= RrcBlock
  PROVE  Bytefull(a) /\ AllHeard(a)
<1>1. Weighed(a) /\ Bytefull(a) /\ \A k \in 1 .. Len(a) : w[k] \in Nat /\ Weight(a[k]) <= w[k]
  BY DEF Weighed, Bytefull, Light
<1>2. RrcBlock \in Nat
  BY EndToEndAssumption
<1>3. Complete(a, RrcBlock) = Len(a)
  BY <1>1, <1>2, ThreeComplete
<1>4. LET sdus == PhoneSdus(InBlock(a, RrcBlock))
          m == Complete(a, RrcBlock)
      IN  /\ m \in 0 .. Len(a) /\ Len(sdus) = m
          /\ \A k \in 1 .. m : sdus[k].lcid = a[k].lcid /\ sdus[k].bytes = a[k].bytes
  BY ONLY <1>1, a # << >>, PhoneHears
<1> QED BY <1>1, <1>3, <1>4 DEF AllHeard

LEMMA OneHeard ==
  ASSUME NEW x, NEW v, Light(x, v), v + 1 <= RrcBlock
  PROVE  Bytefull(<< x >>) /\ AllHeard(<< x >>)
<1> DEFINE a == << x >>
           w == << v >>
<1>1. Sequence(a) /\ Len(a) = 1 /\ a[1] = x /\ w[1] = v /\ a # << >>
  BY OneIsSequence
<1> HIDE DEF a, w
<1>2. \A k \in 1 .. Len(a) : Light(a[k], w[k])
  <2>1. \A k \in 1 .. Len(a) : k = 1
    BY <1>1
  <2> QED BY <1>1, <2>1
<1>3. Len(a) <= 3 /\ w[1] + 1 <= RrcBlock
  BY <1>1
<1>4. Bytefull(a) /\ AllHeard(a)
  BY ONLY <1>1, <1>2, <1>3, LightHeard
<1> QED BY <1>4 DEF a

LEMMA TwoHeard ==
  ASSUME NEW x, NEW y, NEW v, NEW m, Light(x, v), Light(y, m), v + m + 1 <= RrcBlock
  PROVE  Bytefull(<< x, y >>) /\ AllHeard(<< x, y >>)
<1> DEFINE a == << x, y >>
           w == << v, m >>
<1>1. /\ Len(a) = 2 /\ a[1] = x /\ a[2] = y /\ w[1] = v /\ w[2] = m /\ a # << >>
      /\ a \in Seq({x, y})
  OBVIOUS
<1> HIDE DEF a, w
<1>2. \A k \in 1 .. Len(a) : Light(a[k], w[k])
  <2>1. \A k \in 1 .. Len(a) : k = 1 \/ k = 2
    BY <1>1
  <2> QED BY <1>1, <2>1
<1>3. Sequence(a)
  BY <1>1, SeqIsSequence
<1>4. Len(a) <= 3 /\ w[1] + w[2] + 1 <= RrcBlock
  BY <1>1
<1>5. Bytefull(a) /\ AllHeard(a)
  BY ONLY <1>1, <1>2, <1>3, <1>4, LightHeard
<1> QED BY <1>5 DEF a

LEMMA ThreeHeard ==
  ASSUME NEW x, NEW y, NEW z, NEW v, NEW m, NEW n, Light(x, v), Light(y, m), Light(z, n),
         v + m + n + 1 <= RrcBlock
  PROVE  Bytefull(<< x, y, z >>) /\ AllHeard(<< x, y, z >>)
<1> DEFINE a == << x, y, z >>
           w == << v, m, n >>
<1>1. /\ Len(a) = 3 /\ a[1] = x /\ a[2] = y /\ a[3] = z /\ w[1] = v /\ w[2] = m /\ w[3] = n
      /\ a \in Seq({x, y, z}) /\ a # << >>
  OBVIOUS
<1> HIDE DEF a, w
<1>2. \A k \in 1 .. Len(a) : Light(a[k], w[k])
  <2>1. \A k \in 1 .. Len(a) : k = 1 \/ k = 2 \/ k = 3
    BY <1>1
  <2> QED BY <1>1, <2>1
<1>3. Sequence(a)
  BY <1>1, SeqIsSequence
<1>4. Len(a) <= 3 /\ w[1] + w[2] + w[3] + 1 <= RrcBlock
  BY <1>1
<1>5. Bytefull(a) /\ AllHeard(a)
  BY ONLY <1>1, <1>2, <1>3, <1>4, LightHeard
<1> QED BY <1>5 DEF a

\* What the units of an answer take.
LEMMA AnswerUnits ==
  /\ \A n : Bytes(MessageHeader(n)) = 2
  /\ Bytes(MacI) = 4
  /\ \A n : \A u : StatusReport(n) = << u >> => Bytes(u) = 2
  /\ \A type \in DOMAIN AnswerBytes : \A id :
       Bytes(MsgUnit(type, id)) = AnswerBytes[type] /\ AnswerBytes[type] \in 0 .. 137
  /\ AnswerBytes["detachAccept"] = 11 /\ AnswerBytes["release"] = 2
  /\ {"detachAccept", "release"} \subseteq DOMAIN AnswerBytes
<1>1. \A n : Bytes(MessageHeader(n)) = 2
  BY DEF Bytes, MessageHeader
<1>2. Bytes(MacI) = 4
  BY DEF Bytes, MacI
<1>3. ASSUME NEW n, NEW u, StatusReport(n) = << u >> PROVE Bytes(u) = 2
  <2>1. u.kind = "rlc" /\ u.dc = "status"
    BY <1>3 DEF StatusReport
  <2> QED BY <2>1 DEF Bytes
<1>4. ASSUME NEW type \in DOMAIN AnswerBytes, NEW id
      PROVE Bytes(MsgUnit(type, id)) = AnswerBytes[type]
  <2>1. MsgUnit(type, id).kind = "msg" /\ MsgUnit(type, id).type = type
    BY DEF MsgUnit
  <2>2. type # "request"
    BY <1>4 DEF AnswerBytes
  <2>3. MsgUnit(type, id).type \in DOMAIN AnswerBytes
    BY <1>4, <2>1
  <2>4. MsgUnit(type, id).type # "request" /\ MsgUnit(type, id).kind # "rlc"
        /\ MsgUnit(type, id).kind # "maci" /\ MsgUnit(type, id).kind # "net"
    BY <2>1, <2>2
  <2>5. Bytes(MsgUnit(type, id)) = AnswerBytes[MsgUnit(type, id).type]
    BY ONLY <2>1, <2>3, <2>4 DEF Bytes
  <2> QED BY <2>1, <2>5
<1>5. /\ \A type \in DOMAIN AnswerBytes : AnswerBytes[type] \in 0 .. 137
      /\ AnswerBytes["detachAccept"] = 11 /\ AnswerBytes["release"] = 2
      /\ {"detachAccept", "release"} \subseteq DOMAIN AnswerBytes
  BY DEF AnswerBytes
<1> QED BY <1>1, <1>2, <1>3, <1>4, <1>5

\* One unit, and four.
LEMMA OneUnit ==
  ASSUME NEW u, Bytes(u) \in Nat, NEW c \in Channel \union {28}
  PROVE  Light([lcid |-> c, bytes |-> << u >>], Bytes(u) + 3)
<1> DEFINE x == [lcid |-> c, bytes |-> << u >>]
           b == << u >>
<1>1. Len(b) = 1 /\ b[1] = u /\ Sequence(b) /\ b # << >>
  BY OneIsSequence
<1>2. x.lcid = c /\ x.bytes = b
  OBVIOUS
<1> HIDE DEF b, x
<1>3. \A i \in 1 .. Len(b) : Bytes(b[i]) \in Nat
  <2>1. \A i \in 1 .. Len(b) : i = 1
    BY <1>1
  <2> QED BY <1>1, <2>1
<1>4. ByteLength(b) = Bytes(u)
  <2>1. Len(b) \in Nat
    BY <1>1
  <2>2. PICK sum : /\ ByteLength(b) = sum[Len(b)] /\ sum[0] = 0
                   /\ \A k \in 1 .. Len(b) : sum[k] = sum[k - 1] + Bytes(b[k])
    BY <1>3, <2>1, ByteLengthUnfolds
  <2>3. sum[1] = sum[1 - 1] + Bytes(b[1])
    BY <1>1, <2>2
  <2> QED BY <1>1, <2>2, <2>3
<1>5. SubheaderBytes(x) \in 1 .. 3
  BY SubheaderSmall
<1>6. Speakable(x)
  BY <1>1, <1>2 DEF Speakable
<1>7. Weight(x) <= Bytes(u) + 3 /\ Bytes(u) + 3 \in Nat
  BY <1>2, <1>4, <1>5 DEF Weight
<1> QED BY <1>2, <1>3, <1>6, <1>7 DEF Light, x, b

LEMMA FourUnits ==
  ASSUME NEW p, NEW q, NEW r, NEW s, NEW c \in Channel,
         Bytes(p) \in Nat, Bytes(q) \in Nat, Bytes(r) \in Nat, Bytes(s) \in Nat
  PROVE  Light([lcid |-> c, bytes |-> << p, q, r, s >>],
               Bytes(p) + Bytes(q) + Bytes(r) + Bytes(s) + 3)
<1> DEFINE b == << p, q, r, s >>
           x == [lcid |-> c, bytes |-> b]
           l == Bytes(p) + Bytes(q) + Bytes(r) + Bytes(s)
<1>1. /\ Len(b) = 4 /\ b[1] = p /\ b[2] = q /\ b[3] = r /\ b[4] = s /\ b # << >>
      /\ b \in Seq({p, q, r, s})
  OBVIOUS
<1>2. x.lcid = c /\ x.bytes = b
  OBVIOUS
<1> HIDE DEF b, x
<1>3. \A i \in 1 .. Len(b) : Bytes(b[i]) \in Nat
  <2>1. \A i \in 1 .. Len(b) : i = 1 \/ i = 2 \/ i = 3 \/ i = 4
    BY <1>1
  <2> QED BY <1>1, <2>1
<1>4. ByteLength(b) = l
  <2>1. Len(b) \in Nat
    BY <1>1
  <2>2. PICK sum : /\ ByteLength(b) = sum[Len(b)] /\ sum[0] = 0
                   /\ \A k \in 1 .. Len(b) : sum[k] = sum[k - 1] + Bytes(b[k])
    BY <1>3, <2>1, ByteLengthUnfolds
  <2>3. /\ sum[1] = sum[1 - 1] + Bytes(b[1]) /\ sum[2] = sum[2 - 1] + Bytes(b[2])
        /\ sum[3] = sum[3 - 1] + Bytes(b[3]) /\ sum[4] = sum[4 - 1] + Bytes(b[4])
    BY <1>1, <2>2
  <2>4. sum[4] = 0 + Bytes(p) + Bytes(q) + Bytes(r) + Bytes(s)
    BY <1>1, <2>2, <2>3
  <2> QED BY <1>1, <2>2, <2>4
<1>5. SubheaderBytes(x) \in 1 .. 3
  BY SubheaderSmall
<1>6. Speakable(x)
  <2>1. Sequence(b)
    BY <1>1, SeqIsSequence
  <2>2. c # 28 /\ c \in Channel \union {28}
    BY DEF Channel
  <2> QED BY <1>1, <1>2, <2>1, <2>2 DEF Speakable
<1>7. Weight(x) <= l + 3 /\ l + 3 \in Nat
  <2>1. l \in Nat
    OBVIOUS
  <2> HIDE DEF l
  <2> QED BY <1>2, <1>4, <1>5, <2>1 DEF Weight
<1> QED BY <1>2, <1>3, <1>6, <1>7 DEF Light, x, b

LEMMA CommandLight ==
  ASSUME NEW type \in DOMAIN AnswerBytes, NEW id, NEW n
  PROVE  Light(Command(type, id, n), AnswerBytes[type] + 10) /\ AnswerBytes[type] \in 0 .. 137
<1> DEFINE p == MessageHeader(n)
           q == PdcpData
           r == MsgUnit(type, id)
           s == MacI
<1>1. Bytes(p) = 2 /\ Bytes(q) = 1 /\ Bytes(r) = AnswerBytes[type] /\ Bytes(s) = 4
      /\ AnswerBytes[type] \in 0 .. 137
  BY AnswerUnits, BytesOfUnits
<1> HIDE DEF p, q, r, s
<1>2. 1 \in Channel
  BY DEF Channel
<1>3. Light([lcid |-> 1, bytes |-> << p, q, r, s >>],
            Bytes(p) + Bytes(q) + Bytes(r) + Bytes(s) + 3)
  BY <1>1, <1>2, FourUnits
<1>4. Bytes(p) + Bytes(q) + Bytes(r) + Bytes(s) + 3 = AnswerBytes[type] + 10
  BY <1>1
<1> QED BY <1>1, <1>3, <1>4 DEF Command, p, q, r, s

LEMMA ReportLight ==
  ASSUME NEW n
  PROVE  Light(ReportSdu(n), 5)
<1>1. PICK u : StatusReport(n) = << u >>
  BY DEF StatusReport
<1>2. Bytes(u) = 2 /\ 1 \in Channel \union {28}
  BY <1>1, AnswerUnits DEF Channel
<1>3. Light([lcid |-> 1, bytes |-> << u >>], Bytes(u) + 3)
  BY <1>2, OneUnit
<1> QED BY <1>1, <1>2, <1>3 DEF ReportSdu

\* The answers to a message, and the report behind them, fit in a block of 153 bytes.
LEMMA RepliesHeard ==
  ASSUME NEW a, NEW id, Replies(a, id), NEW n, NEW b, b # << >>,
         b = a \/ b = Append(a, ReportSdu(n)), RrcBlock >= 153
  PROVE  Bytefull(b) /\ AllHeard(b)
<1> DEFINE z == ReportSdu(n)
           A == AnswerBytes
<1>1. Light(z, 5)
  BY ReportLight
<1>0. RrcBlock \in Nat
  BY EndToEndAssumption
<1> HIDE DEF z
<1>2. CASE a = << >>
  <2>1. b = << z >>
    BY <1>2, AppendedOne DEF z
  <2> QED BY <1>0, <1>1, <2>1, OneHeard
<1>3. ASSUME NEW type \in DOMAIN AnswerBytes, NEW m, a = << Command(type, id, m) >>
      PROVE  Bytefull(b) /\ AllHeard(b)
  <2> DEFINE x == Command(type, id, m)
             v == A[type] + 10
  <2>1. Light(x, v) /\ A[type] \in 0 .. 137
    BY CommandLight
  <2>2. v + 1 <= RrcBlock /\ v + 5 + 1 <= RrcBlock
    <3>1. PICK l \in 0 .. 137 : A[type] = l
      BY <2>1
    <3>2. v = l + 10
      BY <3>1
    <3> HIDE DEF A, v
    <3> QED BY <1>0, <3>2
  <2>3. b = << x >> \/ b = << x, z >>
    BY <1>3, AppendedTwo DEF z
  <2> HIDE DEF x, v
  <2> QED BY <1>1, <2>1, <2>2, <2>3, OneHeard, TwoHeard
<1>4. ASSUME NEW k, NEW m, a = << Command("detachAccept", id, k), Command("release", id, m) >>
      PROVE  Bytefull(b) /\ AllHeard(b)
  <2> DEFINE x == Command("detachAccept", id, k)
             y == Command("release", id, m)
  <2>1. Light(x, 21) /\ Light(y, 12)
    <3>1. /\ Light(x, A["detachAccept"] + 10) /\ Light(y, A["release"] + 10)
          /\ A["detachAccept"] = 11 /\ A["release"] = 2
      BY CommandLight, AnswerUnits
    <3> HIDE DEF x, y
    <3> QED BY <3>1
  <2>2. b = << x, y >> \/ b = << x, y, z >>
    <3>1. Append(<< x, y >>, z) = << x, y, z >>
      <4> HIDE DEF x, y
      <4> QED BY AppendedThree
    <3> QED BY <1>4, <3>1 DEF z
  <2>3. 21 + 12 + 1 <= RrcBlock /\ 21 + 12 + 5 + 1 <= RrcBlock
    BY <1>0
  <2> HIDE DEF x, y
  <2> QED BY <1>1, <2>1, <2>2, <2>3, TwoHeard, ThreeHeard
<1> QED BY <1>2, <1>3, <1>4 DEF Replies

\* The answers to a request fit too.
LEMMA SetupHeard ==
  ASSUME NEW id, RrcBlock >= 153
  PROVE  LET a == << Echo(id), Setup(id) >> IN Bytefull(a) /\ AllHeard(a)
<1> DEFINE x == Echo(id)
           y == Setup(id)
           u == MsgUnit("request", id)
           v == MsgUnit("setup", id)
<1>1. Bytes(u) = 6 /\ Bytes(v) = 8
  BY BytesOfUnits
<1> HIDE DEF u, v
<1>2. Light(x, 9)
  <2>1. Light([lcid |-> 28, bytes |-> << u >>], Bytes(u) + 3)
    BY <1>1, OneUnit
  <2> QED BY <1>1, <2>1 DEF Echo, u
<1>3. Light(y, 11)
  <2>1. 0 \in Channel \union {28}
    BY DEF Channel
  <2>2. Light([lcid |-> 0, bytes |-> << v >>], Bytes(v) + 3)
    BY <1>1, <2>1, OneUnit
  <2> QED BY <1>1, <2>2 DEF Setup, v
<1>4. 9 + 11 + 1 <= RrcBlock
  BY EndToEndAssumption
<1> HIDE DEF x, y
<1>5. Bytefull(<< x, y >>) /\ AllHeard(<< x, y >>)
  BY <1>2, <1>3, <1>4, TwoHeard
<1> QED BY <1>5 DEF x, y

----------------------------------------------------------------------------
(* The blocks of a phone, and what they are answered with. *)

ConnIds == 0 .. ConnMod - 1

\* A block that asks for the connection id.
AsksFor(sdus, id) ==
  Len(sdus) = 1 /\ sdus[1].lcid = 0 /\ sdus[1].bytes = << MsgUnit("request", id) >>

\* A block carries a request, a fragment of a packet, or a fragment of a
\* message, behind a status report or not.
UpKind(sdus) ==
  \/ \E id \in ConnIds : AsksFor(sdus, id)
  \/ Len(sdus) = 1 /\ sdus[1].lcid \in {1, 3}
  \/ Len(sdus) = 2 /\ StatusOnly(sdus[1]) /\ sdus[2].lcid = 1

\* All that a block says on channel 1 is in T.
SaysIn(sdus, T) == \A k \in 1 .. Len(sdus) : sdus[k].lcid = 1 => sdus[k].bytes \in Seq(T)

SpeaksOf(T, id) == \E u \in T : u.kind = "msg" /\ u.id = id

\* The answers b to an SDU on channel 1: those to a message of T, and the
\* report that a polled fragment asks for.
AnswersTo(b, sdu, T) ==
  \/ b = << >> /\ ~ Head(sdu.bytes).p
  \/ \E a, id : /\ Replies(a, id) /\ (a # << >> => SpeaksOf(T, id))
                /\ b = IF Head(sdu.bytes).p THEN Append(a, ReportSdu(Head(sdu.bytes).sn)) ELSE a

LEMMA StatusUnpolled ==
  ASSUME NEW test, NEW sdu \in PhoneSdu(test), StatusOnly(sdu)
  PROVE  ~ Head(sdu.bytes).p
<1>1. sdu.lcid = 1 /\ Head(sdu.bytes).dc = "status"
  BY DEF StatusOnly
<1>2. CASE \E n \in 0 .. SnMod - 1 : sdu.bytes = StatusReport(n)
  BY <1>2 DEF StatusReport
<1>3. ASSUME NEW h \in Header, NEW t \in Seq(Plain), sdu.bytes = << h >> \o t PROVE FALSE
  <2>1. Head(sdu.bytes) = h /\ h.dc = "data"
    BY <1>3, FirstAndRest DEF Header
  <2> QED BY <1>1, <2>1
<1>4. \/ \E n \in 0 .. SnMod - 1 : sdu.bytes = StatusReport(n)
      \/ \E h \in Header, t \in Seq(Plain) : sdu.bytes = << h >> \o t
  <2>1. sdu.lcid # 0
    BY <1>1
  <2> QED BY <2>1, SduCases
<1> QED BY <1>2, <1>3, <1>4

\* The buffer of channel 1 is emptied, or kept, or what was decoded on it.
LEMMA BufferOne ==
  ASSUME NEW s, StateOK(s), NEW sdu, NEW T, s.buffer[1] \in Seq(T),
         sdu.lcid = 1 => Decoded(s, sdu).rx.buf \in Seq(T)
  PROVE  Handle(s, sdu).buffer[1] \in Seq(T)
<1> DEFINE b == Decoded(s, sdu).rx.buf
           B == [s.buffer EXCEPT ![sdu.lcid] = b]
<1>1. Empty[1] = << >> /\ << >> \in Seq(T)
  BY DEF Empty, Channel
<1>2. s.buffer \in [Channel -> Seq(Plain)] /\ 1 \in Channel
  BY DEF StateOK, BuffersOK, Channel
<1>3. B[1] = IF sdu.lcid = 1 THEN b ELSE s.buffer[1]
  <2> HIDE DEF b
  <2> QED BY <1>2
<1>4. Handle(s, sdu).buffer = Empty \/ Handle(s, sdu).buffer = B
  BY HandleBuffer
<1> HIDE DEF B, b
<1>5. B[1] \in Seq(T)
  BY <1>3 DEF b
<1> QED BY <1>1, <1>4, <1>5

LEMMA StatusServed ==
  ASSUME NEW s, StateOK(s), ~ s.rx.poll, NEW sdu, StatusOnly(sdu),
         NEW T, s.buffer[1] \in Seq(T)
  PROVE  LET r == Handle(s, sdu) IN
         r.answers = s.answers /\ ~ r.rx.poll /\ r.buffer[1] \in Seq(T)
<1>1. sdu.lcid = 1 /\ Head(sdu.bytes).dc = "status"
  BY DEF StatusOnly
<1>2. Decoded(s, sdu).rx.buf = s.buffer[1]
  <2> DEFINE rx == [buf |-> s.buffer[1], sn |-> s.rx.sn, poll |-> s.rx.poll]
  <2>1. Decoded(s, sdu) = [rx |-> rx, out |-> << >>]
    BY <1>1 DEF Decoded, rlc_decode
  <2>2. rx.buf = s.buffer[1]
    OBVIOUS
  <2> HIDE DEF rx
  <2> QED BY <2>1, <2>2
<1>3. Handle(s, sdu).buffer[1] \in Seq(T)
  BY <1>2, BufferOne
<1> QED BY <1>3, StatusIgnored

LEMMA SignalServed ==
  ASSUME NEW s, StateOK(s), s.answers = << >>, ~ s.rx.poll,
         NEW sdu \in PhoneSdu(test_IP), sdu.lcid = 1,
         NEW T, s.buffer[1] \in Seq(T), sdu.bytes \in Seq(T)
  PROVE  LET r == Handle(s, sdu) IN
         r.buffer[1] \in Seq(T) /\ AnswersTo(r.answers, sdu, T)
<1> DEFINE r == Handle(s, sdu)
<1>1. CASE \E n \in 0 .. SnMod - 1 : sdu.bytes = StatusReport(n)
  <2>1. StatusOnly(sdu)
    BY <1>1 DEF StatusOnly, StatusReport
  <2>2. ~ Head(sdu.bytes).p
    BY <2>1, StatusUnpolled
  <2>3. r.answers = << >> /\ r.buffer[1] \in Seq(T)
    BY <2>1, StatusServed
  <2>4. AnswersTo(r.answers, sdu, T)
    <3> HIDE DEF r
    <3> QED BY <2>2, <2>3 DEF AnswersTo
  <2> QED BY <2>3, <2>4
<1>2. ASSUME NEW h \in Header, NEW t \in Seq(Plain), sdu.bytes = << h >> \o t
      PROVE  r.buffer[1] \in Seq(T) /\ AnswersTo(r.answers, sdu, T)
  <2>1. Head(sdu.bytes) = h /\ Tail(sdu.bytes) = t /\ sdu.bytes # << >>
    BY <1>2, FirstAndRest
  <2>2. t \in Seq(T)
    <3>1. sdu.bytes \in Seq(T)
      OBVIOUS
    <3>2. Tail(sdu.bytes) \in Seq(T)
      BY ONLY <2>1, <3>1, HeadTailProperties
    <3> QED BY <2>1, <3>2
  <2>3. /\ r.buffer[1] \in Seq(T)
        /\ \E a, id : /\ Replies(a, id) /\ (a # << >> => \E u \in T : u.kind = "msg" /\ u.id = id)
                      /\ r.answers = IF h.p THEN Append(a, ReportSdu(h.sn)) ELSE a
    BY ONLY <1>2, <2>2, StateOK(s), s.answers = << >>, sdu.lcid = 1, h \in Header,
            t \in Seq(Plain), s.buffer[1] \in Seq(T), FragmentAnswered
  <2> HIDE DEF r
  <2> QED BY <2>1, <2>3 DEF AnswersTo, SpeaksOf
<1>3. \/ \E n \in 0 .. SnMod - 1 : sdu.bytes = StatusReport(n)
      \/ \E h \in Header, t \in Seq(Plain) : sdu.bytes = << h >> \o t
  <2>1. sdu.lcid # 0
    OBVIOUS
  <2> QED BY <2>1, SduCases
<1> QED BY <1>1, <1>2, <1>3

\* What is done with a block: a request opens a connection, a packet is at
\* most replied to, a message is answered and a fragment that polls reported.
ServedAsk(r, sdus) ==
  \E id \in ConnIds :
    AsksFor(sdus, id) /\ r.answers = << Echo(id), Setup(id) >> /\ r.buffer = Empty

ServedPacket(r, sdus, T) ==
  /\ Len(sdus) = 1 /\ sdus[1].lcid = 3 /\ r.buffer[1] \in Seq(T)
  /\ r.answers = << >> \/ \E m : r.answers = << Reply(m) >>

ServedSignal(r, sdus, T) ==
  /\ Len(sdus) \in {1, 2} /\ r.buffer[1] \in Seq(T)
  /\ \A k \in 1 .. Len(sdus) : sdus[k].lcid = 1
  /\ Len(sdus) = 2 => ~ Head(sdus[1].bytes).p
  /\ AnswersTo(r.answers, sdus[Len(sdus)], T)

ServedAs(r, sdus, T) ==
  ServedAsk(r, sdus) \/ ServedPacket(r, sdus, T) \/ ServedSignal(r, sdus, T)

LEMMA AskServed ==
  ASSUME NEW s, StateOK(s), s.answers = << >>, s.rx.poll = FALSE,
         NEW sdu, sdu.lcid = 0, NEW id, sdu.bytes = << MsgUnit("request", id) >>
  PROVE  LET r == Handle(s, sdu) IN
         r.answers = << Echo(id), Setup(id) >> /\ r.buffer = Empty
<1> DEFINE r == Handle(s, sdu)
           x == Echo(id)
           y == Setup(id)
           u == << MsgUnit("request", id) >>
<1>1. r.answers = Append(Append(<< >>, x), y)
  BY RequestAnswered
<1>2. Append(Append(<< >>, x), y) = << x, y >>
  <2> HIDE DEF x, y
  <2> QED BY AppendedOne, AppendedTwo
<1>3. rrcResets(sdu.lcid, Told(s, sdu))
  <2>1. u # << >>
    OBVIOUS
  <2> HIDE DEF u
  <2>2. Decoded(s, sdu).out = sdu.bytes
    BY DEF Decoded, rlc_decode
  <2>3. Told(s, sdu) = sdu.bytes
    BY <2>2 DEF Told, pdcp_decode, AM
  <2> QED BY <2>1, <2>3 DEF rrcResets, u
<1>4. r.buffer = Empty
  BY <1>3, HandleBuffer
<1> HIDE DEF r, x, y
<1> QED BY <1>1, <1>2, <1>4 DEF r, x, y

LEMMA PacketServed ==
  ASSUME NEW s, StateOK(s), s.answers = << >>, s.rx.poll = FALSE,
         NEW sdu, sdu.lcid = 3, NEW T, s.buffer[1] \in Seq(T)
  PROVE  LET r == Handle(s, sdu) IN
         /\ r.answers = << >> \/ \E m : r.answers = << Reply(m) >>
         /\ r.buffer[1] \in Seq(T)
<1> DEFINE r == Handle(s, sdu)
<1>1. r.answers = << >> \/ \E m : r.answers = Append(<< >>, Reply(m))
  <2> DEFINE R(m) == Reply(m)
  <2>1. r.answers = s.answers \/ \E m : r.answers = Append(s.answers, R(m))
    BY PacketAnswered
  <2> HIDE DEF r, R
  <2> QED BY <2>1 DEF R
<1>2. \A m : Append(<< >>, Reply(m)) = << Reply(m) >>
  <2> DEFINE R(m) == Reply(m)
  <2> HIDE DEF R
  <2>1. \A m : Append(<< >>, R(m)) = << R(m) >>
    BY AppendedOne
  <2> QED BY <2>1 DEF R
<1>3. r.buffer[1] \in Seq(T)
  <2>1. sdu.lcid # 1
    OBVIOUS
  <2> QED BY <2>1, BufferOne
<1> HIDE DEF r
<1> QED BY <1>1, <1>2, <1>3 DEF r

LEMMA BlockServed ==
  ASSUME ProtocolInv, up # << >>, UpKind(Head(up).sdus),
         NEW T, rlc_sdu_buffer[1] \in Seq(T), SaysIn(Head(up).sdus, T)
  PROVE  ServedAs(Result(Head(up).pdu), Head(up).sdus, T)
<1> DEFINE block == Head(up)
           sdus == block.sdus
<1>1. block \in Block(test_IP)
  BY HeadTailProperties DEF ProtocolInv, UpOK
<1>2. sdus \in Seq(PhoneSdu(test_IP)) /\ sdus # << >> /\ mac_decode(block.pdu) = sdus
  <2> HIDE DEF block
  <2> QED BY <1>1, BlockDecodes
<1>3. UpKind(sdus) /\ SaysIn(sdus, T)
  OBVIOUS
<1> HIDE DEF block, sdus
<1> DEFINE n == Len(sdus)
<1>4. n \in Nat \ {0}
  BY <1>2
<1>5. PICK after : HandledUpto(after, Begin, sdus, n) /\ Result(block.pdu) = after[n]
  BY <1>2, <1>4, ResultUnfolds
<1>6. \A k \in 0 .. n : StateOK(after[k])
  BY <1>2, <1>5, BeginOK, HandledKeeps
<1>7. after[0] = Begin /\ \A k \in 1 .. n : after[k] = Handle(after[k - 1], sdus[k])
  <2>1. \A k \in 0 .. n : after[k] = IF k = 0 THEN Begin ELSE Handle(after[k - 1], sdus[k])
    BY <1>5 DEF HandledUpto
  <2> QED BY <1>4, <2>1
<1>8. /\ Begin.answers = << >> /\ Begin.rx.poll = FALSE /\ StateOK(Begin)
      /\ Begin.buffer[1] \in Seq(T)
  BY BeginOK DEF Begin
<1> DEFINE r == after[n]
<1>9. \A k \in 1 .. n : sdus[k] \in PhoneSdu(test_IP)
  BY <1>2, ElementOfSeq
<1>10. n = 1 => r = Handle(Begin, sdus[1])
  <2>1. n = 1 => 1 \in 1 .. n /\ 1 - 1 = 0
    OBVIOUS
  <2> QED BY <1>7, <2>1
<1>11. ASSUME NEW id \in ConnIds, AsksFor(sdus, id) PROVE ServedAs(r, sdus, T)
  <2> DEFINE d == sdus[1]
  <2>1. n = 1 /\ d.lcid = 0 /\ d.bytes = << MsgUnit("request", id) >>
    BY <1>11 DEF AsksFor
  <2> HIDE DEF d
  <2>2. /\ Handle(Begin, d).answers = << Echo(id), Setup(id) >>
        /\ Handle(Begin, d).buffer = Empty
    BY <1>8, <2>1, AskServed
  <2>3. r = Handle(Begin, d)
    BY <1>10, <2>1 DEF d
  <2> HIDE DEF r
  <2>4. r.answers = << Echo(id), Setup(id) >> /\ r.buffer = Empty
    BY <2>2, <2>3
  <2> QED BY <1>11, <2>4 DEF ServedAs, ServedAsk
<1>12. ASSUME n = 1 /\ sdus[1].lcid = 3 PROVE ServedAs(r, sdus, T)
  <2> DEFINE d == sdus[1]
             R(m) == << Reply(m) >>
  <2>1. d.lcid = 3
    BY <1>12
  <2> HIDE DEF d
  <2>2. /\ Handle(Begin, d).answers = << >> \/ \E m : Handle(Begin, d).answers = R(m)
        /\ Handle(Begin, d).buffer[1] \in Seq(T)
    BY <1>8, <2>1, PacketServed
  <2>3. r = Handle(Begin, d)
    BY <1>10, <1>12 DEF d
  <2> HIDE DEF r, R
  <2>4. (r.answers = << >> \/ \E m : r.answers = R(m)) /\ r.buffer[1] \in Seq(T)
    BY <2>2, <2>3
  <2>5. ServedPacket(r, sdus, T)
    BY <1>12, <2>4 DEF ServedPacket, R
  <2> QED BY <2>5 DEF ServedAs
<1>13. ASSUME n = 1 /\ sdus[1].lcid = 1 PROVE ServedAs(r, sdus, T)
  <2> DEFINE d == sdus[1]
  <2>1. d.lcid = 1 /\ d \in PhoneSdu(test_IP) /\ d.bytes \in Seq(T)
    BY <1>3, <1>9, <1>13 DEF SaysIn
  <2> HIDE DEF d
  <2>2. Handle(Begin, d).buffer[1] \in Seq(T) /\ AnswersTo(Handle(Begin, d).answers, d, T)
    BY <1>8, <2>1, SignalServed
  <2>3. r = Handle(Begin, d)
    BY <1>10, <1>13 DEF d
  <2> HIDE DEF r
  <2>4. r.buffer[1] \in Seq(T) /\ AnswersTo(r.answers, d, T)
    BY <2>2, <2>3
  <2>5. \A k \in 1 .. n : sdus[k].lcid = 1
    <3>1. \A k \in 1 .. n : k = 1
      BY <1>13
    <3> QED BY <1>13, <3>1
  <2>6. AnswersTo(r.answers, sdus[n], T) /\ n \in {1, 2} /\ n # 2
    BY <1>13, <2>4 DEF d
  <2>7. ServedSignal(r, sdus, T)
    BY <2>4, <2>5, <2>6 DEF ServedSignal
  <2> QED BY <2>7 DEF ServedAs
<1>14. ASSUME n = 2 /\ StatusOnly(sdus[1]) /\ sdus[2].lcid = 1 PROVE ServedAs(r, sdus, T)
  <2> DEFINE d == sdus[1]
             e == sdus[2]
             s == after[1]
  <2>1. /\ StatusOnly(d) /\ d \in PhoneSdu(test_IP) /\ d.lcid = 1
        /\ e.lcid = 1 /\ e \in PhoneSdu(test_IP) /\ e.bytes \in Seq(T)
    BY <1>3, <1>9, <1>14 DEF SaysIn, StatusOnly
  <2>2. s = Handle(Begin, d) /\ r = Handle(s, e) /\ StateOK(s)
    <3>1. 1 \in 1 .. n /\ 1 - 1 = 0 /\ 2 \in 1 .. n /\ 2 - 1 = 1 /\ 1 \in 0 .. n
      BY <1>14
    <3> QED BY <1>6, <1>7, <1>14, <3>1
  <2> HIDE DEF d, e, s, r
  <2>3. s.answers = << >> /\ ~ s.rx.poll /\ s.buffer[1] \in Seq(T)
    <3> DEFINE q == Handle(Begin, d)
    <3>1. q.answers = Begin.answers /\ ~ q.rx.poll /\ q.buffer[1] \in Seq(T)
      BY <1>8, <2>1, StatusServed
    <3>2. s = q
      BY <2>2
    <3> HIDE DEF q
    <3> QED BY <1>8, <3>1, <3>2
  <2>4. r.buffer[1] \in Seq(T) /\ AnswersTo(r.answers, e, T)
    <3> DEFINE q == Handle(s, e)
    <3>1. q.buffer[1] \in Seq(T) /\ AnswersTo(q.answers, e, T)
      BY <2>1, <2>2, <2>3, SignalServed
    <3>2. r = q
      BY <2>2
    <3> HIDE DEF q
    <3> QED BY <3>1, <3>2
  <2>5. ~ Head(d.bytes).p
    BY <2>1, StatusUnpolled
  <2>6. \A k \in 1 .. n : sdus[k].lcid = 1
    <3>1. \A k \in 1 .. n : k = 1 \/ k = 2
      BY <1>14
    <3> QED BY <2>1, <3>1 DEF d, e
  <2>7. AnswersTo(r.answers, sdus[n], T) /\ ~ Head(sdus[1].bytes).p
    BY <1>14, <2>4, <2>5 DEF d, e
  <2>8. ServedSignal(r, sdus, T)
    BY <1>14, <2>4, <2>6, <2>7 DEF ServedSignal
  <2> QED BY <2>8 DEF ServedAs
<1>15. ServedAs(r, sdus, T)
  <2> HIDE DEF r
  <2> QED BY <1>3, <1>11, <1>12, <1>13, <1>14 DEF UpKind
<1> QED BY <1>5, <1>15 DEF block, sdus

----------------------------------------------------------------------------
(* What the phone hears of a block. *)

\* A block that brings the set-up of the connection id, and one that brings none.
Opened(pdu, id) ==
  LET a == PhoneSdus(pdu) IN
  /\ Len(a) = 2
  /\ a[1].lcid = 28 /\ a[1].bytes = << MsgUnit("request", id) >>
  /\ a[2].lcid = 0 /\ a[2].bytes = << MsgUnit("setup", id) >>

Closed(pdu) ==
  LET a == PhoneSdus(pdu) IN \A k \in 1 .. Len(a) : a[k].lcid # 28

\* A message on channel 1 of the connection id.
Addressed(x, id) ==
  x.lcid = 1 /\ Head(x.bytes).dc = "data" => Len(x.bytes) = 4 /\ x.bytes[3].id = id

ConfinedTo(pdu, id) ==
  LET a == PhoneSdus(pdu) IN \A k \in 1 .. Len(a) : Addressed(a[k], id)

\* The phone hears what is in a, or the beginning of it.
LEMMA BlockSays ==
  ASSUME NEW a, Bytefull(a), a # << >>, NEW size
  PROVE  /\ (\A k \in 1 .. Len(a) : a[k].lcid # 28) => Closed(InBlock(a, size))
         /\ \A id : (\A k \in 1 .. Len(a) : Addressed(a[k], id)) => ConfinedTo(InBlock(a, size), id)
<1> DEFINE sdus == PhoneSdus(InBlock(a, size))
           m == Complete(a, size)
<1>1. /\ m \in 0 .. Len(a) /\ Len(sdus) = m
      /\ \A k \in 1 .. m : sdus[k].lcid = a[k].lcid /\ sdus[k].bytes = a[k].bytes
  BY PhoneHears
<1>2. Len(a) \in Nat
  BY DEF Bytefull, Sequence
<1> HIDE DEF sdus, m
<1>3. \A k \in 1 .. m : k \in 1 .. Len(a)
  BY <1>1, <1>2
<1>4. (\A k \in 1 .. Len(a) : a[k].lcid # 28) => Closed(InBlock(a, size))
  BY <1>1, <1>3 DEF Closed, sdus
<1>5. ASSUME NEW id, \A k \in 1 .. Len(a) : Addressed(a[k], id)
      PROVE  ConfinedTo(InBlock(a, size), id)
  <2>1. \A k \in 1 .. Len(sdus) : Addressed(sdus[k], id)
    BY <1>1, <1>3, <1>5 DEF Addressed
  <2> QED BY <2>1 DEF ConfinedTo, sdus
<1> QED BY <1>4, <1>5

LEMMA SetupSays ==
  ASSUME NEW id, RrcBlock >= 153
  PROVE  Opened(InBlock(<< Echo(id), Setup(id) >>, RrcBlock), id)
<1> DEFINE x == Echo(id)
           y == Setup(id)
           a == << x, y >>
<1>1. AllHeard(a)
  BY SetupHeard
<1>2. x.lcid = 28 /\ x.bytes = << MsgUnit("request", id) >>
  BY DEF Echo
<1>3. y.lcid = 0 /\ y.bytes = << MsgUnit("setup", id) >>
  BY DEF Setup
<1> HIDE DEF x, y
<1>4. Len(a) = 2 /\ a[1] = x /\ a[2] = y
  OBVIOUS
<1> HIDE DEF a
<1>5. Opened(InBlock(a, RrcBlock), id)
  <2> DEFINE sdus == PhoneSdus(InBlock(a, RrcBlock))
  <2>1. Len(sdus) = Len(a) /\ \A k \in 1 .. Len(a) : sdus[k].lcid = a[k].lcid /\ sdus[k].bytes = a[k].bytes
    BY <1>1 DEF AllHeard
  <2> HIDE DEF sdus
  <2>2. 1 \in 1 .. 2 /\ 2 \in 1 .. 2
    OBVIOUS
  <2> QED BY <1>2, <1>3, <1>4, <2>1, <2>2 DEF Opened, sdus
<1> QED BY <1>5 DEF a, x, y

\* A packet on channel 3, alone in its block.
LEMMA PacketSays ==
  ASSUME NEW m, NEW u, NEW size
  PROVE  LET pdu == InBlock(<< ThreeSdu(m, u) >>, size) IN
         Closed(pdu) /\ \A id : ConfinedTo(pdu, id)
<1> DEFINE x == ThreeSdu(m, u)
           a == << x >>
<1>1. Speakable(x) /\ x.lcid = 3
  <2> DEFINE h == DataHeader(m)
             v == PdcpData
             b == << h, v, u >>
  <2>1. x.lcid = 3 /\ x.bytes = b
    BY DEF ThreeSdu
  <2>2. b \in Seq({h, v, u}) /\ b # << >>
    <3> HIDE DEF h, v
    <3> QED OBVIOUS
  <2> HIDE DEF x, b, h, v
  <2> QED BY <2>1, <2>2, SeqIsSequence DEF Speakable, Channel
<1> HIDE DEF x
<1>2. Sequence(a) /\ Len(a) = 1 /\ a[1] = x /\ a # << >>
  BY OneIsSequence
<1> HIDE DEF a
<1>3. \A k \in 1 .. Len(a) : Speakable(a[k]) /\ a[k].lcid = 3
  <2>1. \A k \in 1 .. Len(a) : k = 1
    BY <1>2
  <2> QED BY <1>1, <1>2, <2>1
<1>4. Bytefull(a) /\ \A k \in 1 .. Len(a) : a[k].lcid # 28 /\ \A id : Addressed(a[k], id)
  BY <1>2, <1>3 DEF Bytefull, Addressed
<1>5. Closed(InBlock(a, size)) /\ \A id : ConfinedTo(InBlock(a, size), id)
  BY <1>2, <1>4, BlockSays
<1> QED BY <1>5 DEF a, x

\* The answers to a message speak of its connection.
LEMMA RepliesSay ==
  ASSUME NEW a, NEW id, Replies(a, id), NEW n, NEW b, b = a \/ b = Append(a, ReportSdu(n))
  PROVE  \A k \in 1 .. Len(b) :
           b[k].lcid = 1 /\ (Head(b[k].bytes).dc = "data" => a # << >> /\ Addressed(b[k], id))
<1> DEFINE Fine(x) == x.lcid = 1 /\ (Head(x.bytes).dc = "data" => a # << >> /\ Addressed(x, id))
           z == ReportSdu(n)
<1>1. Fine(z)
  <2>1. z.lcid = 1 /\ z.bytes = StatusReport(n)
    BY DEF ReportSdu
  <2>2. Head(StatusReport(n)).dc = "status"
    BY DEF StatusReport
  <2> HIDE DEF z
  <2> QED BY <2>1, <2>2
<1>2. ASSUME NEW type, NEW m, a # << >> PROVE Fine(Command(type, id, m))
  <2> DEFINE x == Command(type, id, m)
             p == MessageHeader(m)
             q == PdcpData
             r == MsgUnit(type, id)
             s == MacI
             c == << p, q, r, s >>
  <2>1. x.lcid = 1 /\ x.bytes = c
    BY DEF Command
  <2>2. r.id = id
    BY DEF MsgUnit
  <2> HIDE DEF x, p, q, r, s
  <2>3. Len(c) = 4 /\ c[3] = r
    OBVIOUS
  <2> HIDE DEF c
  <2>4. Fine(x)
    BY <1>2, <2>1, <2>2, <2>3 DEF Addressed
  <2> HIDE DEF Fine
  <2> QED BY <2>4 DEF x
<1> HIDE DEF z
<1>3. ASSUME NEW type, NEW m, a = << Command(type, id, m) >>
      PROVE  \A k \in 1 .. Len(b) : Fine(b[k])
  <2> DEFINE x == Command(type, id, m)
  <2>1. a # << >>
    BY <1>3
  <2>2. Fine(x)
    BY <1>2, <2>1
  <2>3. a = << x >>
    BY <1>3
  <2> HIDE DEF x, Fine
  <2>4. b = << x >> \/ b = << x, z >>
    BY <2>3, AppendedTwo DEF z
  <2> QED BY <1>1, <2>2, <2>4
<1>4. ASSUME NEW k, NEW m, a = << Command("detachAccept", id, k), Command("release", id, m) >>
      PROVE  \A i \in 1 .. Len(b) : Fine(b[i])
  <2> DEFINE x == Command("detachAccept", id, k)
             y == Command("release", id, m)
  <2>1. a # << >>
    BY <1>4
  <2>2. Fine(x) /\ Fine(y)
    BY <1>2, <2>1
  <2>3. a = << x, y >>
    BY <1>4
  <2> HIDE DEF x, y, Fine
  <2>4. b = << x, y >> \/ b = << x, y, z >>
    BY <2>3, AppendedThree DEF z
  <2> QED BY <1>1, <2>2, <2>4
<1>5. ASSUME a = << >> PROVE \A k \in 1 .. Len(b) : Fine(b[k])
  <2> HIDE DEF Fine
  <2>1. b = << >> \/ b = << z >>
    BY <1>5, AppendedOne DEF z
  <2> QED BY <1>1, <2>1
<1> HIDE DEF Fine
<1>6. \A k \in 1 .. Len(b) : Fine(b[k])
  BY <1>3, <1>4, <1>5 DEF Replies
<1> QED BY <1>6 DEF Fine

\* What the phone hears of the answers to an SDU on channel 1.
LEMMA AnswersSay ==
  ASSUME NEW b, NEW sdu, NEW T, AnswersTo(b, sdu, T), b # << >>, RrcBlock >= 153
  PROVE  LET pdu == InBlock(b, RrcBlock) IN
         /\ Bytefull(b) /\ AllHeard(b) /\ Closed(pdu)
         /\ \A id : (\A c : SpeaksOf(T, c) => c = id) => ConfinedTo(pdu, id)
<1>0. DEFINE h == Head(sdu.bytes)
             z == ReportSdu(h.sn)
<1>1. PICK a, i : /\ Replies(a, i) /\ (a # << >> => SpeaksOf(T, i))
                  /\ b = IF h.p THEN Append(a, z) ELSE a
  BY DEF AnswersTo
<1>2. b = a \/ b = Append(a, z)
  <2> HIDE DEF z, h
  <2> QED BY <1>1
<1>3. Bytefull(b) /\ AllHeard(b)
  BY <1>1, <1>2, RepliesHeard
<1>4. \A k \in 1 .. Len(b) :
        b[k].lcid = 1 /\ (Head(b[k].bytes).dc = "data" => a # << >> /\ Addressed(b[k], i))
  <2>1. Replies(a, i) /\ (b = a \/ b = Append(a, ReportSdu(h.sn)))
    BY <1>1, <1>2
  <2> HIDE DEF h
  <2> QED BY ONLY <2>1, RepliesSay
<1>5. ASSUME NEW id, \A c : SpeaksOf(T, c) => c = id
      PROVE  \A k \in 1 .. Len(b) : Addressed(b[k], id)
  <2>1. a # << >> => i = id
    BY <1>1, <1>5
  <2> QED BY <1>4, <2>1 DEF Addressed
<1>6. \A k \in 1 .. Len(b) : b[k].lcid # 28
  BY <1>4
<1> QED BY <1>3, <1>5, <1>6, BlockSays

----------------------------------------------------------------------------
(* What the phone says is of its own connection. *)

\* Units that belong to no connection but id.
OwnSet(id) == {u \in Unit : u.kind = "msg" => u.id = id}

LEMMA SpeaksOfOwn ==
  ASSUME NEW id
  PROVE  \A c : SpeaksOf(OwnSet(id), c) => c = id
BY DEF SpeaksOf, OwnSet

LEMMA OwnPart ==
  ASSUME NEW id, NEW h \in Header, NEW t \in Seq(OwnSet(id))
  PROVE  << h >> \o t \in Seq(OwnSet(id))
<1>1. h \in OwnSet(id)
  <2>1. h \in Unit /\ h.kind = "rlc"
    BY DEF Unit, Header
  <2> QED BY <2>1 DEF OwnSet
<1> DEFINE T == OwnSet(id)
<1>2. h \in T /\ t \in Seq(T)
  BY <1>1
<1> HIDE DEF T
<1>3. << h >> \o t \in Seq(T)
  BY <1>2
<1> QED BY <1>3 DEF T

LEMMA OwnReport ==
  ASSUME NEW id, NEW n \in Nat
  PROVE  StatusReport(n) \in Seq(OwnSet(id))
<1> DEFINE u == [kind |-> "rlc", dc |-> "status", p |-> FALSE, e |-> 0,
                 first |-> TRUE, last |-> TRUE, sn |-> (n + 1) % SnMod]
           T == OwnSet(id)
<1>1. (n + 1) % SnMod \in 0 .. SnMod - 1
  BY RlcAssumption, RemainderRange
<1>2. u \in StatusHeader
  BY <1>1 DEF StatusHeader
<1>3. u.kind = "rlc"
  OBVIOUS
<1>4. StatusReport(n) = << u >>
  BY DEF StatusReport
<1> HIDE DEF u
<1>5. u \in T
  BY <1>2, <1>3 DEF OwnSet, Unit
<1> HIDE DEF T
<1>6. << u >> \in Seq(T)
  BY <1>5
<1> QED BY <1>4, <1>6 DEF T

\* The header of a fragment of a message.
LEMMA HeaderMade ==
  ASSUME NEW msg \in Seq(Plain), NEW first \in BOOLEAN, NEW last \in BOOLEAN, NEW n \in Nat
  PROVE  [kind |-> "rlc", dc |-> "data", p |-> (1 \in AM /\ last), e |-> 0,
          first |-> first, last |-> last, sn |-> n % SnMod, whole |-> msg] \in Header
<1>1. n % SnMod \in 0 .. SnMod - 1
  BY RlcAssumption, RemainderRange
<1>2. (1 \in AM /\ last) \in BOOLEAN
  OBVIOUS
<1> QED BY <1>1, <1>2 DEF Header

LEMMA OwnFragments ==
  ASSUME NEW id, NEW msg \in Seq(Plain), msg \in Seq(OwnSet(id)), NEW cut \in Cuts(msg),
         Len(msg) > 1, NEW n \in Nat
  PROVE  Fragments(1, msg, cut, n) \in Seq(Seq(OwnSet(id)))
<1> DEFINE head(first, last, k) ==
             [kind |-> "rlc", dc |-> "data", p |-> (1 \in AM /\ last), e |-> 0,
              first |-> first, last |-> last, sn |-> k % SnMod, whole |-> msg]
           part(first, last, k, t) == << head(first, last, k) >> \o t
           T == OwnSet(id)
           F == Seq(T)
<1>0. Len(msg) \in Nat
  OBVIOUS
<1>1. ASSUME NEW first \in BOOLEAN, NEW last \in BOOLEAN, NEW k \in Nat, NEW t \in F
      PROVE  part(first, last, k, t) \in F
  <2>1. head(first, last, k) \in Header
    BY HeaderMade
  <2> HIDE DEF head
  <2> QED BY <2>1, OwnPart
<1>2. CASE cut = Len(msg)
  <2> DEFINE x == part(TRUE, TRUE, n, msg)
  <2>1. Fragments(1, msg, cut, n) = << x >>
    BY <1>2 DEF Fragments
  <2>2. x \in F
    <3> HIDE DEF part
    <3> QED BY <1>1
  <2> HIDE DEF x, F
  <2>3. << x >> \in Seq(F)
    BY <2>2
  <2> QED BY <2>1, <2>3 DEF F
<1>3. CASE cut # Len(msg)
  <2> DEFINE a == SubSeq(msg, 1, cut)
             b == SubSeq(msg, cut + 1, Len(msg))
             x == part(TRUE, FALSE, n, a)
             y == part(FALSE, TRUE, n + 1, b)
  <2>1. cut = Len(msg) - 1
    BY <1>3 DEF Cuts
  <2>2. Fragments(1, msg, cut, n) = << x, y >>
    BY <1>3 DEF Fragments
  <2>3. \A i \in 1 .. Len(msg) : msg[i] \in T
    <3> HIDE DEF T
    <3> QED BY DEF T
  <2> HIDE DEF T
  <2>4. a \in F
    <3>1. \A i \in 1 .. cut : msg[i] \in T
      BY <1>0, <2>1, <2>3
    <3>2. 1 \in Int /\ cut \in Int
      BY <1>0, <2>1
    <3> QED BY <3>1, <3>2, SubSeqProperties
  <2>5. b \in F
    <3>1. \A i \in cut + 1 .. Len(msg) : msg[i] \in T
      BY <1>0, <2>1, <2>3
    <3>2. cut + 1 \in Int /\ Len(msg) \in Int
      BY <1>0, <2>1
    <3> QED BY <3>1, <3>2, SubSeqProperties
  <2>6. x \in F /\ y \in F
    <3>1. n + 1 \in Nat
      OBVIOUS
    <3> HIDE DEF part, a, b
    <3> QED BY <1>1, <2>4, <2>5, <3>1
  <2> HIDE DEF x, y, F
  <2>7. << x, y >> \in Seq(F)
    BY <2>6
  <2> QED BY <2>2, <2>7 DEF F, T
<1> QED BY <1>2, <1>3

LEMMA OwnSay ==
  ASSUME conn \in 0 .. ConnMod - 1, NEW type \in Types
  PROVE  Say(type) \in Seq(OwnSet(conn))
<1> DEFINE unit == [kind |-> "msg", type |-> type, id |-> conn, k |-> 1]
           T == OwnSet(conn)
<1>1. unit \in Plain /\ PdcpData \in Plain /\ MacI \in Plain
  BY DEF Plain
<1>2. unit.id = conn /\ PdcpData.kind # "msg" /\ MacI.kind # "msg"
  BY DEF PdcpData, MacI
<1>3. Say(type) = << PdcpData >> \o << unit >> \o << MacI >>
  BY DEF Say, pdcp_encode, AM
<1> HIDE DEF unit
<1>4. unit \in T /\ PdcpData \in T /\ MacI \in T
  BY <1>1, <1>2 DEF OwnSet, Unit
<1> DEFINE p == PdcpData
           m == MacI
<1>5. p \in T /\ m \in T
  BY <1>4
<1> HIDE DEF T, p, m
<1>6. << p >> \in Seq(T) /\ << unit >> \in Seq(T) /\ << m >> \in Seq(T)
  BY <1>4, <1>5
<1>7. << p >> \o << unit >> \in Seq(T)
  BY <1>6, ConcatProperties
<1>8. (<< p >> \o << unit >>) \o << m >> \in Seq(T)
  BY <1>6, <1>7, ConcatProperties
<1> QED BY <1>3, <1>8 DEF T, p, m

LEMMA OwnSaid ==
  ASSUME PhoneOK, NEW type \in Types
  PROVE  Say(type) \in Seq(Plain) /\ Len(Say(type)) > 1 /\ Say(type) \in Seq(OwnSet(conn))
<1>1. conn \in 0 .. ConnMod - 1
  BY DEF PhoneOK
<1>2. Say(type) \in Seq(Plain) /\ Len(Say(type)) = 3
  BY ONLY <1>1, type \in Types, SayIsPlain
<1>3. Say(type) \in Seq(OwnSet(conn))
  BY ONLY <1>1, type \in Types, OwnSay
<1> HIDE DEF Say
<1>4. Len(Say(type)) > 1
  BY ONLY <1>2
<1> QED BY <1>2, <1>3, <1>4

\* A message, or the two last ones, are queued.
LEMMA OwnQueued ==
  ASSUME PhoneOK, NEW type \in Types, NEW next, Enqueue(type, next)
  PROVE  /\ \E parts \in Seq(Seq(OwnSet(conn))) : sending' = [sending EXCEPT ![1] = parts]
         /\ phase' = next
<1>1. Say(type) \in Seq(Plain) /\ Len(Say(type)) > 1 /\ Say(type) \in Seq(OwnSet(conn))
  BY OwnSaid
<1>2. PICK cut \in Cuts(Say(type)) :
        sending' = [sending EXCEPT ![1] = Fragments(1, Say(type), cut, vt)] /\ phase' = next
  BY DEF Enqueue
<1>3. vt \in Nat
  BY DEF PhoneOK
<1>4. Fragments(1, Say(type), cut, vt) \in Seq(Seq(OwnSet(conn)))
  BY <1>1, <1>2, <1>3, OwnFragments
<1> QED BY <1>2, <1>4

LEMMA OwnCompletes ==
  ASSUME PhoneOK, EnqueueCompletes
  PROVE  /\ \E parts \in Seq(Seq(OwnSet(conn))) : sending' = [sending EXCEPT ![1] = parts]
         /\ phase' = "completing"
<1> DEFINE first == Say("reconfigurationComplete")
           second == Say("attachComplete")
           F == Seq(OwnSet(conn))
<1>1. /\ first \in Seq(Plain) /\ Len(first) > 1 /\ first \in F
      /\ second \in Seq(Plain) /\ Len(second) > 1 /\ second \in F
  BY OwnSaid DEF Types
<1>2. vt \in Nat /\ vt + 1 \in Nat
  BY DEF PhoneOK
<1> HIDE DEF first, second
<1>3. PICK cut \in Cuts(second) :
        /\ sending' = [sending EXCEPT
             ![1] = Fragments(1, first, Len(first), vt) \o Fragments(1, second, cut, vt + 1)]
        /\ phase' = "completing"
  BY DEF EnqueueCompletes, first, second
<1>4. Len(first) \in Cuts(first)
  BY DEF Cuts
<1> DEFINE a == Fragments(1, first, Len(first), vt)
           b == Fragments(1, second, cut, vt + 1)
<1>5. a \in Seq(F)
  BY ONLY <1>1, <1>2, <1>4, OwnFragments
<1>6. b \in Seq(F)
  BY ONLY <1>1, <1>2, <1>3, OwnFragments
<1>7. sending' = [sending EXCEPT ![1] = a \o b]
  BY <1>3
<1> HIDE DEF a, b, F
<1>8. a \o b \in Seq(F)
  BY <1>5, <1>6
<1> QED BY <1>3, <1>7, <1>8 DEF F

----------------------------------------------------------------------------
(***************************************************************************)
(* What every step keeps: a phone speaks in one connection at a time.  The *)
(* requests on their way are those of the last few connections, one for    *)
(* each trouble, and so are the set-ups; the one of the phone's own        *)
(* connection is the last thing on its way.  All the rest belongs to the   *)
(* connection that is established.                                         *)
(***************************************************************************)
PhoneShape ==
  /\ sending[2] = << >>
  /\ phase # "request" => sending[0] = << >>
  /\ phase = "request" => sending[1] = << >> /\ sending[3] = << >> /\ unacked = << >>
  /\ sending[3] # << >> => phase = "attached"
  /\ phase = "attached" => sending[1] = << >>
  /\ sending[0] # << >> => sending[0] = << << MsgUnit("request", conn) >> >>

\* The connection id was begun at most as many time-outs ago as there were troubles.
Awaits(id) ==
  phase = "request" /\ \E j \in 0 .. trouble : (id + j) % ConnMod = conn

Asked(block, id) == AsksFor(block.sdus, id)

AsksOK ==
  \A i \in 1 .. Len(up) :
    /\ UpKind(up[i].sdus)
    /\ \A id \in ConnIds : Asked(up[i], id) =>
         Awaits(id) /\ (id = conn => i = Len(up) /\ sending = Empty)

SetupsOK ==
  \A i \in 1 .. Len(down) :
    /\ Closed(down[i]) \/ \E id \in ConnIds : Opened(down[i], id)
    /\ \A id \in ConnIds : Opened(down[i], id) =>
         /\ Awaits(id)
         /\ id = conn => /\ i = Len(down) /\ up = << >>
                         /\ sending = Empty /\ rlc_sdu_buffer = Empty

OwnOK ==
  phase # "request" =>
    /\ sending[1] \in Seq(Seq(OwnSet(conn)))
    /\ unacked \in Seq(OwnSet(conn)) /\ rlc_sdu_buffer[1] \in Seq(OwnSet(conn))
    /\ \A i \in 1 .. Len(up) : SaysIn(up[i].sdus, OwnSet(conn))
    /\ \A i \in 1 .. Len(down) : ConfinedTo(down[i], conn)

DialogueInv == PhoneShape /\ AsksOK /\ SetupsOK /\ OwnOK

LEMMA DialogueBegins == Init => DialogueInv
<1> SUFFICES ASSUME Init PROVE DialogueInv
  OBVIOUS
<1>1. /\ Empty[0] = << >> /\ Empty[1] = << >> /\ Empty[2] = << >> /\ Empty[3] = << >>
      /\ 1 \in Channel
  BY DEF Empty, Channel
<1>2. PhoneShape
  BY <1>1 DEF Init, PhoneShape
<1>3. Len(up) = 0 /\ Len(down) = 0
  BY DEF Init
<1>4. AsksOK /\ SetupsOK
  BY <1>3 DEF AsksOK, SetupsOK
<1>5. OwnOK
  <2>1. << >> \in Seq(OwnSet(conn)) /\ << >> \in Seq(Seq(OwnSet(conn)))
    OBVIOUS
  <2> QED BY <1>1, <1>3, <2>1 DEF OwnOK, Init
<1> QED BY <1>2, <1>4, <1>5 DEF DialogueInv

\* The queues, and what is left of them.
LEMMA Queues ==
  ASSUME ProtocolInv
  PROVE  /\ Sequence(up) /\ Sequence(down) /\ Len(up) \in Nat /\ Len(down) \in Nat
         /\ trouble \in 0 .. MaxTrouble /\ conn \in ConnIds /\ ConnMod \in Nat \ {0}
BY SeqIsSequence, EndToEndAssumption DEF ProtocolInv, UpOK, DownOK, Headed, PhoneOK, ConnIds, Sequence

Shrinks(s, t) ==
  \/ t = s
  \/ s # << >> /\ t = Tail(s)

LEMMA ShrunkQueue ==
  ASSUME NEW s, Sequence(s), NEW t, Shrinks(s, t)
  PROVE  /\ Len(t) \in Nat /\ Sequence(t)
         /\ \A i \in 1 .. Len(t) : \E j \in 1 .. Len(s) :
              t[i] = s[j] /\ (j = Len(s) <=> i = Len(t))
<1>1. CASE t = s
  BY <1>1 DEF Sequence
<1>2. CASE s # << >> /\ t = Tail(s)
  <2>1. /\ Sequence(t) /\ Len(t) = Len(s) - 1 /\ Len(s) \in Nat \ {0}
        /\ \A i \in 1 .. Len(t) : t[i] = s[i + 1]
    BY <1>2, TailSequence
  <2>2. ASSUME NEW i \in 1 .. Len(t)
        PROVE  \E j \in 1 .. Len(s) : t[i] = s[j] /\ (j = Len(s) <=> i = Len(t))
    <3>1. i + 1 \in 1 .. Len(s) /\ (i + 1 = Len(s) <=> i = Len(t))
      BY <2>1
    <3> QED BY <2>1, <3>1
  <2>3. Len(t) \in Nat
    BY <2>1
  <2> QED BY <2>1, <2>2, <2>3
<1> QED BY <1>1, <1>2 DEF Shrinks

\* What is awaited stays awaited.
LEMMA AwaitsKept ==
  ASSUME ProtocolInv, UNCHANGED <<phase, conn>>, trouble' = trouble \/ Hit
  PROVE  \A id : Awaits(id) => Awaits(id)'
<1>1. \A j \in 0 .. trouble : j \in 0 .. trouble'
  BY Queues DEF Hit
<1> QED BY <1>1 DEF Awaits

LEMMA AsksKept ==
  ASSUME ProtocolInv, AsksOK, UNCHANGED <<phase, conn>>, sending' = sending,
         trouble' = trouble \/ Hit, Shrinks(up, up')
  PROVE  AsksOK'
<1> SUFFICES ASSUME NEW i \in 1 .. Len(up')
             PROVE  /\ UpKind(up'[i].sdus)
                    /\ \A id \in ConnIds : Asked(up'[i], id) =>
                         Awaits(id)' /\ (id = conn' => i = Len(up') /\ sending' = Empty)
  BY DEF AsksOK, Asked, UpKind, AsksFor, StatusOnly, Empty
<1>1. PICK j \in 1 .. Len(up) : up'[i] = up[j] /\ (j = Len(up) <=> i = Len(up'))
  BY Queues, ShrunkQueue
<1> QED BY <1>1, AwaitsKept DEF AsksOK, Asked

LEMMA SetupsKept ==
  ASSUME ProtocolInv, SetupsOK, UNCHANGED <<phase, conn>>, sending' = sending,
         trouble' = trouble \/ Hit, Shrinks(down, down'),
         up = << >> => up' = << >> /\ rlc_sdu_buffer' = rlc_sdu_buffer
  PROVE  SetupsOK'
<1> SUFFICES ASSUME NEW i \in 1 .. Len(down')
             PROVE  /\ Closed(down'[i]) \/ \E id \in ConnIds : Opened(down'[i], id)
                    /\ \A id \in ConnIds : Opened(down'[i], id) =>
                         /\ Awaits(id)'
                         /\ id = conn' => /\ i = Len(down') /\ up' = << >>
                                          /\ sending' = Empty /\ rlc_sdu_buffer' = Empty
  BY DEF SetupsOK
<1>1. PICK j \in 1 .. Len(down) : down'[i] = down[j] /\ (j = Len(down) <=> i = Len(down'))
  BY Queues, ShrunkQueue
<1> QED BY <1>1, AwaitsKept DEF SetupsOK

\* In an established connection nothing is asked for.
Unasked ==
  \A i \in 1 .. Len(up) : UpKind(up[i].sdus) /\ \A id \in ConnIds : ~ Asked(up[i], id)

Unopened == \A i \in 1 .. Len(down) : Closed(down[i]) /\ \A id \in ConnIds : ~ Opened(down[i], id)

LEMMA Established ==
  ASSUME AsksOK, SetupsOK, phase # "request"
  PROVE  Unasked /\ Unopened
BY DEF AsksOK, SetupsOK, Unasked, Unopened, Awaits

LEMMA QuietAir ==
  ASSUME Unasked, Unopened
  PROVE  AsksOK /\ SetupsOK
BY DEF AsksOK, SetupsOK, Unasked, Unopened

LEMMA QuietAirNext ==
  ASSUME Unasked', Unopened'
  PROVE  AsksOK' /\ SetupsOK'
BY DEF AsksOK, SetupsOK, Unasked, Unopened

LEMMA QuietKept ==
  ASSUME ProtocolInv, Unasked, Unopened, Shrinks(up, up'), Shrinks(down, down')
  PROVE  AsksOK' /\ SetupsOK'
<1>1. Unasked'
  <2>1. ASSUME NEW i \in 1 .. Len(up')
        PROVE  UpKind(up'[i].sdus) /\ \A id \in ConnIds : ~ Asked(up'[i], id)
    <3>1. PICK j \in 1 .. Len(up) : up'[i] = up[j]
      BY Queues, ShrunkQueue
    <3> QED BY <3>1 DEF Unasked
  <2> QED BY <2>1 DEF Unasked
<1>2. Unopened'
  <2>1. ASSUME NEW i \in 1 .. Len(down')
        PROVE  Closed(down'[i]) /\ \A id \in ConnIds : ~ Opened(down'[i], id)
    <3>1. PICK j \in 1 .. Len(down) : down'[i] = down[j]
      BY Queues, ShrunkQueue
    <3> QED BY <3>1 DEF Unopened
  <2> QED BY <2>1 DEF Unopened
<1> QED BY <1>1, <1>2, QuietAirNext

\* What is on its way belongs to the connection, and so does what is left of it.
LEMMA OwnOnAir ==
  ASSUME ProtocolInv, OwnOK, phase # "request", conn' = conn,
         Shrinks(up, up'), Shrinks(down, down')
  PROVE  /\ \A i \in 1 .. Len(up') : SaysIn(up'[i].sdus, OwnSet(conn'))
         /\ \A i \in 1 .. Len(down') : ConfinedTo(down'[i], conn')
<1>1. ASSUME NEW i \in 1 .. Len(up') PROVE SaysIn(up'[i].sdus, OwnSet(conn'))
  <2>1. PICK j \in 1 .. Len(up) : up'[i] = up[j]
    BY Queues, ShrunkQueue
  <2> QED BY <2>1 DEF OwnOK
<1>2. ASSUME NEW i \in 1 .. Len(down') PROVE ConfinedTo(down'[i], conn')
  <2>1. PICK j \in 1 .. Len(down) : down'[i] = down[j]
    BY Queues, ShrunkQueue
  <2> QED BY <2>1 DEF OwnOK
<1> QED BY <1>1, <1>2

LEMMA OwnKept ==
  ASSUME ProtocolInv, OwnOK, UNCHANGED <<phase, conn, unacked>>, sending' = sending,
         phase # "request" => rlc_sdu_buffer'[1] \in Seq(OwnSet(conn)),
         Shrinks(up, up'), Shrinks(down, down')
  PROVE  OwnOK'
<1> SUFFICES ASSUME phase # "request" PROVE OwnOK'
  BY DEF OwnOK
<1> QED BY OwnOnAir DEF OwnOK

LEMMA ShapeKept ==
  ASSUME PhoneShape, UNCHANGED <<phase, conn, unacked>>, sending' = sending
  PROVE  PhoneShape'
BY DEF PhoneShape

LEMMA ClearDialogue ==
  ASSUME ProtocolInv, DialogueInv, clearStats
  PROVE  DialogueInv'
<1>1. UNCHANGED <<phase, conn, sending, unacked, rlc_sdu_buffer, up, down, trouble>>
  BY DEF clearStats, phoneVars
<1>2. Shrinks(up, up') /\ Shrinks(down, down')
  BY <1>1 DEF Shrinks
<1>3. phase # "request" => rlc_sdu_buffer'[1] \in Seq(OwnSet(conn))
  BY <1>1 DEF DialogueInv, OwnOK
<1> QED BY <1>1, <1>2, <1>3, AsksKept, SetupsKept, OwnKept, ShapeKept DEF DialogueInv

LEMMA LossDialogue ==
  ASSUME ProtocolInv, DialogueInv, LoseUp \/ LoseDown
  PROVE  DialogueInv'
<1>1. /\ UNCHANGED <<phase, conn, sending, unacked, rlc_sdu_buffer>> /\ Hit
      /\ Shrinks(up, up') /\ Shrinks(down, down')
      /\ up = << >> => up' = << >>
  BY DEF LoseUp, LoseDown, phoneVars, stationVars, Shrinks
<1>2. phase # "request" => rlc_sdu_buffer'[1] \in Seq(OwnSet(conn))
  BY <1>1 DEF DialogueInv, OwnOK
<1> QED BY <1>1, <1>2, AsksKept, SetupsKept, OwnKept, ShapeKept DEF DialogueInv

\* Nothing but what is sent on channel 1 or 3 of an established connection changes.
LEMMA QueuedDialogue ==
  ASSUME ProtocolInv, DialogueInv, phase # "request", phase' # "request",
         UNCHANGED <<conn, unacked, rlc_sdu_buffer, up, down>>,
         NEW c, c \in {1, 3}, NEW parts, sending' = [sending EXCEPT ![c] = parts],
         \/ c = 1 /\ parts \in Seq(Seq(OwnSet(conn))) /\ sending[3] = << >> /\ phase' # "attached"
         \/ c = 3 /\ phase = "attached" /\ phase' = "attached"
  PROVE  DialogueInv'
<1>1. \A k \in Channel : sending'[k] = IF k = c THEN parts ELSE sending[k]
  BY FourChannels
<1>2. PhoneShape'
  BY <1>1 DEF PhoneShape, DialogueInv, Channel
<1>3. Shrinks(up, up') /\ Shrinks(down, down')
  BY DEF Shrinks
<1>4. AsksOK' /\ SetupsOK'
  BY <1>3, Established, QuietKept DEF DialogueInv
<1>5. sending'[1] \in Seq(Seq(OwnSet(conn)))
  BY <1>1 DEF Channel, DialogueInv, OwnOK
<1>6. OwnOK'
  BY <1>3, <1>5, OwnOnAir DEF DialogueInv, OwnOK
<1> QED BY <1>2, <1>4, <1>6 DEF DialogueInv

LEMMA RetransmitDialogue ==
  ASSUME ProtocolInv, DialogueInv, Retransmit
  PROVE  DialogueInv'
<1>1. /\ phase # "attached" /\ unacked # << >> /\ sending' = [sending EXCEPT ![1] = << unacked >>]
      /\ UNCHANGED <<phase, conn, unacked, rlc_sdu_buffer, up, down>>
  BY DEF Retransmit, Waiting, stationVars
<1>2. phase # "request" /\ sending[3] = << >>
  BY <1>1 DEF DialogueInv, PhoneShape
<1>3. unacked \in Seq(OwnSet(conn))
  BY <1>2 DEF DialogueInv, OwnOK
<1> DEFINE F == Seq(OwnSet(conn))
           parts == << unacked >>
<1>4. parts \in Seq(F)
  <2> HIDE DEF F
  <2> QED BY <1>3 DEF F
<1> HIDE DEF parts
<1>5. sending' = [sending EXCEPT ![1] = parts]
  BY <1>1 DEF parts
<1>6. 1 \in {1, 3} /\ phase' # "request" /\ phase' # "attached"
      /\ UNCHANGED <<conn, unacked, rlc_sdu_buffer, up, down>>
  BY <1>1, <1>2
<1>7. parts \in Seq(Seq(OwnSet(conn)))
  BY <1>4
<1>8. ProtocolInv /\ DialogueInv
  OBVIOUS
<1> QED BY ONLY <1>2, <1>5, <1>6, <1>7, <1>8, QueuedDialogue

LEMMA PacketDialogue ==
  ASSUME ProtocolInv, DialogueInv, SendPacket \/ SendStream \/ SendOther
  PROVE  DialogueInv'
<1>1. /\ phase = "attached" /\ UNCHANGED <<phase, conn, unacked, rlc_sdu_buffer, up, down>>
      /\ \E parts : sending' = [sending EXCEPT ![3] = parts]
  BY DEF SendPacket, SendStream, SendOther, SendTest, stationVars
<1>2. PICK parts : sending' = [sending EXCEPT ![3] = parts]
  BY <1>1
<1>3. 3 \in {1, 3} /\ phase # "request" /\ phase' # "request" /\ phase' = "attached"
      /\ ProtocolInv /\ DialogueInv
  BY <1>1
<1> QED BY ONLY <1>1, <1>2, <1>3, QueuedDialogue

LEMMA DetachDialogue ==
  ASSUME ProtocolInv, DialogueInv, Detach
  PROVE  DialogueInv'
<1>1. /\ phase = "attached" /\ sending = Empty /\ Enqueue("detachRequest", "detachRequest")
      /\ UNCHANGED <<conn, unacked, rlc_sdu_buffer, up, down>>
  BY DEF Detach, stationVars
<1>2. /\ \E parts \in Seq(Seq(OwnSet(conn))) : sending' = [sending EXCEPT ![1] = parts]
      /\ phase' = "detachRequest"
  <2>1. "detachRequest" \in Types /\ PhoneOK
    BY DEF Types, ProtocolInv
  <2> QED BY <1>1, <2>1, OwnQueued
<1>3. sending[3] = << >>
  BY <1>1 DEF Empty, Channel
<1>4. PICK parts \in Seq(Seq(OwnSet(conn))) : sending' = [sending EXCEPT ![1] = parts]
  BY <1>2
<1>5. 1 \in {1, 3} /\ phase # "request" /\ phase' # "request" /\ phase' # "attached"
      /\ ProtocolInv /\ DialogueInv
  BY <1>1, <1>2
<1> QED BY ONLY <1>1, <1>3, <1>4, <1>5, QueuedDialogue

\* A packet of the network goes to a phone that is attached.
LEMMA ScheduleDialogue ==
  ASSUME ProtocolInv, DialogueInv, mac_tx_schedule_IP
  PROVE  DialogueInv'
<1>1. /\ phase = "attached"
      /\ UNCHANGED <<phase, conn, sending, unacked, rlc_sdu_buffer, up, trouble>>
      /\ \/ down' = down
         \/ \E n, size : down' = Append(down, InBlock(mac_tx_get_IP_packets(n), size))
  BY DEF mac_tx_schedule_IP, phoneVars, Queue
<1>2. Unasked /\ Unopened
  BY <1>1, Established DEF DialogueInv
<1>3. PhoneShape'
  BY <1>1, ShapeKept DEF DialogueInv
<1>4. CASE down' = down
  <2>1. Shrinks(up, up') /\ Shrinks(down, down')
    BY <1>1, <1>4 DEF Shrinks
  <2>2. rlc_sdu_buffer'[1] \in Seq(OwnSet(conn))
    BY <1>1 DEF DialogueInv, OwnOK
  <2> QED BY <1>1, <1>2, <1>3, <2>1, <2>2, QuietKept, OwnKept DEF DialogueInv
<1>5. ASSUME NEW n, NEW size, down' = Append(down, InBlock(mac_tx_get_IP_packets(n), size))
      PROVE  DialogueInv'
  <2> DEFINE block == InBlock(mac_tx_get_IP_packets(n), size)
  <2>1. mac_tx_get_IP_packets(n) = << ThreeSdu(rlc_tx_sn[3], NetUnit(n)) >>
    <3>1. mac_tx_get_IP_packets(n)
            = << [lcid |-> 3, bytes |-> rlc_encode(3, rlc_tx_sn[3], pdcp_encode(3, << NetUnit(n) >>))] >>
      BY DEF mac_tx_get_IP_packets, NetUnit
    <3> QED BY <3>1, ThreeEncoded DEF ThreeSdu
  <2>2. Closed(block) /\ \A id : ConfinedTo(block, id)
    BY <2>1, PacketSays
  <2>3. \A id : ~ Opened(block, id)
    BY <2>2 DEF Closed, Opened
  <2> HIDE DEF block
  <2>4. down' = Append(down, block)
    BY <1>5 DEF block
  <2>5. /\ Len(down') = Len(down) + 1 /\ down'[Len(down) + 1] = block
        /\ \A i \in 1 .. Len(down) : down'[i] = down[i]
        /\ Len(down) \in Nat
    BY <2>4, Queues, AppendSequence
  <2>6. \A i \in 1 .. Len(down') : i \in 1 .. Len(down) \/ down'[i] = block
    BY <2>5
  <2>7. Unopened'
    BY <1>2, <2>2, <2>3, <2>5, <2>6 DEF Unopened
  <2>8. Unasked'
    BY <1>1, <1>2 DEF Unasked
  <2>9. OwnOK'
    <3>1. \A i \in 1 .. Len(down') : ConfinedTo(down'[i], conn)
      BY <1>1, <2>2, <2>5, <2>6 DEF DialogueInv, OwnOK
    <3> QED BY <1>1, <3>1 DEF DialogueInv, OwnOK
  <2> QED BY <1>3, <2>7, <2>8, <2>9, QuietAirNext DEF DialogueInv
<1> QED BY <1>1, <1>4, <1>5

\* A connection begun before the phone asks for another is not the new one:
\* there are more of them than can have been troubled.
LEMMA OlderAwaits ==
  ASSUME ProtocolInv, MaxTrouble < ConnMod, Hit, NEW id \in ConnIds, Awaits(id),
         phase' = "request", conn' = (conn + 1) % ConnMod
  PROVE  Awaits(id)' /\ id # conn'
<1>1. /\ trouble \in Nat /\ trouble < MaxTrouble /\ MaxTrouble \in Nat
      /\ trouble' = trouble + 1 /\ conn \in Nat /\ id \in 0 .. ConnMod - 1
      /\ ConnMod \in Nat \ {0}
  BY Queues, EndToEndAssumption DEF Hit, ConnIds
<1>2. PICK j \in 0 .. trouble : (id + j) % ConnMod = conn
  BY DEF Awaits
<1>3. (id + (j + 1)) % ConnMod = conn'
  <2>1. id + j \in Nat
    BY <1>1
  <2>2. (((id + j) % ConnMod) + 1) % ConnMod = (id + j + 1) % ConnMod
    BY <1>1, <2>1, ResidueTakenEarly
  <2>3. id + j + 1 = id + (j + 1)
    BY <1>1
  <2> QED BY <1>2, <2>2, <2>3
<1>4. Awaits(id)'
  <2>1. j + 1 \in 0 .. trouble'
    BY <1>1
  <2> QED BY <1>3, <2>1 DEF Awaits
<1>5. id # conn'
  <2> SUFFICES ASSUME id = conn' PROVE FALSE
    OBVIOUS
  <2>1. (id + 0) % ConnMod = id
    BY <1>1
  <2>2. (id + (j + 1)) % ConnMod # (id + 0) % ConnMod
    <3> DEFINE a == id + 0
               b == id + (j + 1)
    <3>1. /\ a \in Nat /\ b \in Nat /\ a < b /\ b - a < ConnMod
          /\ ConnMod \in Nat \ {0}
      BY <1>1
    <3> HIDE DEF a, b
    <3>2. a % ConnMod # b % ConnMod
      BY ONLY <3>1, NearResiduesDiffer
    <3> QED BY <3>2 DEF a, b
  <2> QED BY <1>3, <2>1, <2>2
<1> QED BY <1>4, <1>5

\* All that is on its way when a phone asks for a connection is of older ones.
LEMMA RequestDialogue ==
  ASSUME ProtocolInv, DialogueInv, MaxTrouble < ConnMod, Connect \/ Timeout
  PROVE  DialogueInv'
<1> DEFINE c == (conn + 1) % ConnMod
           f == << MsgUnit("request", c) >>
           parts == << f >>
<1>1. Request(c)
  BY DEF Connect, Timeout
<1>2. /\ conn' = c /\ phase' = "request" /\ sending' = [Empty EXCEPT ![0] = parts]
      /\ unacked' = << >> /\ UNCHANGED <<up, down>>
  BY <1>1 DEF Request, MsgUnit
<1>3. PhoneShape'
  <2> HIDE DEF c
  <2>1. conn' = c
    BY <1>2
  <2>2. parts = << << MsgUnit("request", c) >> >>
    OBVIOUS
  <2> HIDE DEF parts
  <2>3. /\ sending'[0] = parts /\ sending'[1] = << >> /\ sending'[2] = << >>
        /\ sending'[3] = << >>
    BY <1>2 DEF Empty, Channel
  <2> QED BY <1>2, <2>1, <2>2, <2>3 DEF PhoneShape
<1> HIDE DEF parts
<1>4. ASSUME NEW id \in ConnIds, Awaits(id), up # << >> \/ down # << >>
      PROVE  Awaits(id)' /\ id # conn'
  <2>1. phase = "request"
    BY <1>4 DEF Awaits
  <2>2. Timeout
    BY <2>1 DEF Connect
  <2>3. Hit
    BY <1>4, <2>2 DEF Timeout, Quiet
  <2> QED BY <1>2, <1>4, <2>3, OlderAwaits
<1>5. AsksOK'
  <2>1. ASSUME NEW i \in 1 .. Len(up'), NEW id \in ConnIds, Asked(up'[i], id)
        PROVE  Awaits(id)' /\ id # conn'
    <3>1. Awaits(id)
      BY <1>2, <2>1 DEF DialogueInv, AsksOK
    <3>2. up # << >>
      BY <1>2, <2>1
    <3> QED BY <1>4, <3>1, <3>2
  <2>2. \A i \in 1 .. Len(up') : UpKind(up'[i].sdus)
    BY <1>2 DEF DialogueInv, AsksOK
  <2> QED BY <2>1, <2>2 DEF AsksOK, Asked
<1>6. SetupsOK'
  <2>1. ASSUME NEW i \in 1 .. Len(down'), NEW id \in ConnIds, Opened(down'[i], id)
        PROVE  Awaits(id)' /\ id # conn'
    <3>1. Awaits(id)
      BY <1>2, <2>1 DEF DialogueInv, SetupsOK
    <3>2. down # << >>
      BY <1>2, <2>1
    <3> QED BY <1>4, <3>1, <3>2
  <2>2. \A i \in 1 .. Len(down') : Closed(down'[i]) \/ \E id \in ConnIds : Opened(down'[i], id)
    BY <1>2 DEF DialogueInv, SetupsOK
  <2> QED BY <2>1, <2>2 DEF SetupsOK
<1>7. OwnOK'
  BY <1>2 DEF OwnOK
<1> QED BY <1>3, <1>5, <1>6, <1>7 DEF DialogueInv

\* A phone sends on one channel at a time.
LEMMA SentOnOne ==
  ASSUME NEW c \in {0, 1, 3}
  PROVE  Len(SentOn({c})) = 1 /\ SentOn({c})[1] = c
<1> DEFINE s == << 0, 1, 2, 3 >>
           K == {d + 1 : d \in {c}}
<1>1a. s \in Seq(Channel)
  BY DEF Channel
<1>1. /\ Len(s) = 4
      /\ s[1] = 0 /\ s[2] = 1 /\ s[3] = 2 /\ s[4] = 3
  OBVIOUS
<1>2. /\ 1 \in K <=> c = 0
      /\ 2 \in K <=> c = 1
      /\ 3 \notin K
      /\ 4 \in K <=> c = 3
  OBVIOUS
<1>3. SentOn({c}) = Selected(s, K)
  BY DEF SentOn
<1> HIDE DEF s, K
<1>4. PICK kept : /\ Selected(s, K) = kept[Len(s)]
                  /\ kept[0] = << >>
                  /\ \A k \in 1 .. Len(s) :
                       kept[k] = IF k \in K THEN Append(kept[k - 1], s[k]) ELSE kept[k - 1]
  BY <1>1a, SelectedUnfolds
<1>5. /\ kept[1] = IF 1 \in K THEN Append(kept[0], s[1]) ELSE kept[0]
      /\ kept[2] = IF 2 \in K THEN Append(kept[1], s[2]) ELSE kept[1]
      /\ kept[3] = IF 3 \in K THEN Append(kept[2], s[3]) ELSE kept[2]
      /\ kept[4] = IF 4 \in K THEN Append(kept[3], s[4]) ELSE kept[3]
  <2>1. 1 \in 1 .. Len(s) /\ 2 \in 1 .. Len(s) /\ 3 \in 1 .. Len(s) /\ 4 \in 1 .. Len(s)
    BY <1>1
  <2>2. 1 - 1 = 0 /\ 2 - 1 = 1 /\ 3 - 1 = 2 /\ 4 - 1 = 3
    OBVIOUS
  <2> QED BY <1>4, <2>1, <2>2
<1>6. kept[4] = Append(<< >>, c)
  <2>1. CASE c = 0
    BY <1>1, <1>2, <1>4, <1>5, <2>1
  <2>2. CASE c = 1
    BY <1>1, <1>2, <1>4, <1>5, <2>2
  <2>3. CASE c = 3
    BY <1>1, <1>2, <1>4, <1>5, <2>3
  <2> QED BY <2>1, <2>2, <2>3
<1>7. Len(Append(<< >>, c)) = 1 /\ Append(<< >>, c)[1] = c
  OBVIOUS
<1> QED BY <1>1, <1>3, <1>4, <1>6, <1>7

LEMMA BusyOne ==
  ASSUME PhoneShape, NEW C \in (SUBSET Busy) \ {{}}
  PROVE  \/ C = {0} /\ phase = "request"
         \/ C = {1} /\ phase # "request"
         \/ C = {3} /\ phase = "attached"
<1>1. C \in SUBSET {0, 1, 2, 3} /\ C # {} /\ \A d \in C : sending[d] # << >>
  BY DEF Busy, Channel
<1>2. 2 \notin C
  BY <1>1 DEF PhoneShape
<1>3. CASE phase = "request"
  <2>1. 1 \notin C /\ 3 \notin C
    BY <1>1, <1>3 DEF PhoneShape
  <2> QED BY <1>1, <1>2, <1>3, <2>1
<1>4. CASE phase # "request"
  <2>1. 0 \notin C
    BY <1>1, <1>4 DEF PhoneShape
  <2>2. 3 \in C => 1 \notin C /\ phase = "attached"
    BY <1>1 DEF PhoneShape
  <2> QED BY <1>1, <1>2, <1>4, <2>1, <2>2
<1> QED BY <1>3, <1>4

LEMMA SentOne ==
  ASSUME NEW c \in {0, 1, 3}, NEW status \in BOOLEAN
  PROVE  LET s == SentSdus({c}, status)
             n == IF status THEN 2 ELSE 1
         IN  /\ Len(s) = n
             /\ s[n].lcid = c /\ s[n].bytes = Head(sending[c])
             /\ status => s[1].lcid = 1 /\ s[1].bytes = StatusReport(vr)
<1> DEFINE t == SentOn({c})
           sub(k) == [lcid |-> t[k], bytes |-> Head(sending[t[k]])]
           rest == [k \in 1 .. Len(t) |-> sub(k)]
           report == [lcid |-> 1, bytes |-> StatusReport(vr)]
           s == SentSdus({c}, status)
           x == sub(1)
<1>1. Len(t) = 1 /\ t[1] = c
  BY SentOnOne
<1>2. s = (IF status THEN << report >> ELSE << >>) \o rest
  BY DEF SentSdus
<1>3. x.lcid = c /\ x.bytes = Head(sending[c])
  BY <1>1
<1>4. report.lcid = 1 /\ report.bytes = StatusReport(vr)
  OBVIOUS
<1>5. rest = << x >>
  <2> HIDE DEF t, sub
  <2>1. rest = [k \in 1 .. 1 |-> sub(k)]
    BY <1>1
  <2>2. [k \in 1 .. 1 |-> sub(k)] = << sub(1) >>
    OBVIOUS
  <2> QED BY <2>1, <2>2
<1> HIDE DEF rest, x, report, s, t, sub
<1> DEFINE front == IF status THEN << report >> ELSE << >>
<1>6. /\ front \in Seq({x, report}) /\ Len(front) = (IF status THEN 1 ELSE 0)
      /\ status => front[1] = report
  <2>1. CASE status
    <3>1. front = << report >>
      BY <2>1
    <3> HIDE DEF front
    <3> QED BY <2>1, <3>1
  <2>2. CASE ~ status
    <3>1. front = << >>
      BY <2>2
    <3> HIDE DEF front
    <3> QED BY <2>2, <3>1
  <2> QED BY <2>1, <2>2
<1>7. << x >> \in Seq({x, report}) /\ Len(<< x >>) = 1 /\ << x >>[1] = x
  OBVIOUS
<1> DEFINE last == << x >>
<1>8. s = front \o last
  BY <1>2, <1>5
<1> HIDE DEF front, last
<1>9. /\ Len(s) = Len(front) + Len(last)
      /\ \A i \in 1 .. Len(front) + Len(last) :
           s[i] = IF i <= Len(front) THEN front[i] ELSE last[i - Len(front)]
  BY <1>6, <1>7, <1>8, ConcatProperties DEF last
<1>10. /\ Len(s) = IF status THEN 2 ELSE 1
       /\ s[IF status THEN 2 ELSE 1] = x
       /\ status => s[1] = report
  <2>1. Len(last) = 1 /\ last[1] = x
    BY <1>7 DEF last
  <2>2. CASE status
    BY <1>6, <1>9, <2>1, <2>2
  <2>3. CASE ~ status
    BY <1>6, <1>9, <2>1, <2>3
  <2> QED BY <2>2, <2>3
<1> QED BY <1>3, <1>4, <1>10 DEF s

\* The queue with one block more.
LEMMA GrownQueue ==
  ASSUME NEW s, Sequence(s), NEW b, NEW t, t = Append(s, b)
  PROVE  /\ Len(s) \in Nat /\ Len(t) = Len(s) + 1 /\ t[Len(t)] = b
         /\ \A i \in 1 .. Len(t) : \/ i \in 1 .. Len(s) /\ t[i] = s[i] /\ i # Len(t)
                                   \/ i = Len(t)
<1>1. /\ Len(t) = Len(s) + 1 /\ t[Len(s) + 1] = b
      /\ \A i \in 1 .. Len(s) : t[i] = s[i]
      /\ Len(s) \in Nat
  BY AppendSequence DEF Sequence
<1>2. ASSUME NEW i \in 1 .. Len(t)
      PROVE  \/ i \in 1 .. Len(s) /\ t[i] = s[i] /\ i # Len(t)
             \/ i = Len(t)
  BY <1>1
<1> QED BY <1>1, <1>2

LEMMA SendRequest ==
  ASSUME ProtocolInv, DialogueInv, phase = "request",
         UNCHANGED <<phase, conn, trouble, rlc_sdu_buffer, down, unacked>>,
         sending[0] # << >>, sending' = Without({0}),
         NEW block, up' = Append(up, block),
         Len(block.sdus) = 1, block.sdus[1].lcid = 0, block.sdus[1].bytes = Head(sending[0])
  PROVE  DialogueInv'
<1>1. /\ sending[0] = << << MsgUnit("request", conn) >> >>
      /\ sending[1] = << >> /\ sending[2] = << >> /\ sending[3] = << >> /\ unacked = << >>
  BY DEF DialogueInv, PhoneShape
<1>2. block.sdus[1].bytes = << MsgUnit("request", conn) >>
  BY <1>1
<1>3. sending' = Empty
  <2>1. Tail(sending[0]) = << >>
    <3> DEFINE f == << MsgUnit("request", conn) >>
    <3>1. sending[0] = << f >>
      BY <1>1
    <3> HIDE DEF f
    <3> QED BY <3>1
  <2>2. \A c \in Channel : (IF c \in {0} THEN Tail(sending[c]) ELSE sending[c]) = << >>
    <3> TAKE c \in Channel
    <3>1. c = 0 \/ c = 1 \/ c = 2 \/ c = 3
      BY DEF Channel
    <3>2. CASE c = 0
      BY <2>1, <3>2
    <3>3. CASE c # 0
      BY <1>1, <3>1, <3>3
    <3> QED BY <3>2, <3>3
  <2> QED BY <2>2 DEF Without, Empty
<1>4. sending'[0] = << >> /\ sending'[1] = << >> /\ sending'[2] = << >> /\ sending'[3] = << >>
  BY <1>3 DEF Empty, Channel
<1>5. PhoneShape'
  BY <1>1, <1>4 DEF PhoneShape
<1>6. sending # Empty
  BY DEF Empty, Channel
<1>7. \A id : Awaits(id) => Awaits(id)'
  BY AwaitsKept
<1>8. Awaits(conn)'
  <2>1. 0 \in 0 .. trouble /\ (conn + 0) % ConnMod = conn
    <3>1. trouble \in Nat /\ conn \in 0 .. ConnMod - 1 /\ ConnMod \in Nat \ {0}
      BY Queues, EndToEndAssumption DEF ConnIds
    <3> QED BY <3>1
  <2> QED BY <2>1 DEF Awaits
<1>9. AsksFor(block.sdus, conn) /\ \A id : AsksFor(block.sdus, id) => id = conn
  <2>1. ASSUME NEW id, AsksFor(block.sdus, id) PROVE id = conn
    <3> DEFINE u == MsgUnit("request", id)
               v == MsgUnit("request", conn)
    <3>1. << u >> = << v >>
      BY <1>2, <2>1 DEF AsksFor
    <3>2. u.id = id /\ v.id = conn
      BY DEF MsgUnit
    <3> HIDE DEF u, v
    <3>3. u = v
      BY <3>1
    <3> QED BY <3>2, <3>3
  <2> QED BY <1>2, <2>1 DEF AsksFor
<1>10. /\ Len(up) \in Nat /\ Len(up') = Len(up) + 1 /\ up'[Len(up')] = block
       /\ \A i \in 1 .. Len(up') : \/ i \in 1 .. Len(up) /\ up'[i] = up[i] /\ i # Len(up')
                                   \/ i = Len(up')
  BY Queues, GrownQueue
<1>11. AsksOK'
  <2>1. ASSUME NEW i \in 1 .. Len(up')
        PROVE  /\ UpKind(up'[i].sdus)
               /\ \A id \in ConnIds : Asked(up'[i], id) =>
                    Awaits(id)' /\ (id = conn' => i = Len(up') /\ sending' = Empty)
    <3>1. CASE i \in 1 .. Len(up) /\ up'[i] = up[i]
      BY <1>6, <1>7, <3>1 DEF DialogueInv, AsksOK
    <3>2. CASE i = Len(up')
      <4>1. up'[i] = block
        BY <1>10, <3>2
      <4>2. UpKind(block.sdus)
        BY <1>9, Queues DEF UpKind
      <4>3. \A id : Asked(block, id) => id = conn
        BY <1>9 DEF Asked
      <4> QED BY <1>3, <1>8, <3>2, <4>1, <4>2, <4>3
    <3> QED BY <1>10, <3>1, <3>2
  <2> QED BY <2>1 DEF AsksOK, Asked
<1>12. SetupsOK'
  <2>1. ASSUME NEW i \in 1 .. Len(down')
        PROVE  /\ Closed(down'[i]) \/ \E id \in ConnIds : Opened(down'[i], id)
               /\ \A id \in ConnIds : Opened(down'[i], id) => Awaits(id)' /\ id # conn'
    BY <1>6, <1>7 DEF DialogueInv, SetupsOK
  <2> QED BY <2>1 DEF SetupsOK
<1>13. OwnOK'
  BY DEF OwnOK
<1> QED BY <1>5, <1>11, <1>12, <1>13 DEF DialogueInv

\* A fragment of a message or of a packet, behind a status report or not.
LEMMA SendFragment ==
  ASSUME ProtocolInv, DialogueInv, phase # "request",
         UNCHANGED <<phase, conn, rlc_sdu_buffer, down>>,
         NEW c \in {1, 3}, sending[c] # << >>, sending' = Without({c}),
         c = 3 => unacked' = unacked,
         unacked' = unacked \/ unacked' = Head(sending[1]),
         NEW block, up' = Append(up, block),
         NEW n \in {1, 2}, Len(block.sdus) = n, n = 2 => c = 1,
         block.sdus[n].lcid = c, block.sdus[n].bytes = Head(sending[c]),
         n = 2 => block.sdus[1].lcid = 1 /\ block.sdus[1].bytes = StatusReport(vr)
  PROVE  DialogueInv'
<1> DEFINE T == OwnSet(conn)
           F == Seq(T)
<1>1. /\ Unasked /\ Unopened /\ sending[1] \in Seq(F) /\ unacked \in F
      /\ rlc_sdu_buffer[1] \in F
      /\ \A i \in 1 .. Len(up) : SaysIn(up[i].sdus, T)
      /\ \A i \in 1 .. Len(down) : ConfinedTo(down[i], conn)
  BY Established DEF DialogueInv, OwnOK
<1>2. \A k \in Channel : sending'[k] = IF k = c THEN Tail(sending[k]) ELSE sending[k]
  BY DEF Without
<1>3. 0 \in Channel /\ 1 \in Channel /\ 2 \in Channel /\ 3 \in Channel
  BY FourChannels
<1>4. PhoneShape'
  <2>1. sending'[0] = << >> /\ sending'[2] = << >>
    BY <1>2, <1>3 DEF DialogueInv, PhoneShape
  <2>2. sending[3] = << >> => sending'[3] = << >>
    BY <1>2, <1>3
  <2>3. sending[1] = << >> => sending'[1] = << >>
    BY <1>2, <1>3
  <2> QED BY <2>1, <2>2, <2>3 DEF DialogueInv, PhoneShape
<1>5. StatusReport(vr) \in F /\ Head(StatusReport(vr)).dc = "status"
  <2>1. vr \in Nat
    BY DEF ProtocolInv, PhoneOK
  <2> QED BY <2>1, OwnReport DEF StatusReport
<1> HIDE DEF F
<1>6. c = 1 => Head(sending[1]) \in F
  BY <1>1
<1>7. SaysIn(block.sdus, T)
  <2>1. ASSUME NEW k \in 1 .. n, block.sdus[k].lcid = 1 PROVE block.sdus[k].bytes \in F
    <3>1. k = n \/ (k = 1 /\ n = 2)
      OBVIOUS
    <3> QED BY <1>5, <1>6, <2>1, <3>1
  <2> QED BY <2>1 DEF SaysIn, F
<1>8. UpKind(block.sdus) /\ \A id : ~ Asked(block, id)
  <2>1. n = 2 => StatusOnly(block.sdus[1])
    BY <1>5 DEF StatusOnly
  <2>2. UpKind(block.sdus)
    BY <2>1 DEF UpKind
  <2>3. \A id : ~ AsksFor(block.sdus, id)
    BY DEF AsksFor
  <2> QED BY <2>2, <2>3 DEF Asked
<1>9. /\ up'[Len(up')] = block
      /\ \A i \in 1 .. Len(up') : \/ i \in 1 .. Len(up) /\ up'[i] = up[i]
                                  \/ i = Len(up')
  BY Queues, GrownQueue
<1>10. Unasked'
  BY <1>1, <1>8, <1>9 DEF Unasked, Asked
<1>11. Unopened'
  BY <1>1 DEF Unopened
<1>12. sending'[1] \in Seq(F) /\ unacked' \in F
  <2>1. sending'[1] \in Seq(F)
    <3>1. CASE c = 1
      <4>1. sending'[1] = Tail(sending[1]) /\ sending[1] # << >>
        BY <1>2, <1>3, <3>1
      <4> DEFINE old == sending[1]
      <4>2. old \in Seq(F) /\ old # << >> /\ sending'[1] = Tail(old)
        BY <1>1, <4>1
      <4> HIDE DEF old
      <4>3. Tail(old) \in Seq(F)
        BY <4>2
      <4> QED BY <4>2, <4>3
    <3>2. CASE c # 1
      BY <1>1, <1>2, <1>3, <3>2
    <3> QED BY <3>1, <3>2
  <2> QED BY <1>1, <1>6, <2>1
<1>13. \A i \in 1 .. Len(up') : SaysIn(up'[i].sdus, T)
  BY <1>1, <1>7, <1>9
<1>14. OwnOK'
  BY <1>1, <1>12, <1>13 DEF OwnOK, F
<1> QED BY <1>4, <1>10, <1>11, <1>14, QuietAirNext DEF DialogueInv

LEMMA SendDialogue ==
  ASSUME ProtocolInv, DialogueInv, Send
  PROVE  DialogueInv'
<1>1. UNCHANGED <<phase, conn, trouble, rlc_sdu_buffer, down>>
  BY DEF Send, stationVars
<1>2. PICK C \in (SUBSET Busy) \ {{}}, status \in BOOLEAN :
        /\ status => 1 \in C
        /\ up' = Append(up, [pdu |-> PhonePdu(status, SentSdus(C, status)),
                             sdus |-> SentSdus(C, status)])
        /\ sending' = Without(C)
        /\ unacked' = IF 1 \in C /\ Head(Head(sending[1])).p THEN Head(sending[1]) ELSE unacked
  BY DEF Send, SentSdus, SentOn
<1> DEFINE s == SentSdus(C, status)
           block == [pdu |-> PhonePdu(status, s), sdus |-> s]
           n == IF status THEN 2 ELSE 1
<1>3. block.sdus = s /\ up' = Append(up, block)
  BY <1>2
<1>4. PICK c \in {0, 1, 3} : /\ C = {c} /\ (c = 0 <=> phase = "request")
  BY BusyOne DEF DialogueInv
<1>5. sending[c] # << >>
  BY <1>4 DEF Busy
<1>6. /\ Len(s) = n /\ s[n].lcid = c /\ s[n].bytes = Head(sending[c])
      /\ status => s[1].lcid = 1 /\ s[1].bytes = StatusReport(vr)
  BY <1>4, SentOne
<1>7. sending' = Without({c}) /\ (status => c = 1)
  BY <1>2, <1>4
<1>8. unacked' = unacked \/ (c = 1 /\ unacked' = Head(sending[1]))
  BY <1>2, <1>4
<1> HIDE DEF s, block
<1>9. CASE c = 0
  <2>1. /\ Len(block.sdus) = 1 /\ block.sdus[1].lcid = 0
        /\ block.sdus[1].bytes = Head(sending[0])
        /\ sending[0] # << >> /\ sending' = Without({0})
        /\ UNCHANGED <<phase, conn, trouble, rlc_sdu_buffer, down, unacked>>
        /\ phase = "request" /\ ProtocolInv /\ DialogueInv
    BY <1>1, <1>3, <1>4, <1>5, <1>6, <1>7, <1>8, <1>9
  <2> QED BY ONLY <1>3, <2>1, SendRequest
<1>10. CASE c # 0
  <2>1. /\ Len(block.sdus) = n /\ block.sdus[n].lcid = c
        /\ block.sdus[n].bytes = Head(sending[c])
        /\ n = 2 => block.sdus[1].lcid = 1 /\ block.sdus[1].bytes = StatusReport(vr)
        /\ n = 2 => c = 1
        /\ n \in {1, 2}
    BY <1>3, <1>6, <1>7
  <2>2. /\ c \in {1, 3} /\ phase # "request" /\ ProtocolInv /\ DialogueInv
        /\ UNCHANGED <<phase, conn, rlc_sdu_buffer, down>>
        /\ c = 3 => unacked' = unacked
        /\ unacked' = unacked \/ unacked' = Head(sending[1])
    BY <1>1, <1>4, <1>8, <1>10
  <2> HIDE DEF n
  <2> QED BY ONLY <1>3, <1>5, <1>7, <2>1, <2>2, SendFragment
<1> QED BY <1>9, <1>10

----------------------------------------------------------------------------
(* A block is answered. *)

LEMMA OpenedOnce ==
  ASSUME NEW pdu, NEW id, NEW other, Opened(pdu, id), Opened(pdu, other)
  PROVE  other = id
<1> DEFINE u == MsgUnit("setup", id)
           v == MsgUnit("setup", other)
<1>1. << u >> = << v >>
  BY DEF Opened
<1>2. u.id = id /\ v.id = other
  BY DEF MsgUnit
<1> HIDE DEF u, v
<1>3. u = v
  BY <1>1
<1> QED BY <1>2, <1>3

LEMMA SetupsAnswered ==
  ASSUME ProtocolInv, SetupsOK, UNCHANGED <<phase, conn, trouble>>, up # << >>,
         NEW block, down' = Append(down, block),
         Closed(block) \/ \E id \in ConnIds : Opened(block, id),
         \A id \in ConnIds : Opened(block, id) =>
           /\ Awaits(id)
           /\ id = conn => up' = << >> /\ sending' = Empty /\ rlc_sdu_buffer' = Empty
  PROVE  SetupsOK'
<1>1. \A id : Awaits(id) => Awaits(id)'
  BY AwaitsKept
<1>2. /\ Len(down) \in Nat /\ down'[Len(down')] = block
      /\ \A i \in 1 .. Len(down') : \/ i \in 1 .. Len(down) /\ down'[i] = down[i]
                                    \/ i = Len(down')
  BY Queues, GrownQueue
<1>3. ASSUME NEW i \in 1 .. Len(down')
      PROVE  /\ Closed(down'[i]) \/ \E id \in ConnIds : Opened(down'[i], id)
             /\ \A id \in ConnIds : Opened(down'[i], id) =>
                  /\ Awaits(id)'
                  /\ id = conn' => /\ i = Len(down') /\ up' = << >>
                                   /\ sending' = Empty /\ rlc_sdu_buffer' = Empty
  <2>1. CASE i \in 1 .. Len(down) /\ down'[i] = down[i]
    BY <1>1, <2>1 DEF SetupsOK
  <2>2. CASE i = Len(down')
    BY <1>1, <1>2, <2>2
  <2> QED BY <1>2, <2>1, <2>2
<1> QED BY <1>3 DEF SetupsOK

LEMMA OwnAnswered ==
  ASSUME ProtocolInv, OwnOK, UNCHANGED <<phase, conn, sending, unacked>>, phase # "request",
         rlc_sdu_buffer'[1] \in Seq(OwnSet(conn)), Shrinks(up, up'),
         NEW block, down' = Append(down, block), ConfinedTo(block, conn)
  PROVE  OwnOK'
<1>1. /\ down'[Len(down')] = block
      /\ \A i \in 1 .. Len(down') : \/ i \in 1 .. Len(down) /\ down'[i] = down[i]
                                    \/ i = Len(down')
  BY Queues, GrownQueue
<1>2. \A i \in 1 .. Len(down') : ConfinedTo(down'[i], conn)
  BY <1>1 DEF OwnOK
<1>3. \A i \in 1 .. Len(up') : SaysIn(up'[i].sdus, OwnSet(conn))
  <2>1. ASSUME NEW i \in 1 .. Len(up') PROVE SaysIn(up'[i].sdus, OwnSet(conn))
    <3>1. PICK j \in 1 .. Len(up) : up'[i] = up[j]
      BY Queues, ShrunkQueue
    <3> QED BY <3>1 DEF OwnOK
  <2> QED BY <2>1
<1> QED BY <1>2, <1>3 DEF OwnOK

\* What the phone says on channel 1: anything, or what belongs to its connection.
Speech == IF phase # "request" THEN OwnSet(conn) ELSE Unit

LEMMA FirstBlock ==
  ASSUME ProtocolInv, DialogueInv, up # << >>
  PROVE  /\ Head(up) = up[1] /\ 1 \in 1 .. Len(up)
         /\ UpKind(Head(up).sdus)
         /\ rlc_sdu_buffer[1] \in Seq(Speech) /\ SaysIn(Head(up).sdus, Speech)
<1>1. Head(up) = up[1] /\ 1 \in 1 .. Len(up)
  BY HeadTailProperties DEF ProtocolInv, UpOK
<1>2. UpKind(Head(up).sdus)
  BY <1>1 DEF DialogueInv, AsksOK
<1>3. CASE phase # "request"
  BY <1>1, <1>2, <1>3 DEF DialogueInv, OwnOK, Speech
<1>4. CASE phase = "request"
  <2>1. rlc_sdu_buffer[1] \in Seq(Unit)
    <3>1. rlc_sdu_buffer[1] \in Seq(Plain)
      BY FourChannels DEF ProtocolInv, StationOK, BuffersOK
    <3>2. Plain \subseteq Unit
      BY DEF Unit
    <3> QED BY <3>1, <3>2, SeqMonotonic
  <2>2. Head(up) \in Block(test_IP)
    BY HeadTailProperties DEF ProtocolInv, UpOK
  <2>3. Head(up).sdus \in Seq(PhoneSdu(test_IP))
    BY <2>2, BlockDecodes
  <2>4. SaysIn(Head(up).sdus, Unit)
    <3> DEFINE s == Head(up).sdus
    <3>1. s \in Seq(PhoneSdu(test_IP))
      BY <2>3
    <3> HIDE DEF s
    <3>2. \A k \in 1 .. Len(s) : s[k] \in PhoneSdu(test_IP)
      BY <3>1, ElementOfSeq
    <3>3. \A x \in PhoneSdu(test_IP) : x.bytes \in Seq(Unit)
      BY DEF PhoneSdu
    <3> QED BY <3>2, <3>3 DEF SaysIn, s
  <2> QED BY <1>1, <1>2, <1>4, <2>1, <2>4 DEF Speech
<1> QED BY <1>3, <1>4

LEMMA ServeDialogue ==
  ASSUME ProtocolInv, DialogueInv, RrcBlock >= 153, Serve
  PROVE  DialogueInv'
<1> DEFINE r == Result(Head(up).pdu)
           sdus == Head(up).sdus
           block == InBlock(r.answers, RrcBlock)
<1>1. /\ up # << >> /\ up' = Tail(up) /\ rlc_sdu_buffer' = r.buffer
      /\ UNCHANGED <<phase, conn, sending, unacked>>
      /\ \/ down' = down /\ (trouble' = trouble \/ Hit)
         \/ r.answers # << >> /\ down' = Append(down, block) /\ trouble' = trouble
  BY DEF Serve, Queue, phoneVars
<1>2. /\ Head(up) = up[1] /\ 1 \in 1 .. Len(up) /\ UpKind(sdus)
      /\ rlc_sdu_buffer[1] \in Seq(Speech) /\ SaysIn(sdus, Speech)
  BY <1>1, FirstBlock
<1>3. ServedAs(r, sdus, Speech)
  BY <1>1, <1>2, BlockServed
<1> HIDE DEF r, block
<1>4. Shrinks(up, up') /\ (trouble' = trouble \/ Hit)
  BY <1>1 DEF Shrinks
<1>5. PhoneShape' /\ AsksOK'
  BY <1>1, <1>4, ShapeKept, AsksKept DEF DialogueInv
<1>6. ASSUME NEW id \in ConnIds, AsksFor(sdus, id)
      PROVE  /\ Awaits(id) /\ phase = "request"
             /\ id = conn => up' = << >> /\ sending' = Empty
  <2>1. Awaits(id) /\ (id = conn => 1 = Len(up) /\ sending = Empty)
    BY <1>2, <1>6 DEF DialogueInv, AsksOK, Asked
  <2>2. Len(up) = 1 => Tail(up) = << >>
    <3> DEFINE B == Block(test_IP)
    <3>1. up \in Seq(B) /\ up # << >>
      BY <1>1 DEF ProtocolInv, UpOK
    <3> HIDE DEF B
    <3>2. Tail(up) \in Seq(B) /\ Len(Tail(up)) = Len(up) - 1
      BY <3>1
    <3>3. Len(up) = 1 => Len(Tail(up)) = 0
      BY <3>2
    <3> QED BY <3>2, <3>3, EmptySeq
  <2> QED BY <1>1, <2>1, <2>2 DEF Awaits
<1>7. phase # "request" => rlc_sdu_buffer'[1] \in Seq(OwnSet(conn))
  <2> SUFFICES ASSUME phase # "request" PROVE r.buffer[1] \in Seq(OwnSet(conn))
    BY <1>1
  <2>1. Speech = OwnSet(conn)
    BY DEF Speech
  <2>2. ~ ServedAsk(r, sdus)
    BY <1>6 DEF ServedAsk
  <2> HIDE DEF sdus
  <2> QED BY <1>3, <2>1, <2>2 DEF ServedAs, ServedPacket, ServedSignal
<1>8. CASE down' = down
  <2>1. Shrinks(down, down')
    BY <1>8 DEF Shrinks
  <2>2. SetupsOK'
    BY <1>1, <1>4, <2>1, SetupsKept DEF DialogueInv
  <2>3. OwnOK'
    BY <1>1, <1>4, <1>7, <2>1, OwnKept DEF DialogueInv
  <2> QED BY <1>5, <2>2, <2>3 DEF DialogueInv
<1>9. CASE r.answers # << >> /\ down' = Append(down, block) /\ trouble' = trouble
  <2>1. ASSUME ServedAsk(r, sdus)
        PROVE  /\ \E id \in ConnIds : /\ Opened(block, id) /\ Awaits(id) /\ phase = "request"
                                      /\ id = conn => /\ up' = << >> /\ sending' = Empty
                                                      /\ rlc_sdu_buffer' = Empty
    <3>1. PICK id \in ConnIds :
            AsksFor(sdus, id) /\ r.answers = << Echo(id), Setup(id) >> /\ r.buffer = Empty
      BY <2>1 DEF ServedAsk
    <3>2. Opened(block, id)
      BY <3>1, SetupSays DEF block
    <3> QED BY <1>1, <1>6, <3>1, <3>2
  <2>2. ASSUME ServedPacket(r, sdus, Speech)
        PROVE  Closed(block) /\ \A id : ConfinedTo(block, id)
    <3>1. PICK m : r.answers = << Reply(m) >>
      BY <1>9, <2>2 DEF ServedPacket
    <3>2. r.answers = << ThreeSdu(m, MsgUnit("reply", 0)) >>
      BY <3>1 DEF Reply
    <3> QED BY <3>2, PacketSays DEF block
  <2>3. ASSUME ServedSignal(r, sdus, Speech)
        PROVE  Closed(block) /\ (phase # "request" => ConfinedTo(block, conn))
    <3>1. PICK k : AnswersTo(r.answers, sdus[k], Speech)
      BY <2>3 DEF ServedSignal
    <3>2. /\ Closed(block)
          /\ \A id : (\A c : SpeaksOf(Speech, c) => c = id) => ConfinedTo(block, id)
      BY <1>9, <3>1, AnswersSay DEF block
    <3>3. phase # "request" => \A c : SpeaksOf(Speech, c) => c = conn
      BY SpeaksOfOwn DEF Speech
    <3> QED BY <3>2, <3>3
  <2>4. \A id : Closed(block) => ~ Opened(block, id)
    BY DEF Closed, Opened
  <2>5. SetupsOK'
    <3>1. Closed(block) \/ \E id \in ConnIds : Opened(block, id)
      BY <1>3, <2>1, <2>2, <2>3 DEF ServedAs
    <3>2. ASSUME NEW id \in ConnIds, Opened(block, id)
          PROVE  /\ Awaits(id)
                 /\ id = conn => up' = << >> /\ sending' = Empty /\ rlc_sdu_buffer' = Empty
      <4>1. ServedAsk(r, sdus)
        BY <1>3, <2>2, <2>3, <2>4, <3>2 DEF ServedAs
      <4> QED BY <2>1, <3>2, <4>1, OpenedOnce
    <3> QED BY <1>1, <1>9, <3>1, <3>2, SetupsAnswered DEF DialogueInv
  <2>6. OwnOK'
    <3>1. CASE phase = "request"
      BY <1>1, <3>1 DEF OwnOK
    <3>2. CASE phase # "request"
      <4>1. ConfinedTo(block, conn)
        BY <1>3, <2>1, <2>2, <2>3, <3>2 DEF ServedAs
      <4> QED BY <1>1, <1>4, <1>7, <1>9, <3>2, <4>1, OwnAnswered DEF DialogueInv
    <3> QED BY <3>1, <3>2
  <2> QED BY <1>5, <2>5, <2>6 DEF DialogueInv
<1> QED BY <1>1, <1>8, <1>9

----------------------------------------------------------------------------
(* A block is heard. *)

QueuesOwn == \E parts \in Seq(Seq(OwnSet(conn))) : sending' = [sending EXCEPT ![1] = parts]

Echoed(sdus) ==
  \E k \in 1 .. Len(sdus) : sdus[k].lcid = 28 /\ Head(sdus[k].bytes).id = conn

\* What Receive does: a set-up is taken, a command answered or not, the last
\* message acknowledged, or nothing.
TakesSetup(sdus) ==
  /\ phase = "request" /\ Echoed(sdus)
  /\ unacked' = << >> /\ phase' = "setupComplete" /\ QueuesOwn

AnswersCommand(sdus) ==
  /\ phase \notin {"off", "request", "attached"} /\ Commands(sdus) # << >>
  /\ unacked' \in {<< >>, unacked}
  /\ phase' \notin {"request", "attached"} /\ QueuesOwn

HearsCommand ==
  /\ phase \notin {"off", "request"} /\ unacked' \in {<< >>, unacked}
  /\ sending' = sending
  /\ phase' = IF phase = "detachRequest" THEN "off" ELSE phase

IsAcknowledged ==
  /\ phase \notin {"off", "request"} /\ unacked' = << >> /\ sending' = sending
  /\ phase' = IF phase = "completing" /\ sending[1] = << >> THEN "attached" ELSE phase

LEMMA ReceiveIs ==
  ASSUME PhoneOK, Receive
  PROVE  \/ TakesSetup(PhoneSdus(Head(down)))
         \/ AnswersCommand(PhoneSdus(Head(down)))
         \/ HearsCommand
         \/ IsAcknowledged
         \/ UNCHANGED <<phase, sending, unacked>>
<1> DEFINE sdus == PhoneSdus(Head(down))
           echoed == \E k \in 1 .. Len(sdus) :
                       sdus[k].lcid = 28 /\ Head(sdus[k].bytes).id = conn
           commands == Commands(sdus)
           type == pdcp_decode(1, Tail(commands[1].bytes))[1].type
           established == phase \notin {"off", "request"}
           acked == Acknowledges(sdus)
<1>1. CASE phase = "request" /\ echoed
  <2>1. Enqueue("setupComplete", "setupComplete") /\ unacked' = << >>
    BY <1>1 DEF Receive
  <2>2. QueuesOwn /\ phase' = "setupComplete"
    <3>1. "setupComplete" \in Types
      BY DEF Types, NextCommand
    <3> QED BY <2>1, <3>1, OwnQueued DEF QueuesOwn
  <2>3. TakesSetup(sdus)
    <3>1. Echoed(sdus)
      BY <1>1 DEF Echoed
    <3> HIDE DEF sdus, echoed
    <3> QED BY <1>1, <2>1, <2>2, <3>1 DEF TakesSetup
  <2> QED BY <2>3
<1>2. CASE phase # "request" /\ established /\ commands # << >>
  <2>1. /\ unacked' = IF acked THEN << >> ELSE unacked
        /\ IF phase \in DOMAIN NextCommand /\ type = NextCommand[phase]
           THEN IF Response[type] = "completing" THEN EnqueueCompletes
                ELSE Enqueue(Response[type], Response[type])
           ELSE /\ phase' = IF phase = "detachRequest" THEN "off" ELSE phase
                /\ UNCHANGED <<vt, sending>>
    BY <1>2 DEF Receive
  <2> HIDE DEF acked, type
  <2>2. unacked' \in {<< >>, unacked}
    BY <2>1
  <2>3. CASE phase \in DOMAIN NextCommand /\ type = NextCommand[phase]
    <3>1. phase # "attached" /\ phase # "off" /\ phase # "request"
      BY <1>2, <2>3 DEF NextCommand
    <3>2. type \in {"identityRequest", "authenticationRequest", "nasSecurityCommand",
                    "rrcSecurityCommand", "reconfiguration"}
      BY <2>3 DEF NextCommand
    <3>3. CASE Response[type] = "completing"
      <4>1. EnqueueCompletes
        BY <2>1, <2>3, <3>3
      <4>2. QueuesOwn /\ phase' = "completing"
        BY <4>1, OwnCompletes DEF QueuesOwn
      <4>3. AnswersCommand(sdus)
        <5> HIDE DEF sdus
        <5> QED BY <1>2, <2>2, <3>1, <4>2 DEF AnswersCommand
      <4> QED BY <4>3
    <3>4. CASE Response[type] # "completing"
      <4>1. Enqueue(Response[type], Response[type])
        BY <2>1, <2>3, <3>4
      <4>2. Response[type] \in Types /\ Response[type] \notin {"request", "attached"}
        BY <3>2, <3>4 DEF Response, Types, NextCommand
      <4>3. QueuesOwn /\ phase' = Response[type]
        BY <4>1, <4>2, OwnQueued DEF QueuesOwn
      <4>4. AnswersCommand(sdus)
        <5> HIDE DEF sdus
        <5> QED BY <1>2, <2>2, <3>1, <4>2, <4>3 DEF AnswersCommand
      <4> QED BY <4>4
    <3> QED BY <3>3, <3>4
  <2>4. CASE ~ (phase \in DOMAIN NextCommand /\ type = NextCommand[phase])
    <3>1. HearsCommand
      BY <1>2, <2>1, <2>2, <2>4 DEF HearsCommand
    <3> QED BY <3>1
  <2> QED BY <2>3, <2>4
<1>3. CASE phase # "request" /\ established /\ commands = << >> /\ acked
  <2>1. IsAcknowledged
    BY <1>3 DEF Receive, IsAcknowledged
  <2> QED BY <2>1
<1>4. CASE ~ \/ phase = "request" /\ echoed
             \/ established /\ commands # << >>
             \/ established /\ commands = << >> /\ acked
  <2>1. UNCHANGED <<phase, sending, unacked>>
    BY <1>4 DEF Receive
  <2> QED BY <2>1
<1>5. established => phase # "request"
  OBVIOUS
<1> HIDE DEF echoed, acked, commands, established
<1> QED BY <1>1, <1>2, <1>3, <1>4, <1>5

\* In an established connection nothing comes from elsewhere.
LEMMA HeardDialogue ==
  ASSUME ProtocolInv, DialogueInv, phase # "request", phase' # "request",
         UNCHANGED <<conn, rlc_sdu_buffer, up>>, Shrinks(down, down'),
         unacked' \in {<< >>, unacked},
         \/ /\ sending' = sending
            /\ phase' = "attached" => sending[1] = << >>
            /\ phase = "attached" => phase' = "attached"
         \/ phase # "attached" /\ phase' # "attached" /\ QueuesOwn
  PROVE  DialogueInv'
<1> DEFINE F == Seq(OwnSet(conn))
<1>1. Shrinks(up, up')
  BY DEF Shrinks
<1>2. AsksOK' /\ SetupsOK'
  BY <1>1, Established, QuietKept DEF DialogueInv
<1>3. unacked' \in F
  <2>1. unacked \in F
    BY DEF DialogueInv, OwnOK
  <2>2. << >> \in F
    OBVIOUS
  <2> HIDE DEF F
  <2> QED BY <2>1, <2>2
<1> HIDE DEF F
<1>4. CASE /\ sending' = sending
           /\ phase' = "attached" => sending[1] = << >>
           /\ phase = "attached" => phase' = "attached"
  <2>1. PhoneShape'
    BY <1>4 DEF DialogueInv, PhoneShape
  <2>2. OwnOK'
    BY <1>1, <1>3, <1>4, OwnOnAir DEF DialogueInv, OwnOK, F
  <2> QED BY <1>2, <2>1, <2>2 DEF DialogueInv
<1>5. CASE phase # "attached" /\ phase' # "attached" /\ QueuesOwn
  <2>1. PICK parts \in Seq(F) : sending' = [sending EXCEPT ![1] = parts]
    BY <1>5 DEF QueuesOwn, F
  <2>2. /\ sending'[0] = sending[0] /\ sending'[1] = parts /\ sending'[2] = sending[2]
        /\ sending'[3] = sending[3]
    BY <2>1, FourChannels
  <2>3. PhoneShape'
    BY <1>5, <2>2 DEF DialogueInv, PhoneShape
  <2>4. OwnOK'
    BY <1>1, <1>3, <2>2, OwnOnAir DEF DialogueInv, OwnOK, F
  <2> QED BY <1>2, <2>3, <2>4 DEF DialogueInv
<1> QED BY <1>4, <1>5

\* The set-up that echoes the phone's request, and all there is besides it.
LEMMA SetupTaken ==
  ASSUME ProtocolInv, DialogueInv, down # << >>, phase = "request", Echoed(PhoneSdus(Head(down)))
  PROVE  /\ Opened(Head(down), conn) /\ Len(down) = 1
         /\ up = << >> /\ sending = Empty /\ rlc_sdu_buffer = Empty
<1> DEFINE pdu == Head(down)
           a == PhoneSdus(pdu)
<1>1. pdu = down[1] /\ 1 \in 1 .. Len(down)
  BY HeadTailProperties DEF ProtocolInv, DownOK
<1> HIDE DEF pdu
<1>2. PICK k \in 1 .. Len(a) : a[k].lcid = 28 /\ Head(a[k].bytes).id = conn
  BY DEF Echoed, pdu
<1>3. ~ Closed(pdu)
  BY <1>2 DEF Closed
<1>4. PICK id \in ConnIds : Opened(pdu, id)
  BY <1>1, <1>3 DEF DialogueInv, SetupsOK
<1>5. id = conn
  <2> DEFINE u == MsgUnit("request", id)
  <2>1. /\ Len(a) = 2 /\ a[1].lcid = 28 /\ a[1].bytes = << u >> /\ a[2].lcid = 0
    BY <1>4 DEF Opened
  <2>2. u.id = id
    BY DEF MsgUnit
  <2> HIDE DEF u, a
  <2>3. k = 1
    BY <1>2, <2>1
  <2>4. Head(<< u >>) = u
    OBVIOUS
  <2> QED BY <1>2, <2>1, <2>2, <2>3, <2>4
<1>6. 1 = Len(down) /\ up = << >> /\ sending = Empty /\ rlc_sdu_buffer = Empty
  BY <1>1, <1>4, <1>5 DEF DialogueInv, SetupsOK
<1> QED BY <1>4, <1>5, <1>6 DEF pdu

LEMMA SetupDialogue ==
  ASSUME ProtocolInv, DialogueInv, down # << >>, down' = Tail(down),
         UNCHANGED <<conn, rlc_sdu_buffer, up>>, TakesSetup(PhoneSdus(Head(down)))
  PROVE  DialogueInv'
<1>1. /\ Opened(Head(down), conn) /\ Len(down) = 1
      /\ up = << >> /\ sending = Empty /\ rlc_sdu_buffer = Empty
  BY SetupTaken DEF TakesSetup
<1>2. Len(up') = 0 /\ Len(down') = 0
  <2>1. Len(Tail(down)) = Len(down) - 1
    BY Queues, TailSequence
  <2> QED BY <1>1, <2>1
<1> DEFINE F == Seq(OwnSet(conn))
<1>3. PICK parts \in Seq(F) : sending' = [sending EXCEPT ![1] = parts]
  BY DEF TakesSetup, QueuesOwn
<1> HIDE DEF F
<1>4. /\ sending'[0] = << >> /\ sending'[1] = parts /\ sending'[2] = << >>
      /\ sending'[3] = << >>
  BY <1>1, <1>3 DEF Empty, Channel
<1>5. phase' = "setupComplete" /\ unacked' = << >>
  BY DEF TakesSetup
<1>6. PhoneShape'
  BY <1>4, <1>5 DEF PhoneShape
<1>7. Unasked' /\ Unopened'
  BY <1>2 DEF Unasked, Unopened
<1>8. OwnOK'
  <2>1. rlc_sdu_buffer'[1] = << >>
    BY <1>1 DEF Empty, Channel
  <2>2. << >> \in F
    BY DEF F
  <2>3. /\ sending'[1] \in Seq(F) /\ unacked' \in F /\ rlc_sdu_buffer'[1] \in F
    BY <1>3, <1>4, <1>5, <2>1, <2>2
  <2>4. conn' = conn
    OBVIOUS
  <2>5. /\ \A i \in 1 .. Len(up') : SaysIn(up'[i].sdus, OwnSet(conn))
        /\ \A i \in 1 .. Len(down') : ConfinedTo(down'[i], conn)
    <3>1. 1 .. Len(up') = {} /\ 1 .. Len(down') = {}
      BY ONLY <1>2
    <3> QED BY ONLY <3>1
  <2> QED BY <2>3, <2>4, <2>5 DEF OwnOK, F
<1> QED BY <1>6, <1>7, <1>8, QuietAirNext DEF DialogueInv

LEMMA ReceiveDialogue ==
  ASSUME ProtocolInv, DialogueInv, Receive
  PROVE  DialogueInv'
<1> DEFINE sdus == PhoneSdus(Head(down))
<1>1. down # << >> /\ down' = Tail(down) /\ UNCHANGED <<conn, rlc_sdu_buffer, up, trouble>>
  BY DEF Receive, stationVars
<1>2. Shrinks(up, up') /\ Shrinks(down, down')
  BY <1>1 DEF Shrinks
<1>3. PhoneOK
  BY DEF ProtocolInv
<1> HIDE DEF sdus
<1>4. CASE TakesSetup(sdus)
  BY <1>1, <1>4, SetupDialogue DEF sdus
<1>5. CASE AnswersCommand(sdus)
  BY <1>1, <1>2, <1>5, HeardDialogue DEF AnswersCommand
<1>6. CASE HearsCommand
  <2>1. phase' = "attached" => sending[1] = << >>
    BY <1>6 DEF HearsCommand, DialogueInv, PhoneShape
  <2> QED BY <1>1, <1>2, <1>6, <2>1, HeardDialogue DEF HearsCommand
<1>7. CASE IsAcknowledged
  <2>1. phase' = "attached" => sending[1] = << >>
    BY <1>7 DEF IsAcknowledged, DialogueInv, PhoneShape
  <2> QED BY <1>1, <1>2, <1>7, <2>1, HeardDialogue DEF IsAcknowledged
<1>8. CASE UNCHANGED <<phase, sending, unacked>>
  <2>1. phase # "request" => rlc_sdu_buffer'[1] \in Seq(OwnSet(conn))
    BY <1>1 DEF DialogueInv, OwnOK
  <2> QED BY <1>1, <1>2, <1>8, <2>1, AsksKept, SetupsKept, OwnKept, ShapeKept DEF DialogueInv
<1> QED BY <1>3, <1>4, <1>5, <1>6, <1>7, <1>8, ReceiveIs DEF sdus

LEMMA DialoguePreserved ==
  ASSUME ProtocolInv, DialogueInv, RrcBlock >= 153, MaxTrouble < ConnMod, [Next]_vars
  PROVE  DialogueInv'
<1>1. CASE UNCHANGED vars
  BY <1>1 DEF vars, stationVars, phoneVars, DialogueInv, PhoneShape, AsksOK, SetupsOK, OwnOK,
              Awaits, Asked
<1> QED BY <1>1, ClearDialogue, LossDialogue, RequestDialogue, RetransmitDialogue, PacketDialogue,
           DetachDialogue, ScheduleDialogue, SendDialogue, ServeDialogue, ReceiveDialogue
        DEF Next

----------------------------------------------------------------------------
(* What the phone hears, and what it makes of it. *)

LEMMA PhoneSduMade ==
  ASSUME NEW pdu, Len(pdu.head) \in Nat \ {0}
  PROVE  /\ Sequence(PhoneSdus(pdu))
         /\ \A k \in 1 .. Len(PhoneSdus(pdu)) :
              PhoneSdus(pdu)[k] = [lcid |-> PhoneSdus(pdu)[k].lcid, bytes |-> PhoneSdus(pdu)[k].bytes]
<1> DEFINE start == Starts(pdu.head)
           n == Len(pdu.head) - 1
           end(k) == start[k] + pdu.head[k].length
           sdu(k) == [lcid |-> pdu.head[k].lcid,
                      bytes |-> IF end(k) <= Len(pdu.body)
                                THEN SubSeq(pdu.body, start[k] + 1, end(k)) ELSE <<>>]
           all == [k \in 1 .. n |-> sdu(k)]
           K == {k \in 1 .. n : sdu(k).bytes # <<>>}
           T == {sdu(k) : k \in 1 .. n}
<1>1. PhoneSdus(pdu) = Selected(all, K)
  BY DEF PhoneSdus
<1>2. \A k \in 1 .. n : sdu(k) \in T
  OBVIOUS
<1>3. \A x \in T : x = [lcid |-> x.lcid, bytes |-> x.bytes]
  OBVIOUS
<1> HIDE DEF sdu, T
<1>4. n \in Nat
  OBVIOUS
<1>5. all \in Seq(T)
  <2> HIDE DEF n
  <2> QED BY <1>2, <1>4
<1> HIDE DEF all, K
<1> DEFINE R == {all[k] : k \in K \cap (1 .. Len(all))}
           a == Selected(all, K)
<1>6. a \in Seq(R)
  BY <1>5, SelectedIsSeq
<1>7. R \subseteq T
  BY <1>5, ElementOfSeq
<1> HIDE DEF R, a
<1>8. a \in Seq(T)
  BY <1>6, <1>7, SeqMonotonic
<1>9. Sequence(a) /\ \A k \in 1 .. Len(a) : a[k] \in T
  BY <1>8, SeqIsSequence, ElementOfSeq
<1>10. a = PhoneSdus(pdu)
  BY <1>1 DEF a
<1> QED BY <1>3, <1>9, <1>10

LEMMA CommandThere ==
  ASSUME NEW s, Sequence(s), Commands(s) # << >>
  PROVE  \E k \in 1 .. Len(s) : s[k].lcid = 1 /\ Head(s[k].bytes).dc = "data"
<1> DEFINE K == {k \in 1 .. Len(s) :
                   /\ s[k].lcid = 1 /\ Head(s[k].bytes).kind = "rlc"
                   /\ Head(s[k].bytes).dc = "data" /\ Head(s[k].bytes).sn = vr}
           T == {s[k] : k \in K \cap (1 .. Len(s))}
<1>1. Commands(s) = Selected(s, K)
  BY DEF Commands
<1>2. PICK S : s \in Seq(S)
  <2>1. s \in Seq({s[k] : k \in 1 .. Len(s)})
    BY DEF Sequence
  <2> QED BY <2>1
<1>3. Selected(s, K) \in Seq(T)
  <2> HIDE DEF K
  <2> QED BY <1>2, SelectedIsSeq
<1>4. K # {}
  <2> SUFFICES ASSUME K = {} PROVE FALSE
    OBVIOUS
  <2>1. T = {}
    OBVIOUS
  <2> HIDE DEF T, K
  <2>2. Selected(s, K) \in Seq({})
    BY <1>3, <2>1
  <2>3. Selected(s, K) = << >>
    BY <2>2
  <2> QED BY <1>1, <2>3
<1> QED BY <1>4

\* The body of NoStaleAnswer.
AnswersOwn ==
  \E k \in 1 .. Len(PhoneSdus(Head(down))) :
    LET sdu == PhoneSdus(Head(down))[k] IN
    \/ sdu.lcid = 0 /\ Head(sdu.bytes).id = conn
    \/ sdu.lcid = 1 /\ Len(sdu.bytes) = 4 /\ sdu.bytes[3].id = conn

LEMMA AnswerFresh ==
  ASSUME ProtocolInv, DialogueInv, [Next]_vars, down # << >>, down' = Tail(down),
         phase' # phase, phase' \notin {"attached", "off"}
  PROVE  AnswersOwn
<1> DEFINE pdu == Head(down)
           a == PhoneSdus(pdu)
<1>1. down' # down
  <2>1. Len(down') = Len(down) - 1 /\ Len(down) \in Nat
    BY Queues, TailSequence
  <2> SUFFICES ASSUME down' = down PROVE FALSE
    OBVIOUS
  <2>2. Len(down) = Len(down) - 1
    BY <2>1
  <2> QED BY ONLY <2>1, <2>2
<1>2. Receive
  <2>1. ~ UNCHANGED vars /\ ~ Serve /\ ~ mac_tx_schedule_IP /\ ~ clearStats /\ ~ LoseDown
    BY DEF vars, phoneVars, Serve, mac_tx_schedule_IP, clearStats, LoseDown
  <2>2. /\ ~ Connect /\ ~ Timeout /\ ~ Retransmit /\ ~ Send /\ ~ LoseUp
        /\ ~ SendPacket /\ ~ SendStream /\ ~ SendOther /\ ~ Detach
    BY <1>1 DEF Connect, Timeout, Request, Retransmit, Send, LoseUp,
                SendPacket, SendStream, SendOther, SendTest, Detach
  <2> QED BY <2>1, <2>2 DEF Next
<1>3. pdu = down[1] /\ 1 \in 1 .. Len(down) /\ Len(pdu.head) \in Nat \ {0}
  BY HeadTailProperties, Queues, TailSequence DEF ProtocolInv, DownOK, Headed
<1>4. PhoneOK
  BY DEF ProtocolInv
<1>5. CASE TakesSetup(a)
  <2>1. Opened(pdu, conn)
    BY <1>5, SetupTaken DEF TakesSetup
  <2> HIDE DEF pdu
  <2> DEFINE u == MsgUnit("setup", conn)
  <2>2. Len(a) = 2 /\ a[2].lcid = 0 /\ a[2].bytes = << u >>
    BY <2>1 DEF Opened
  <2>3. u.id = conn
    BY DEF MsgUnit
  <2> HIDE DEF a, u
  <2>4. Head(<< u >>) = u /\ 2 \in 1 .. 2
    OBVIOUS
  <2>5. 2 \in 1 .. Len(a) /\ a[2].lcid = 0 /\ Head(a[2].bytes).id = conn
    BY <2>2, <2>3, <2>4
  <2> QED BY <2>5 DEF AnswersOwn, a, pdu
<1>6. CASE AnswersCommand(a)
  <2>1. ConfinedTo(pdu, conn) /\ Commands(a) # << >>
    BY <1>3, <1>6 DEF AnswersCommand, DialogueInv, OwnOK
  <2> HIDE DEF pdu
  <2>2. Sequence(a)
    BY <1>3, PhoneSduMade
  <2>3. PICK k \in 1 .. Len(a) : a[k].lcid = 1 /\ Head(a[k].bytes).dc = "data"
    <3> HIDE DEF a
    <3> QED BY <2>1, <2>2, CommandThere
  <2>4. Len(a[k].bytes) = 4 /\ a[k].bytes[3].id = conn
    BY <2>1, <2>3 DEF ConfinedTo, Addressed
  <2> HIDE DEF a
  <2> QED BY <2>3, <2>4 DEF AnswersOwn, a, pdu
<1>7. ~ HearsCommand /\ ~ IsAcknowledged /\ ~ UNCHANGED <<phase, sending, unacked>>
  BY DEF HearsCommand, IsAcknowledged
<1> QED BY <1>2, <1>4, <1>5, <1>6, <1>7, ReceiveIs

----------------------------------------------------------------------------
(* A fragment that polls is reported. *)

LEMMA RepliesSequence ==
  ASSUME NEW a, NEW id, Replies(a, id)
  PROVE  Sequence(a)
<1>1. CASE a = << >>
  BY <1>1, SeqIsSequence, << >> \in Seq({})
<1>2. ASSUME NEW type, NEW m, a = << Command(type, id, m) >> PROVE Sequence(a)
  <2> DEFINE x == Command(type, id, m)
  <2>1. a = << x >>
    BY <1>2
  <2> HIDE DEF x
  <2> QED BY <2>1, OneIsSequence
<1>3. ASSUME NEW k, NEW m, a = << Command("detachAccept", id, k), Command("release", id, m) >>
      PROVE  Sequence(a)
  <2> DEFINE x == Command("detachAccept", id, k)
             y == Command("release", id, m)
  <2>1. a = << x, y >>
    BY <1>3
  <2> HIDE DEF x, y
  <2>2. a \in Seq({x, y})
    BY <2>1
  <2> QED BY <2>2, SeqIsSequence
<1> QED BY <1>1, <1>2, <1>3 DEF Replies

\* The body of PollIsAcknowledged for one SDU.
Reported(sdu, blocks) ==
  LET report == [lcid |-> sdu.lcid, bytes |-> StatusReport(Head(sdu.bytes).sn)]
  IN  sdu.lcid \in AM /\ Head(sdu.bytes).p =>
        \E i \in 1 .. Len(blocks) : \E m \in 1 .. Len(PhoneSdus(blocks[i])) :
          PhoneSdus(blocks[i])[m] = report

LEMMA ReportHeard ==
  ASSUME NEW b, NEW sdu, NEW T, AnswersTo(b, sdu, T), sdu.lcid = 1, Head(sdu.bytes).p,
         RrcBlock >= 153
  PROVE  /\ b # << >>
         /\ \E m \in 1 .. Len(PhoneSdus(InBlock(b, RrcBlock))) :
              PhoneSdus(InBlock(b, RrcBlock))[m]
                = [lcid |-> sdu.lcid, bytes |-> StatusReport(Head(sdu.bytes).sn)]
<1> DEFINE n == Head(sdu.bytes).sn
           z == ReportSdu(n)
           pdu == InBlock(b, RrcBlock)
           c == PhoneSdus(pdu)
<1>1. PICK a, i : Replies(a, i) /\ b = Append(a, z)
  BY DEF AnswersTo
<1>2. Sequence(a)
  BY <1>1, RepliesSequence
<1>3. z.lcid = 1 /\ z.bytes = StatusReport(n)
  BY DEF ReportSdu
<1> HIDE DEF z
<1>4. Len(b) = Len(a) + 1 /\ b[Len(a) + 1] = z /\ Len(a) \in Nat /\ b # << >>
  <2>1. Len(b) = Len(a) + 1 /\ b[Len(a) + 1] = z /\ Len(a) \in Nat
    BY <1>1, <1>2, AppendSequence DEF Sequence
  <2>2. b # << >>
    BY <2>1
  <2> QED BY <2>1, <2>2
<1>5. Bytefull(b) /\ AllHeard(b)
  BY <1>4, AnswersSay
<1>6. Len(pdu.head) \in Nat \ {0}
  BY <1>4, <1>5, PlacesInBlock
<1> DEFINE m == Len(b)
<1>7. m \in 1 .. Len(c) /\ c[m].lcid = 1 /\ c[m].bytes = StatusReport(n)
  <2>1. Len(c) = Len(b) /\ \A k \in 1 .. Len(b) : c[k].lcid = b[k].lcid /\ c[k].bytes = b[k].bytes
    BY <1>5 DEF AllHeard
  <2> HIDE DEF c
  <2>2. m \in 1 .. Len(b) /\ b[m] = z
    BY <1>4
  <2> QED BY <1>3, <2>1, <2>2
<1>8. c[m] = [lcid |-> c[m].lcid, bytes |-> c[m].bytes]
  <2> HIDE DEF pdu, m
  <2> QED BY <1>6, <1>7, PhoneSduMade
<1> HIDE DEF m, c
<1>9. c[m] = [lcid |-> sdu.lcid, bytes |-> StatusReport(n)]
  BY <1>7, <1>8
<1> QED BY <1>4, <1>7, <1>9 DEF c

LEMMA PollReported ==
  ASSUME ProtocolInv, DialogueInv, RrcBlock >= 153, [Next]_vars,
         up # << >>, up' = Tail(up), trouble' = trouble
  PROVE  \A k \in 1 .. Len(Head(up).sdus) : Reported(Head(up).sdus[k], down')
<1> DEFINE r == Result(Head(up).pdu)
           sdus == Head(up).sdus
           block == InBlock(r.answers, RrcBlock)
<1>1. /\ Len(up') # Len(up) /\ Len(up') # Len(up) + 1 /\ up' # up
  <2>1. Len(up') = Len(up) - 1 /\ Len(up) \in Nat
    BY Queues, TailSequence
  <2>2. Len(up') # Len(up) /\ Len(up') # Len(up) + 1
    BY ONLY <2>1
  <2> QED BY <2>2
<1>2. ~ Hit
  BY Queues DEF Hit
<1>3. Serve
  <2>1. ~ UNCHANGED vars /\ ~ mac_tx_schedule_IP /\ ~ clearStats /\ ~ Receive /\ ~ LoseDown
        /\ ~ LoseUp
    BY <1>1, <1>2 DEF vars, mac_tx_schedule_IP, clearStats, Receive, LoseDown, LoseUp
  <2>2. /\ ~ Connect /\ ~ Timeout /\ ~ Retransmit
        /\ ~ SendPacket /\ ~ SendStream /\ ~ SendOther /\ ~ Detach
    BY <1>1 DEF Connect, Timeout, Request, Retransmit,
                SendPacket, SendStream, SendOther, SendTest, Detach
  <2>3. ~ Send
    <3> SUFFICES ASSUME Send PROVE FALSE
      OBVIOUS
    <3>1. \E b : up' = Append(up, b)
      BY DEF Send
    <3> QED BY <1>1, <3>1, Queues, AppendSequence
  <2> QED BY <2>1, <2>2, <2>3 DEF Next
<1>4. r.answers = << >> \/ down' = Append(down, block)
  BY <1>2, <1>3 DEF Serve, Queue
<1>5. ServedAs(r, sdus, Speech)
  BY FirstBlock, BlockServed
<1> HIDE DEF r, sdus, block
<1>6. SUFFICES ASSUME NEW k \in 1 .. Len(sdus), sdus[k].lcid \in AM, Head(sdus[k].bytes).p
               PROVE  Reported(sdus[k], down')
  BY DEF Reported, sdus
<1>7. sdus[k].lcid \in {1, 2}
  BY <1>6 DEF AM
<1>8. ~ ServedAsk(r, sdus)
  BY <1>6, <1>7 DEF ServedAsk, AsksFor
<1>9. ~ ServedPacket(r, sdus, Speech)
  BY <1>6, <1>7 DEF ServedPacket
<1>10. ServedSignal(r, sdus, Speech)
  BY <1>5, <1>8, <1>9 DEF ServedAs
<1>11. k = Len(sdus) /\ sdus[k].lcid = 1 /\ AnswersTo(r.answers, sdus[k], Speech)
  BY <1>6, <1>10 DEF ServedSignal
<1> DEFINE sdu == sdus[k]
           report == [lcid |-> sdu.lcid, bytes |-> StatusReport(Head(sdu.bytes).sn)]
<1>12. r.answers # << >> /\ \E m \in 1 .. Len(PhoneSdus(block)) : PhoneSdus(block)[m] = report
  <2>1. AnswersTo(r.answers, sdu, Speech) /\ sdu.lcid = 1 /\ Head(sdu.bytes).p
        /\ RrcBlock >= 153
    BY <1>6, <1>11
  <2> HIDE DEF sdu
  <2> QED BY ONLY <2>1, ReportHeard DEF block
<1> HIDE DEF report
<1>13. down' = Append(down, block)
  BY <1>4, <1>12
<1>14. Len(down') \in 1 .. Len(down') /\ down'[Len(down')] = block
  <2>1. Len(down) \in Nat /\ Len(down') = Len(down) + 1 /\ down'[Len(down')] = block
    BY <1>13, Queues, GrownQueue
  <2> QED BY <2>1
<1>15. \E i \in 1 .. Len(down') : \E m \in 1 .. Len(PhoneSdus(down'[i])) :
         PhoneSdus(down'[i])[m] = report
  BY <1>12, <1>14
<1> QED BY <1>15 DEF Reported, report

\* The dialogue of a phone stays in order.
LEMMA DialogueHolds ==
  ASSUME RrcBlock >= 153, MaxTrouble < ConnMod
  PROVE  Spec => [](ProtocolInv /\ DialogueInv)
<1>1. ProtocolInv /\ DialogueInv /\ [Next]_vars => DialogueInv'
  BY DialoguePreserved
<1> QED BY <1>1, DialogueBegins, InvariantHolds, PTL DEF Spec

----------------------------------------------------------------------------
(* The theorems. *)

\* NoStaleAnswer: a command moves the dialogue of a phone on only if it
\* answers a message of the phone's own connection, for buffers, blocks of an
\* answer and queues of every size, and however blocks are lost and timers
\* expire early, as long as the answers fit in a block, as they do in the 153
\* bytes of the code, and fewer things go wrong than connections can be told
\* apart.
THEOREM NoAnswerIsStale ==
  ASSUME RrcBlock >= 153, MaxTrouble < ConnMod
  PROVE  Spec => NoStaleAnswer
<1>1. ProtocolInv /\ DialogueInv /\ [Next]_vars =>
        [down # <<>> /\ down' = Tail(down) /\ phase' # phase
         /\ phase' \notin {"attached", "off"} => AnswersOwn]_vars
  BY AnswerFresh
<1>2. Spec => [][down # <<>> /\ down' = Tail(down) /\ phase' # phase
                 /\ phase' \notin {"attached", "off"} => AnswersOwn]_vars
  BY <1>1, DialogueHolds, PTL DEF Spec
<1> QED BY <1>2 DEF NoStaleAnswer, AnswersOwn

\* PollIsAcknowledged: a polled fragment that the base station takes is
\* acknowledged in the same answer, with its number, for every width of the
\* numbers, whether or not rrc() answers the message, and whatever the phone
\* sends in front of it.
THEOREM PollsAreAcknowledged ==
  ASSUME RrcBlock >= 153, MaxTrouble < ConnMod
  PROVE  Spec => PollIsAcknowledged
<1>1. ProtocolInv /\ DialogueInv /\ [Next]_vars =>
        [up # <<>> /\ up' = Tail(up) /\ trouble' = trouble =>
           \A k \in 1 .. Len(Head(up).sdus) : Reported(Head(up).sdus[k], down')]_vars
  BY PollReported
<1>2. Spec => [][up # <<>> /\ up' = Tail(up) /\ trouble' = trouble =>
           \A k \in 1 .. Len(Head(up).sdus) : Reported(Head(up).sdus[k], down')]_vars
  BY <1>1, DialogueHolds, PTL DEF Spec
<1> QED BY <1>2 DEF PollIsAcknowledged, Reported
=============================================================================
