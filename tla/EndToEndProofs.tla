--------------------------- MODULE EndToEndProofs ---------------------------
(***************************************************************************)
(* The protocol layers, proved for messages, blocks and queues of every    *)
(* length: what the phone puts in a block is what mac_decode takes out,    *)
(* what is heard whole is delivered whole, and what is sent to the phone   *)
(* on channel 3 has room in its block.                                     *)
(***************************************************************************)
EXTENDS EndToEnd, NaturalFacts, SequenceTheorems, FiniteSetTheorems

----------------------------------------------------------------------------
(* Selections. *)

\* The equation of a selection has a solution.
SelectedUpto(kept, s, K) ==
  kept = [k \in 0 .. Len(s) |->
            IF k = 0 THEN <<>>
            ELSE IF k \in K THEN Append(kept[k - 1], s[k]) ELSE kept[k - 1]]

LEMMA SelectedUnfolds ==
  ASSUME NEW S, NEW s \in Seq(S), NEW K
  PROVE  \E kept : /\ Selected(s, K) = kept[Len(s)]
                   /\ kept[0] = << >>
                   /\ \A k \in 1 .. Len(s) :
                        kept[k] = IF k \in K THEN Append(kept[k - 1], s[k]) ELSE kept[k - 1]
<1> DEFINE n == Len(s)
           step == [k \in 1 .. n |-> [x \in Seq(S) |->
                      IF k \in K THEN Append(x, s[k]) ELSE x]]
           kept[k \in 0 .. Len(s)] ==
             IF k = 0 THEN <<>>
             ELSE IF k \in K THEN Append(kept[k - 1], s[k]) ELSE kept[k - 1]
<1>1. n \in Nat /\ << >> \in Seq(S) /\ \A k \in 1 .. n : s[k] \in S
  OBVIOUS
<1>2. PICK g : RecursiveUpto(g, n, << >>, step)
  <2> HIDE DEF step, n
  <2> QED BY <1>1, RecursionExists
<1>3. \A k \in 1 .. n : \A x \in Seq(S) : step[k][x] \in Seq(S)
  BY <1>1
<1>4. g \in [0 .. n -> Seq(S)]
  <2> HIDE DEF step, n
  <2> QED BY <1>1, <1>2, <1>3, RecursionStaysIn
<1>5. SelectedUpto(g, s, K)
  <2> DEFINE h == [k \in 0 .. n |->
                     IF k = 0 THEN <<>>
                     ELSE IF k \in K THEN Append(g[k - 1], s[k]) ELSE g[k - 1]]
  <2>1. ASSUME NEW k \in 0 .. n PROVE g[k] = h[k]
    <3>1. CASE k = 0
      <4>1. g[0] = << >>
        <5> HIDE DEF step
        <5> QED BY <1>1, <1>2 DEF RecursiveUpto
      <4> QED BY <3>1, <4>1
    <3>2. CASE k # 0
      <4>1. k \in 1 .. n /\ k - 1 \in 0 .. n
        BY <3>2, <1>1
      <4>2. g[k] = step[k][g[k - 1]]
        <5> HIDE DEF step
        <5> QED BY <1>2, <3>2 DEF RecursiveUpto
      <4>3. g[k - 1] \in Seq(S)
        BY <1>4, <4>1
      <4>4. step[k][g[k - 1]] = IF k \in K THEN Append(g[k - 1], s[k]) ELSE g[k - 1]
        BY <4>1, <4>3
      <4> QED BY <3>2, <4>2, <4>4
    <3> QED BY <3>1, <3>2
  <2>2. g = [k \in 0 .. n |-> g[k]] /\ h = [k \in 0 .. n |-> h[k]]
    BY <1>4
  <2> HIDE DEF h
  <2>3. g = h
    BY <2>1, <2>2
  <2> QED BY <2>3 DEF h, SelectedUpto
<1>6. SelectedUpto(kept, s, K)
  BY <1>5 DEF SelectedUpto
<1>7. Selected(s, K) = kept[Len(s)]
  BY DEF Selected
<1> HIDE DEF kept
<1>8. kept[0] = << >>
  BY <1>1, <1>6 DEF SelectedUpto
<1>9. ASSUME NEW k \in 1 .. n
      PROVE  kept[k] = IF k \in K THEN Append(kept[k - 1], s[k]) ELSE kept[k - 1]
  <2>1. k \in 0 .. Len(s) /\ k # 0
    BY <1>1
  <2> HIDE DEF step
  <2> QED BY <1>6, <2>1 DEF SelectedUpto
<1> QED BY <1>7, <1>8, <1>9

\* It is a sequence of the elements selected.
LEMMA SelectedIsSeq ==
  ASSUME NEW S, NEW s \in Seq(S), NEW K
  PROVE  Selected(s, K) \in Seq({s[k] : k \in K \cap (1 .. Len(s))})
<1> DEFINE T == {s[k] : k \in K \cap (1 .. Len(s))}
<1>1. PICK kept : /\ Selected(s, K) = kept[Len(s)]
                  /\ kept[0] = << >>
                  /\ \A k \in 1 .. Len(s) :
                       kept[k] = IF k \in K THEN Append(kept[k - 1], s[k]) ELSE kept[k - 1]
  BY SelectedUnfolds
<1>2. Len(s) \in Nat
  OBVIOUS
<1> DEFINE P == {m \in 0 .. Len(s) : kept[m] \in Seq(T)}
<1>3. 0 \in P
  <2>1. 0 \in 0 .. Len(s)
    BY <1>2
  <2> HIDE DEF T
  <2>2. << >> \in Seq(T)
    BY EmptySeq
  <2> QED BY <1>1, <2>1, <2>2
<1>4. ASSUME NEW k \in 1 .. Len(s), k - 1 \in P PROVE k \in P
  <2>1. k \in K => s[k] \in T
    OBVIOUS
  <2>2. kept[k - 1] \in Seq(T) /\ k \in 0 .. Len(s)
    BY <1>2, <1>4
  <2> HIDE DEF T
  <2>3. kept[k] = IF k \in K THEN Append(kept[k - 1], s[k]) ELSE kept[k - 1]
    BY <1>1
  <2>4. kept[k] \in Seq(T)
    BY <2>1, <2>2, <2>3
  <2> QED BY <2>2, <2>4
<1>5. 0 .. Len(s) \subseteq P
  <2> HIDE DEF P
  <2> QED BY <1>2, <1>3, <1>4, IntervalInduction
<1> QED BY <1>1, <1>2, <1>5

\* The elements behind the first o.
LEMMA SelectedTail ==
  ASSUME NEW S, NEW s \in Seq(S), NEW o \in 0 .. Len(s), NEW K,
         \A k \in 1 .. Len(s) : k \in K <=> k > o
  PROVE  Selected(s, K) = SubSeq(s, o + 1, Len(s))
<1>1. PICK kept : /\ Selected(s, K) = kept[Len(s)]
                  /\ kept[0] = << >>
                  /\ \A k \in 1 .. Len(s) :
                       kept[k] = IF k \in K THEN Append(kept[k - 1], s[k]) ELSE kept[k - 1]
  BY SelectedUnfolds
<1>2. Len(s) \in Nat /\ o \in Nat
  OBVIOUS
<1> DEFINE P == {m \in 0 .. Len(s) : kept[m] = SubSeq(s, o + 1, m)}
<1>3. 0 \in P
  <2>1. SubSeq(s, o + 1, 0) = << >>
    BY <1>2, SubSeqEmpty
  <2>2. 0 \in 0 .. Len(s)
    BY <1>2
  <2> QED BY <1>1, <2>1, <2>2
<1>4. ASSUME NEW k \in 1 .. Len(s), k - 1 \in P PROVE k \in P
  <2>1. kept[k - 1] = SubSeq(s, o + 1, k - 1) /\ k \in 0 .. Len(s) /\ k \in Int
    BY <1>2, <1>4
  <2>2. CASE k <= o
    <3>1. SubSeq(s, o + 1, k) = << >>
      BY <1>2, <2>1, <2>2, SubSeqEmpty
    <3>2. SubSeq(s, o + 1, k - 1) = << >>
      BY <1>2, <2>1, <2>2, SubSeqEmpty
    <3>3. k \notin K
      BY <1>2, <2>2
    <3>4. kept[k] = kept[k - 1]
      BY <1>1, <3>3
    <3> QED BY <2>1, <3>1, <3>2, <3>4
  <2>3. CASE k > o
    <3>1. o + 1 \in 1 .. Len(s) /\ k \in o + 1 .. Len(s)
      BY <1>2, <2>1, <2>3
    <3>2. SubSeq(s, o + 1, k) = SubSeq(s, o + 1, k - 1) \o << s[k] >>
      BY <3>1, SubSeqRecursiveSecond
    <3>3. \A i \in o + 1 .. k - 1 : s[i] \in S
      BY <1>2, <2>1
    <3>4. SubSeq(s, o + 1, k - 1) \in Seq(S) /\ s[k] \in S
      BY <1>2, <2>1, <3>3, SubSeqProperties
    <3> DEFINE t == SubSeq(s, o + 1, k - 1)
    <3> HIDE DEF t
    <3>5. t \o << s[k] >> = Append(t, s[k])
      BY <3>4, AppendIsConcat DEF t
    <3>6. kept[k] = Append(kept[k - 1], s[k])
      BY <1>1, <2>3
    <3> QED BY <2>1, <3>2, <3>5, <3>6 DEF t
  <2> QED BY <1>2, <2>1, <2>2, <2>3
<1>5. 0 .. Len(s) \subseteq P
  <2> HIDE DEF P
  <2> QED BY <1>2, <1>3, <1>4, IntervalInduction
<1> QED BY <1>1, <1>2, <1>5

----------------------------------------------------------------------------
(* The parts of a block. *)

\* SDUs with units of S.
HoldUnits(sdus, S) ==
  Len(sdus) \in Nat /\ \A k \in 1 .. Len(sdus) : sdus[k].bytes \in Seq(S)

\* The bodies of the SDUs so far, one behind the other.
Concatenated(cat, sdus) ==
  /\ cat[0] = << >>
  /\ \A k \in 1 .. Len(sdus) : cat[k] = cat[k - 1] \o sdus[k].bytes

LEMMA BodiesUnfold ==
  ASSUME NEW S, NEW sdus, HoldUnits(sdus, S)
  PROVE  \E cat \in [0 .. Len(sdus) -> Seq(S)] :
           Concatenated(cat, sdus) /\ Bodies(sdus) = cat[Len(sdus)]
<1> DEFINE n == Len(sdus)
           step == [k \in 1 .. n |-> [x \in Seq(S) |-> x \o sdus[k].bytes]]
           cat[k \in 0 .. Len(sdus)] ==
             IF k = 0 THEN <<>> ELSE cat[k - 1] \o sdus[k].bytes
<1>1. n \in Nat /\ << >> \in Seq(S) /\ \A k \in 1 .. n : sdus[k].bytes \in Seq(S)
  BY DEF HoldUnits
<1>2. PICK g : RecursiveUpto(g, n, << >>, step)
  <2> HIDE DEF step, n
  <2> QED BY <1>1, RecursionExists
<1>3. \A k \in 1 .. n : \A x \in Seq(S) : step[k][x] \in Seq(S)
  BY <1>1
<1>4. g \in [0 .. n -> Seq(S)]
  <2> HIDE DEF step, n
  <2> QED BY <1>1, <1>2, <1>3, RecursionStaysIn
<1>5. g[0] = << >>
  <2> HIDE DEF step
  <2> QED BY <1>1, <1>2 DEF RecursiveUpto
<1>6. ASSUME NEW k \in 1 .. n PROVE g[k] = g[k - 1] \o sdus[k].bytes
  <2>1. k \in 0 .. n /\ k # 0 /\ k - 1 \in 0 .. n
    BY <1>1
  <2>2. g[k] = step[k][g[k - 1]]
    <3> HIDE DEF step
    <3> QED BY <1>2, <2>1 DEF RecursiveUpto
  <2>3. g[k - 1] \in Seq(S)
    BY <1>4, <2>1
  <2> QED BY <2>2, <2>3
<1>7. g = [k \in 0 .. Len(sdus) |-> IF k = 0 THEN <<>> ELSE g[k - 1] \o sdus[k].bytes]
  <2> DEFINE h == [k \in 0 .. n |-> IF k = 0 THEN <<>> ELSE g[k - 1] \o sdus[k].bytes]
  <2>1. ASSUME NEW k \in 0 .. n PROVE g[k] = h[k]
    <3>1. CASE k = 0
      BY <1>5, <3>1
    <3>2. CASE k # 0
      <4>1. k \in 1 .. n
        BY <1>1, <3>2
      <4> QED BY <1>6, <3>2, <4>1
    <3> QED BY <3>1, <3>2
  <2>2. g = [k \in 0 .. n |-> g[k]] /\ h = [k \in 0 .. n |-> h[k]]
    BY <1>4
  <2> HIDE DEF h
  <2>3. g = h
    BY <2>1, <2>2
  <2> QED BY <2>3 DEF h
<1>8. cat = [k \in 0 .. Len(sdus) |-> IF k = 0 THEN <<>> ELSE cat[k - 1] \o sdus[k].bytes]
  BY <1>7
<1>9. Bodies(sdus) = cat[n]
  BY DEF Bodies
<1> HIDE DEF cat, step
<1>10. Concatenated(cat, sdus)
  <2>1. cat[0] = << >>
    BY <1>1, <1>8
  <2>2. ASSUME NEW k \in 1 .. Len(sdus) PROVE cat[k] = cat[k - 1] \o sdus[k].bytes
    <3>1. k \in 0 .. Len(sdus) /\ k # 0
      BY <1>1
    <3> QED BY <1>8, <3>1
  <2> QED BY <2>1, <2>2 DEF Concatenated
<1>11. cat \in [0 .. Len(sdus) -> Seq(S)]
  <2> DEFINE P == {m \in 0 .. n : cat[m] \in Seq(S)}
  <2>1. 0 \in P
    <3>1. cat[0] \in Seq(S) /\ 0 \in 0 .. n
      BY <1>1, <1>10 DEF Concatenated
    <3> QED BY <3>1
  <2>2. ASSUME NEW k \in 1 .. n, k - 1 \in P PROVE k \in P
    <3>1. cat[k] = cat[k - 1] \o sdus[k].bytes
      BY <1>10 DEF Concatenated
    <3>2. cat[k - 1] \in Seq(S) /\ k \in 0 .. n
      BY <1>1, <2>2
    <3>3. sdus[k].bytes \in Seq(S)
      BY <1>1
    <3>4. cat[k] \in Seq(S)
      BY <3>1, <3>2, <3>3
    <3> QED BY <3>2, <3>4
  <2>3. 0 .. n \subseteq P
    <3> HIDE DEF P, n
    <3> QED BY <1>1, <2>1, <2>2, IntervalInduction
  <2>4. cat = [k \in 0 .. n |-> cat[k]]
    <3> DEFINE e(k) == IF k = 0 THEN << >> ELSE cat[k - 1] \o sdus[k].bytes
    <3>1. cat = [k \in 0 .. n |-> e(k)]
      BY <1>8
    <3> HIDE DEF e
    <3> QED BY <3>1
  <2> QED BY <2>3, <2>4
<1> QED BY <1>9, <1>10, <1>11

\* Every SDU is found in the bodies, behind those before it.
FoundIn(cat, sdus, S) ==
  /\ cat \in [0 .. Len(sdus) -> Seq(S)]
  /\ cat[0] = << >> /\ Bodies(sdus) = cat[Len(sdus)]
  /\ \A k \in 1 .. Len(sdus) :
       /\ Len(cat[k]) = Len(cat[k - 1]) + Len(sdus[k].bytes)
       /\ Len(cat[k]) <= Len(cat[Len(sdus)])
       /\ \A i \in 1 .. Len(sdus[k].bytes) :
            cat[Len(sdus)][Len(cat[k - 1]) + i] = sdus[k].bytes[i]

LEMMA BodiesFound ==
  ASSUME NEW S, NEW sdus, HoldUnits(sdus, S)
  PROVE  \E cat : FoundIn(cat, sdus, S)
<1>0. PICK cat \in [0 .. Len(sdus) -> Seq(S)] :
        Concatenated(cat, sdus) /\ Bodies(sdus) = cat[Len(sdus)]
  BY BodiesUnfold
<1> DEFINE n == Len(sdus)
           b(k) == sdus[k].bytes
           Found(k, m) == /\ Len(cat[k]) <= Len(cat[m])
                          /\ \A i \in 1 .. Len(b(k)) : cat[m][Len(cat[k - 1]) + i] = b(k)[i]
           P == {m \in 0 .. n : \A k \in 1 .. m : Found(k, m)}
<1>1. n \in Nat /\ \A k \in 1 .. n : b(k) \in Seq(S)
  BY DEF HoldUnits
<1>2. \A k \in 0 .. n : cat[k] \in Seq(S) /\ Len(cat[k]) \in Nat
  BY <1>0
<1>3. cat[0] = << >> /\ \A k \in 1 .. n : cat[k] = cat[k - 1] \o b(k)
  BY <1>0 DEF Concatenated
<1> HIDE DEF n, b
<1>4. ASSUME NEW k \in 1 .. n
      PROVE  /\ Len(cat[k]) = Len(cat[k - 1]) + Len(b(k))
             /\ \A i \in 1 .. Len(cat[k - 1]) : cat[k][i] = cat[k - 1][i]
             /\ \A i \in 1 .. Len(b(k)) : cat[k][Len(cat[k - 1]) + i] = b(k)[i]
  <2>1. k - 1 \in 0 .. n /\ k \in 0 .. n
    BY <1>1
  <2>2. cat[k] = cat[k - 1] \o b(k) /\ cat[k - 1] \in Seq(S) /\ b(k) \in Seq(S)
    BY <1>1, <1>2, <1>3, <2>1
  <2> QED BY <2>2, ConcatProperties
<1>5. 0 \in P
  BY <1>1
<1>6. ASSUME NEW m \in 1 .. n, m - 1 \in P PROVE m \in P
  <2>1. m - 1 \in 0 .. n /\ m \in 0 .. n /\ \A k \in 1 .. m - 1 : Found(k, m - 1)
    BY <1>1, <1>6
  <2>2. Len(cat[m - 1]) \in Nat /\ Len(cat[m]) \in Nat /\ Len(b(m)) \in Nat
    BY <1>1, <1>2, <2>1
  <2>3. Len(cat[m - 1]) <= Len(cat[m])
    BY <1>4, <2>2
  <2>4. ASSUME NEW k \in 1 .. m PROVE Found(k, m)
    <3>1. CASE k = m
      BY <1>4, <2>2, <3>1
    <3>2. CASE k # m
      <4>1. k \in 1 .. m - 1 /\ k \in 1 .. n /\ k \in 0 .. n /\ k - 1 \in 0 .. n
        BY <1>1, <2>1, <3>2
      <4>2. Found(k, m - 1)
        BY <2>1, <4>1
      <4>3. /\ Len(cat[k]) \in Nat /\ Len(cat[k - 1]) \in Nat /\ Len(b(k)) \in Nat
            /\ Len(cat[k]) = Len(cat[k - 1]) + Len(b(k))
        BY <1>1, <1>2, <1>4, <4>1
      <4>4. Len(cat[k]) <= Len(cat[m])
        BY <2>2, <2>3, <4>2, <4>3
      <4>5. ASSUME NEW i \in 1 .. Len(b(k))
            PROVE  cat[m][Len(cat[k - 1]) + i] = b(k)[i]
        <5>1. Len(cat[k - 1]) + i \in 1 .. Len(cat[m - 1])
          <6> DEFINE a == Len(cat[k - 1])
                     l == Len(b(k))
                     c == Len(cat[k])
                     e == Len(cat[m - 1])
          <6>1. a \in Nat /\ l \in Nat /\ e \in Nat /\ c = a + l /\ c <= e /\ i \in 1 .. l
            BY <2>2, <4>2, <4>3
          <6> HIDE DEF a, l, c, e
          <6>2. a + i \in 1 .. e
            BY ONLY <6>1
          <6> QED BY <6>2 DEF a, e
        <5>2. cat[m][Len(cat[k - 1]) + i] = cat[m - 1][Len(cat[k - 1]) + i]
          <6> DEFINE j == Len(cat[k - 1]) + i
          <6> HIDE DEF j
          <6>1. j \in 1 .. Len(cat[m - 1])
            BY <5>1 DEF j
          <6>2. cat[m][j] = cat[m - 1][j]
            BY <1>4, <6>1
          <6> QED BY <6>2 DEF j
        <5> QED BY <4>2, <5>2
      <4> QED BY <4>4, <4>5
    <3> QED BY <3>1, <3>2
  <2> HIDE DEF Found
  <2> QED BY <2>1, <2>4
<1>7. n \in P
  <2>1. 0 .. n \subseteq P
    <3> HIDE DEF P
    <3> QED BY <1>1, <1>5, <1>6, IntervalInduction
  <2> QED BY <1>1, <2>1
<1>8. \A k \in 1 .. n : Found(k, n)
  BY <1>7
<1>9. FoundIn(cat, sdus, S)
  BY <1>0, <1>3, <1>4, <1>8 DEF n, b, FoundIn
<1> QED BY <1>9

\* Where the parts start, behind one another.
LEMMA StartsUnfold ==
  ASSUME NEW head, Len(head) \in Nat \ {0},
         \A k \in 1 .. Len(head) - 1 : GivenLength(head[k]) \in Nat
  PROVE  /\ \A k \in 1 .. Len(head) : Starts(head)[k] \in Nat
         /\ Starts(head)[1] = 0
         /\ \A k \in 1 .. Len(head) - 1 :
              Starts(head)[k + 1] = Starts(head)[k] + GivenLength(head[k])
<1> DEFINE n == Len(head)
           step == [k \in 1 .. n - 1 |-> [x \in Nat |-> x + GivenLength(head[k])]]
           start[k \in 1 .. Len(head)] ==
             IF k = 1 THEN 0 ELSE start[k - 1] + GivenLength(head[k - 1])
<1>1. n \in Nat \ {0} /\ n - 1 \in Nat
  OBVIOUS
<1>2. PICK g : RecursiveUpto(g, n - 1, 0, step)
  <2> HIDE DEF step, n
  <2> QED BY <1>1, RecursionExists
<1>3. \A k \in 1 .. n - 1 : \A x \in Nat : step[k][x] \in Nat
  OBVIOUS
<1>4. g \in [0 .. n - 1 -> Nat]
  <2> HIDE DEF step, n
  <2> QED BY <1>1, <1>2, <1>3, RecursionStaysIn
<1>5. g[0] = 0
  <2> HIDE DEF step
  <2> QED BY <1>1, <1>2 DEF RecursiveUpto
<1>6. ASSUME NEW k \in 1 .. n - 1 PROVE g[k] = g[k - 1] + GivenLength(head[k])
  <2>1. k \in 0 .. n - 1 /\ k # 0 /\ k - 1 \in 0 .. n - 1
    BY <1>1
  <2>2. g[k] = step[k][g[k - 1]]
    <3> HIDE DEF step
    <3> QED BY <1>2, <2>1 DEF RecursiveUpto
  <2>3. g[k - 1] \in Nat
    BY <1>4, <2>1
  <2> QED BY <2>2, <2>3
<1> DEFINE h == [k \in 1 .. n |-> g[k - 1]]
<1>7. h = [k \in 1 .. Len(head) |-> IF k = 1 THEN 0 ELSE h[k - 1] + GivenLength(head[k - 1])]
  <2> DEFINE r == [k \in 1 .. n |-> IF k = 1 THEN 0 ELSE h[k - 1] + GivenLength(head[k - 1])]
  <2>1. ASSUME NEW k \in 1 .. n PROVE h[k] = r[k]
    <3>1. CASE k = 1
      BY <1>5, <3>1
    <3>2. CASE k # 1
      <4>1. k - 1 \in 1 .. n - 1 /\ k - 1 \in 1 .. n
        BY <1>1, <3>2
      <4>2. g[k - 1] = g[(k - 1) - 1] + GivenLength(head[k - 1])
        <5> HIDE DEF step, n
        <5> QED BY <1>6, <4>1
      <4>3. h[k - 1] = g[(k - 1) - 1]
        BY <4>1
      <4> QED BY <3>2, <4>2, <4>3
    <3> QED BY <3>1, <3>2
  <2>2. h = [k \in 1 .. n |-> h[k]] /\ r = [k \in 1 .. n |-> r[k]]
    OBVIOUS
  <2> HIDE DEF r, h
  <2>3. h = r
    BY <2>1, <2>2
  <2> QED BY <2>3 DEF r
<1>8. start = [k \in 1 .. Len(head) |->
                 IF k = 1 THEN 0 ELSE start[k - 1] + GivenLength(head[k - 1])]
  <2> HIDE DEF h, step
  <2> QED BY <1>7
<1>9. Starts(head) = start
  BY DEF Starts
<1> HIDE DEF start, step, h
<1>10. start[1] = 0
  BY <1>1, <1>8
<1>11. ASSUME NEW k \in 1 .. n - 1 PROVE start[k + 1] = start[k] + GivenLength(head[k])
  <2>1. k + 1 \in 1 .. Len(head) /\ k + 1 # 1 /\ (k + 1) - 1 = k
    BY <1>1
  <2> QED BY <1>8, <2>1
<1>12. \A k \in 1 .. n : start[k] \in Nat
  <2> DEFINE P == {m \in 0 .. n - 1 : start[m + 1] \in Nat}
  <2>1. 0 \in P
    BY <1>1, <1>10
  <2>2. ASSUME NEW k \in 1 .. n - 1, k - 1 \in P PROVE k \in P
    <3>1. start[k] \in Nat /\ k \in 0 .. n - 1 /\ GivenLength(head[k]) \in Nat
      BY <1>1, <2>2
    <3> QED BY <1>11, <3>1
  <2>3. 0 .. n - 1 \subseteq P
    <3> HIDE DEF P, n
    <3> QED BY <1>1, <2>1, <2>2, IntervalInduction
  <2>4. ASSUME NEW k \in 1 .. n PROVE start[k] \in Nat
    <3>1. k - 1 \in 0 .. n - 1 /\ (k - 1) + 1 = k
      BY <1>1
    <3> QED BY <2>3, <3>1
  <2> QED BY <2>4
<1> QED BY <1>9, <1>10, <1>11, <1>12

LEMMA SduLength ==
  ASSUME NEW lcid \in 0 .. 10
  PROVE  lcid_length(lcid) = 0 /\ lcid # Padding
BY DEF lcid_length, Padding

LEMMA SmallerIs ==
  ASSUME NEW a \in Int, NEW b \in Int, a <= b
  PROVE  Smaller(a, b) = a
BY DEF Smaller

\* mac_decode finds the SDUs that the phone put in a block of any length,
\* behind a control element or not.
LEMMA PhonePduDecodes ==
  ASSUME NEW S, NEW sdus \in Seq([lcid : 0 .. 10, bytes : Seq(S)]), sdus # << >>,
         NEW ce \in BOOLEAN
  PROVE  mac_decode(PhonePdu(ce, sdus)) = sdus
<1> DEFINE n == Len(sdus)
           o == IF ce THEN 1 ELSE 0
           pdu == PhonePdu(ce, sdus)
           head == pdu.head
           body == pdu.body
           b(k) == sdus[k].bytes
           bsr == [kind |-> "bsr"]
           U == S \union {bsr}
           control == [lcid |-> 29, e |-> 1, length |-> 0]
           sub(k) == [lcid |-> sdus[k].lcid, e |-> IF k = n THEN 0 ELSE 1,
                      length |-> Len(sdus[k].bytes)]
<1>1. n \in Nat \ {0} /\ o \in {0, 1}
  OBVIOUS
<1>2. ASSUME NEW k \in 1 .. n
      PROVE  /\ sdus[k] = [lcid |-> sdus[k].lcid, bytes |-> b(k)]
             /\ sdus[k].lcid \in 0 .. 10 /\ b(k) \in Seq(S) /\ Len(b(k)) \in Nat
  <2>1. sdus[k] \in [lcid : 0 .. 10, bytes : Seq(S)]
    BY ElementOfSeq
  <2>2. b(k) \in Seq(S)
    BY <2>1
  <2>3. Len(b(k)) \in Nat
    <3> HIDE DEF b
    <3> QED BY <2>2
  <2> QED BY <2>1, <2>2, <2>3
<1>3. /\ Len(head) = n + o
      /\ \A k \in 1 .. n : head[k + o] = sub(k)
      /\ o = 1 => head[1] = control
  <2> DEFINE T == {control} \union {sub(k) : k \in 1 .. n}
             front == IF ce THEN << control >> ELSE << >>
             rest == [k \in 1 .. n |-> sub(k)]
  <2>1. head = front \o rest
    BY DEF PhonePdu
  <2>2. rest \in Seq(T) /\ Len(rest) = n /\ \A k \in 1 .. n : rest[k] = sub(k)
    <3>1. \A k \in 1 .. n : sub(k) \in T
      OBVIOUS
    <3> HIDE DEF T, sub, n
    <3> QED BY <1>1, <3>1
  <2>3. front \in Seq(T) /\ Len(front) = o /\ (o = 1 => front[1] = control)
    <3>1. control \in T
      OBVIOUS
    <3> HIDE DEF T, control
    <3> QED BY <3>1
  <2> HIDE DEF T, front, rest, sub, n, control, o
  <2>4. /\ Len(front \o rest) = o + n
        /\ \A i \in 1 .. o : (front \o rest)[i] = front[i]
        /\ \A i \in 1 .. n : (front \o rest)[o + i] = rest[i]
    BY <1>1, <2>2, <2>3, ConcatProperties
  <2> QED BY <1>1, <2>1, <2>2, <2>3, <2>4
<1>4. PICK cat : FoundIn(cat, sdus, S)
  <2>1. HoldUnits(sdus, S)
    BY <1>1, <1>2 DEF HoldUnits
  <2> QED BY <2>1, BodiesFound
<1>5. \A k \in 1 .. n :
        /\ Len(cat[k]) = Len(cat[k - 1]) + Len(b(k))
        /\ Len(cat[k]) <= Len(cat[n])
        /\ \A i \in 1 .. Len(b(k)) : cat[n][Len(cat[k - 1]) + i] = b(k)[i]
  BY <1>4 DEF FoundIn
<1>6. \A k \in 0 .. n : cat[k] \in Seq(S) /\ Len(cat[k]) \in Nat
  <2>1. cat \in [0 .. n -> Seq(S)]
    BY <1>4 DEF FoundIn
  <2> HIDE DEF n
  <2> QED BY ONLY <2>1
<1>7. cat[0] = << >> /\ Len(cat[0]) = 0
  BY <1>4 DEF FoundIn
<1>8. /\ body \in Seq(U) /\ Len(body) = o + Len(cat[n])
      /\ \A i \in 1 .. Len(cat[n]) : body[o + i] = cat[n][i]
  <2> DEFINE front == IF ce THEN << bsr >> ELSE << >>
  <2>1. body = front \o cat[n]
    BY <1>4 DEF PhonePdu, FoundIn
  <2>2. front \in Seq(U) /\ Len(front) = o
    <3>1. bsr \in U
      OBVIOUS
    <3> HIDE DEF U, bsr
    <3> QED BY <3>1
  <2>3. cat[n] \in Seq(U) /\ Len(cat[n]) \in Nat
    <3>1. cat[n] \in Seq(S) /\ S \subseteq U
      BY <1>1, <1>6
    <3> HIDE DEF U, n
    <3> QED BY <3>1, SeqMonotonic
  <2> DEFINE rest == cat[n]
  <2>4. o \in Nat /\ o + Len(rest) \in Nat
    <3> DEFINE l == Len(rest)
    <3>1. l \in Nat /\ o \in Nat
      BY <1>1, <2>3
    <3> HIDE DEF l, o
    <3> QED BY ONLY <3>1 DEF l
  <2> HIDE DEF front, U, n, o, bsr, body, rest
  <2>5. /\ front \o rest \in Seq(U) /\ Len(front \o rest) = o + Len(rest)
        /\ \A i \in 1 .. o + Len(rest) : (front \o rest)[i] =
                     IF i <= o THEN front[i] ELSE rest[i - o]
    BY <2>2, <2>3, ConcatProperties DEF rest
  <2>6. ASSUME NEW i \in 1 .. Len(rest) PROVE (front \o rest)[o + i] = rest[i]
    <3>1. o + i \in 1 .. o + Len(rest) /\ ~ (o + i <= o) /\ (o + i) - o = i
      BY <2>4
    <3> QED BY <2>5, <3>1
  <2> QED BY <2>1, <2>5, <2>6 DEF rest
<1> HIDE DEF sub, control, bsr, U
<1>9. ASSUME NEW k \in 1 .. n
      PROVE  /\ head[k + o].lcid = sdus[k].lcid /\ head[k + o].length = Len(b(k))
             /\ head[k + o].e = IF k = n THEN 0 ELSE 1
             /\ GivenLength(head[k + o]) = Len(b(k))
             /\ lcid_length(head[k + o].lcid) = 0 /\ head[k + o].lcid # Padding
  <2>1. head[k + o] = sub(k)
    BY <1>3
  <2>2. /\ head[k + o].lcid = sdus[k].lcid /\ head[k + o].length = Len(b(k))
        /\ head[k + o].e = IF k = n THEN 0 ELSE 1
    BY <2>1 DEF sub
  <2>3. sdus[k].lcid \in 0 .. 10
    BY <1>2
  <2> HIDE DEF head, n, o, b
  <2>4. lcid_length(head[k + o].lcid) = 0 /\ head[k + o].lcid # Padding
    BY <2>2, <2>3, SduLength
  <2> QED BY <2>2, <2>4 DEF GivenLength
<1>10. o = 1 => head[1].lcid = 29 /\ head[1].e = 1 /\ GivenLength(head[1]) = 1
  <2> SUFFICES ASSUME o = 1
               PROVE  head[1].lcid = 29 /\ head[1].e = 1 /\ GivenLength(head[1]) = 1
    OBVIOUS
  <2>1. head[1].lcid = 29 /\ head[1].e = 1
    BY <1>3 DEF control
  <2> HIDE DEF head
  <2> QED BY <2>1 DEF GivenLength, lcid_length, Padding
<1> HIDE DEF head, body, n, o, b
<1>11. ASSUME NEW j \in 1 .. n + o
       PROVE  (j = 1 /\ o = 1) \/ \E k \in 1 .. n : j = k + o
  <2>1. CASE j > o
    <3>1. j - o \in 1 .. n /\ j = (j - o) + o
      BY <1>1, <2>1
    <3> QED BY <3>1
  <2>2. CASE ~ (j > o)
    BY <1>1, <2>2
  <2> QED BY <2>1, <2>2
<1>12. Read(head) = n + o
  <2> DEFINE Ends(m) == head[m].e = 0 /\ \A k \in 1 .. m - 1 : head[k].e = 1
  <2>1. n + o \in 1 .. Len(head)
    BY <1>1, <1>3
  <2>2. \A j \in 1 .. n + o : head[j].e = IF j = n + o THEN 0 ELSE 1
    <3> TAKE j \in 1 .. n + o
    <3>1. CASE j = 1 /\ o = 1
      BY <1>1, <1>10, <3>1
    <3>2. ASSUME NEW k \in 1 .. n, j = k + o PROVE head[j].e = IF j = n + o THEN 0 ELSE 1
      <4>1. k = n <=> j = n + o
        BY <1>1, <3>2
      <4> QED BY <1>9, <3>2, <4>1
    <3> QED BY <1>11, <3>1, <3>2
  <2>3. Ends(n + o)
    BY <1>1, <2>2
  <2>4. ASSUME NEW m \in 1 .. Len(head), Ends(m) PROVE m = n + o
    BY <1>3, <2>2, <2>4
  <2>5. Read(head) = CHOOSE m \in 1 .. Len(head) : Ends(m)
    BY DEF Read
  <2> HIDE DEF Ends
  <2> QED BY <2>1, <2>3, <2>4, <2>5
<1>13. \A k \in 1 .. n : Starts(head)[k + o] = o + Len(cat[k - 1])
  <2>1. \A j \in 1 .. Len(head) - 1 : GivenLength(head[j]) \in Nat
    <3> TAKE j \in 1 .. Len(head) - 1
    <3>1. j \in 1 .. n + o
      BY <1>1, <1>3
    <3> QED BY <1>2, <1>9, <1>10, <1>11, <3>1
  <2>2. /\ Starts(head)[1] = 0
        /\ \A k \in 1 .. Len(head) - 1 :
             Starts(head)[k + 1] = Starts(head)[k] + GivenLength(head[k])
    <3>1. Len(head) \in Nat \ {0}
      BY <1>1, <1>3
    <3> QED BY <2>1, <3>1, StartsUnfold
  <2> DEFINE P == {m \in 0 .. n - 1 : Starts(head)[(m + 1) + o] = o + Len(cat[m])}
  <2>3. 0 \in P
    <3>1. Starts(head)[1 + o] = o
      <4>1. CASE o = 0
        BY <2>2, <4>1
      <4>2. CASE o = 1
        <5>1. 1 \in 1 .. Len(head) - 1
          BY <1>1, <1>3, <4>2
        <5>2. Starts(head)[1 + 1] = Starts(head)[1] + GivenLength(head[1])
          BY <2>2, <5>1
        <5> QED BY <1>10, <2>2, <4>2, <5>2
      <4> QED BY <1>1, <4>1, <4>2
    <3>2. 0 \in 0 .. n - 1 /\ o + Len(cat[0]) = o
      BY <1>1, <1>7
    <3> QED BY <3>1, <3>2
  <2>4. ASSUME NEW k \in 1 .. n - 1, k - 1 \in P PROVE k \in P
    <3>1. k \in 1 .. n /\ k \in 0 .. n - 1 /\ k - 1 \in 0 .. n /\ k \in 0 .. n
          /\ (k - 1) + 1 = k
      BY <1>1
    <3>2. Starts(head)[k + o] = o + Len(cat[k - 1])
      BY <2>4, <3>1
    <3>3. k + o \in 1 .. Len(head) - 1
      BY <1>1, <1>3, <3>1
    <3>4. Starts(head)[(k + o) + 1] = Starts(head)[k + o] + Len(b(k))
      BY <1>9, <2>2, <3>1, <3>3
    <3>5. (k + 1) + o = (k + o) + 1
      BY <1>1
    <3>6. Starts(head)[(k + 1) + o] = o + Len(cat[k])
      <4>1. Len(cat[k]) = Len(cat[k - 1]) + Len(b(k))
        BY <1>5, <3>1
      <4>2. Len(cat[k - 1]) \in Nat /\ Len(b(k)) \in Nat
        BY <1>2, <1>6, <3>1
      <4>3. Starts(head)[(k + 1) + o] = (o + Len(cat[k - 1])) + Len(b(k))
        BY <3>2, <3>4, <3>5
      <4> QED BY <1>1, <4>1, <4>2, <4>3
    <3> QED BY <3>1, <3>6
  <2>5. 0 .. n - 1 \subseteq P
    <3>1. n - 1 \in Nat
      BY <1>1
    <3> HIDE DEF P
    <3> QED BY <2>3, <2>4, <3>1, IntervalInduction
  <2> TAKE k \in 1 .. n
  <2>6. k - 1 \in 0 .. n - 1 /\ (k - 1) + 1 = k
    BY <1>1
  <2> QED BY <2>5, <2>6
<1> DEFINE start == Starts(head)
           part(k) == [lcid |-> head[k].lcid,
                       bytes |-> SubSeq(body, start[k] + 1,
                                        Smaller(start[k] + PartLength(pdu, k), Len(body)))]
           all == [k \in 1 .. n + o |-> part(k)]
<1>14. ASSUME NEW k \in 1 .. n PROVE part(k + o) = sdus[k]
  <2>1. PartLength(pdu, k + o) = Len(b(k))
    <3>1. CASE k = n
      <4>1. head[k + o].e = 0
        BY <1>9, <3>1
      <4>2. PartLength(pdu, k + o) = Len(body) - Starts(head)[k + o]
        BY <1>9, <4>1 DEF PartLength, head, body
      <4>3. n \in 0 .. n /\ n - 1 \in 0 .. n
        BY <1>1
      <4>4. Len(cat[k - 1]) \in Nat /\ Len(b(k)) \in Nat
        BY <1>2, <1>6, <3>1, <4>3
      <4>5. Len(cat[n]) = Len(cat[k - 1]) + Len(b(k)) /\ Len(body) = o + Len(cat[n])
        BY <1>5, <1>8, <3>1
      <4>6. Starts(head)[k + o] = o + Len(cat[k - 1])
        BY <1>13
      <4> QED BY <1>1, <4>2, <4>4, <4>5, <4>6
    <3>2. CASE k # n
      <4>1. head[k + o].e = 1
        BY <1>9, <3>2
      <4>2. PartLength(pdu, k + o) = GivenLength(head[k + o])
        BY <4>1 DEF PartLength, head
      <4> QED BY <1>9, <4>2
    <3> QED BY <3>1, <3>2
  <2>2. start[k + o] = o + Len(cat[k - 1])
    BY <1>13
  <2> DEFINE from == o + Len(cat[k - 1])
  <2>3. /\ k - 1 \in 0 .. n /\ k \in 0 .. n /\ n \in 0 .. n
        /\ Len(cat[k - 1]) \in Nat /\ Len(cat[k]) \in Nat /\ Len(cat[n]) \in Nat
    BY <1>1, <1>6
  <2>4. Len(b(k)) \in Nat /\ from \in Nat /\ from + Len(b(k)) <= Len(body)
    <3>1. Len(b(k)) \in Nat
      BY <1>2
    <3>2. Len(cat[k]) = Len(cat[k - 1]) + Len(b(k)) /\ Len(cat[k]) <= Len(cat[n])
      BY <1>5
    <3>3. o \in Nat /\ Len(body) = o + Len(cat[n])
      BY <1>1, <1>8
    <3> QED BY ONLY <2>3, <3>1, <3>2, <3>3
  <2>5. Smaller(from + Len(b(k)), Len(body)) = from + Len(b(k))
    <3>1. Len(body) \in Nat
      BY <1>1, <1>8, <2>3
    <3> HIDE DEF from
    <3>2. from + Len(b(k)) \in Int
      BY <2>4
    <3> QED BY <2>4, <3>1, <3>2, SmallerIs
  <2>6. SubSeq(body, from + 1, from + Len(b(k))) = b(k)
    <3> DEFINE t == SubSeq(body, from + 1, from + Len(b(k)))
    <3>1. \A i \in from + 1 .. from + Len(b(k)) : body[i] \in U
      <4> TAKE i \in from + 1 .. from + Len(b(k))
      <4>1. i \in 1 .. Len(body)
        <5> DEFINE to == from + Len(b(k))
        <5>1. /\ from \in Nat /\ to <= Len(body) /\ Len(body) \in Nat /\ to \in Nat
              /\ i \in from + 1 .. to
          BY <1>8, <2>4
        <5> QED BY ONLY <5>1
      <4> QED BY <1>8, <4>1
    <3>2. /\ t \in Seq(U)
          /\ Len(t) = Len(b(k))
          /\ \A i \in 1 .. Len(b(k)) : t[i] = body[from + i]
      <4> HIDE DEF from
      <4>1. from + 1 \in Int /\ from + Len(b(k)) \in Int
        BY <2>4
      <4>2. /\ t \in Seq(U)
            /\ Len(t) = IF from + 1 <= from + Len(b(k))
                        THEN (from + Len(b(k))) - (from + 1) + 1 ELSE 0
            /\ \A i \in 1 .. (from + Len(b(k))) - (from + 1) + 1 : t[i] = body[(from + 1) + i - 1]
        BY <3>1, <4>1, SubSeqProperties
      <4>3. (from + Len(b(k))) - (from + 1) + 1 = Len(b(k))
        BY <2>4
      <4>4. Len(t) = Len(b(k))
        BY <2>4, <4>2, <4>3
      <4>5. ASSUME NEW i \in 1 .. Len(b(k)) PROVE t[i] = body[from + i]
        <5>1. (from + 1) + i - 1 = from + i
          BY <2>4
        <5> HIDE DEF t
        <5> QED BY <4>2, <4>3, <5>1
      <4> QED BY <4>2, <4>4, <4>5
    <3>3. ASSUME NEW i \in 1 .. Len(b(k)) PROVE body[from + i] = b(k)[i]
      <4>1. Len(cat[k - 1]) + i \in 1 .. Len(cat[n])
        <5> DEFINE a == Len(cat[k - 1])
                   l == Len(b(k))
                   c == Len(cat[k])
                   z == Len(cat[n])
        <5>1. a \in Nat /\ l \in Nat /\ z \in Nat /\ i \in 1 .. l
          BY <1>2, <2>3
        <5>2. c = a + l /\ c <= z
          BY <1>5
        <5> HIDE DEF a, l, c, z
        <5>3. a + i \in 1 .. z
          BY ONLY <5>1, <5>2
        <5> QED BY <5>3 DEF a, z
      <4>2. body[o + (Len(cat[k - 1]) + i)] = cat[n][Len(cat[k - 1]) + i]
        BY <1>8, <4>1
      <4>3. from + i = o + (Len(cat[k - 1]) + i)
        BY <1>1, <2>3
      <4> QED BY <1>5, <4>2, <4>3
    <3> HIDE DEF t
    <3>4. t \in Seq(U) /\ b(k) \in Seq(U)
      <4>1. b(k) \in Seq(S) /\ S \subseteq U
        BY <1>2 DEF U
      <4> QED BY <3>2, <4>1, SeqMonotonic
    <3>5. t = b(k)
      BY <3>2, <3>3, <3>4, SeqEqual
    <3> QED BY <3>5 DEF t
  <2> HIDE DEF start, from
  <2>7. part(k + o) = [lcid |-> sdus[k].lcid, bytes |-> b(k)]
    BY <1>9, <2>1, <2>2, <2>5, <2>6 DEF from
  <2> QED BY <1>2, <2>7
<1>15. mac_decode(pdu) = Selected(all, Sdus(head))
  BY <1>12 DEF mac_decode, head, body
<1> HIDE DEF part, start
<1> DEFINE A == {part(k) : k \in 1 .. n + o}
<1>16. all \in Seq(A) /\ Len(all) = n + o /\ \A k \in 1 .. n + o : all[k] = part(k)
  <2>1. \A k \in 1 .. n + o : part(k) \in A
    OBVIOUS
  <2> HIDE DEF A
  <2> QED BY <1>1, <2>1
<1>17. \A j \in 1 .. n + o : j \in Sdus(head) <=> j > o
  <2> TAKE j \in 1 .. n + o
  <2>1. j \in Sdus(head) <=> head[j].lcid <= 10
    BY <1>12 DEF Sdus
  <2>2. CASE j = 1 /\ o = 1
    BY <1>10, <2>1, <2>2
  <2>3. ASSUME NEW k \in 1 .. n, j = k + o PROVE j \in Sdus(head) /\ j > o
    <3>1. head[j].lcid \in 0 .. 10
      BY <1>2, <1>9, <2>3
    <3>2. head[j].lcid <= 10
      BY <3>1
    <3>3. j > o
      BY <1>1, <2>3
    <3> QED BY <2>1, <3>2, <3>3
  <2> QED BY <1>11, <2>2, <2>3
<1> HIDE DEF all, A
<1>18. mac_decode(pdu) = SubSeq(all, o + 1, n + o)
  <2>1. o \in 0 .. Len(all)
    BY <1>1, <1>16
  <2> QED BY <1>15, <1>16, <1>17, <2>1, SelectedTail
<1>19. SubSeq(all, o + 1, n + o) = sdus
  <2> DEFINE t == SubSeq(all, o + 1, n + o)
             B == A \union [lcid : 0 .. 10, bytes : Seq(S)]
  <2>1. \A i \in o + 1 .. n + o : all[i] \in B
    <3> TAKE i \in o + 1 .. n + o
    <3>1. i \in 1 .. n + o
      BY <1>1
    <3> QED BY <1>16, <3>1
  <2>2. o + 1 \in Int /\ n + o \in Int
    BY <1>1
  <2> HIDE DEF B
  <2>3. /\ t \in Seq(B)
        /\ Len(t) = IF o + 1 <= n + o THEN (n + o) - (o + 1) + 1 ELSE 0
        /\ \A i \in 1 .. (n + o) - (o + 1) + 1 : t[i] = all[(o + 1) + i - 1]
    BY <2>1, <2>2, SubSeqProperties
  <2>4. (n + o) - (o + 1) + 1 = n /\ o + 1 <= n + o
    BY <1>1
  <2> HIDE DEF t
  <2>5. Len(t) = n
    BY <2>3, <2>4
  <2>6. ASSUME NEW i \in 1 .. n PROVE t[i] = sdus[i]
    <3>1. (o + 1) + i - 1 = i + o /\ i + o \in 1 .. n + o
      BY <1>1
    <3>2. t[i] = all[i + o]
      BY <2>3, <2>4, <3>1
    <3> QED BY <1>14, <1>16, <3>1, <3>2
  <2>7. sdus \in Seq(B)
    BY SeqMonotonic DEF B
  <2>8. t = sdus
    BY <2>3, <2>5, <2>6, <2>7, SeqEqual DEF n
  <2> QED BY <2>8 DEF t
<1> QED BY <1>18, <1>19

----------------------------------------------------------------------------
(* Sequences of anything. *)

Sequence(s) == Len(s) \in Nat /\ s = [i \in 1 .. Len(s) |-> s[i]]

LEMMA SequenceIsSeq ==
  ASSUME NEW s, Sequence(s)
  PROVE  s \in Seq({s[i] : i \in 1 .. Len(s)})
<1> DEFINE T == {s[i] : i \in 1 .. Len(s)}
<1>1. \A i \in 1 .. Len(s) : s[i] \in T
  OBVIOUS
<1> HIDE DEF T
<1>2. [i \in 1 .. Len(s) |-> s[i]] \in Seq(T)
  BY <1>1 DEF Sequence
<1> QED BY <1>2 DEF Sequence, T

LEMMA SeqIsSequence ==
  ASSUME NEW S, NEW s \in Seq(S)
  PROVE  Sequence(s)
BY DEF Sequence

LEMMA AppendSequence ==
  ASSUME NEW s, Sequence(s), NEW x
  PROVE  /\ Sequence(Append(s, x)) /\ Len(Append(s, x)) = Len(s) + 1
         /\ Append(s, x)[Len(s) + 1] = x
         /\ \A i \in 1 .. Len(s) : Append(s, x)[i] = s[i]
<1> DEFINE T == {s[i] : i \in 1 .. Len(s)} \union {x}
<1>1. s \in Seq(T) /\ x \in T
  <2> DEFINE R == {s[i] : i \in 1 .. Len(s)}
  <2>1. s \in Seq(R) /\ R \subseteq T /\ x \in T
    BY SequenceIsSeq
  <2> HIDE DEF R, T
  <2> QED BY <2>1, SeqMonotonic
<1> HIDE DEF T
<1>2. Append(s, x) \in Seq(T)
  BY <1>1
<1>3. Sequence(Append(s, x))
  BY <1>2, SeqIsSequence
<1> QED BY <1>1, <1>3, AppendProperties

LEMMA TailSequence ==
  ASSUME NEW s, Sequence(s), s # << >>
  PROVE  /\ Sequence(Tail(s)) /\ Len(Tail(s)) = Len(s) - 1 /\ Len(s) \in Nat \ {0}
         /\ \A i \in 1 .. Len(Tail(s)) : Tail(s)[i] = s[i + 1]
<1> DEFINE T == {s[i] : i \in 1 .. Len(s)}
<1>1. s \in Seq(T)
  BY SequenceIsSeq
<1> HIDE DEF T
<1>2. /\ Tail(s) \in Seq(T) /\ Len(Tail(s)) = Len(s) - 1
      /\ \A i \in 1 .. Len(Tail(s)) : Tail(s)[i] = s[i + 1]
  BY <1>1, HeadTailProperties
<1>3. Sequence(Tail(s))
  BY <1>2, SeqIsSequence
<1>4. Len(s) \in Nat \ {0}
  BY <1>1
<1> QED BY <1>2, <1>3, <1>4

LEMMA FirstAndRest ==
  ASSUME NEW S, NEW h, NEW t \in Seq(S)
  PROVE  /\ Head(<< h >> \o t) = h /\ Tail(<< h >> \o t) = t /\ << h >> \o t # << >>
<1>1. << h >> \in Seq(S \union {h}) /\ t \in Seq(S \union {h})
  BY SeqMonotonic
<1> DEFINE U == S \union {h}
           u == << h >>
<1>2. u \in Seq(U) /\ Len(u) = 1 /\ u[1] = h /\ t \in Seq(U)
  BY <1>1
<1> HIDE DEF U, u
<1>3. /\ u \o t \in Seq(U) /\ Len(u \o t) = 1 + Len(t) /\ (u \o t)[1] = h
      /\ \A i \in 1 .. Len(t) : (u \o t)[1 + i] = t[i]
  BY <1>2, ConcatProperties
<1>4. u \o t # << >> /\ Head(u \o t) = h
  BY <1>2, <1>3
<1>5. /\ Tail(u \o t) \in Seq(U) /\ Len(Tail(u \o t)) = Len(t)
      /\ \A i \in 1 .. Len(t) : Tail(u \o t)[i] = t[i]
  BY <1>2, <1>3, <1>4, HeadTailProperties
<1>6. Tail(u \o t) = t
  BY <1>2, <1>5, SeqEqual
<1> QED BY <1>4, <1>6 DEF u

----------------------------------------------------------------------------
(***************************************************************************)
(* What is sent upwards.  A plain unit is one of a message, a fragment is  *)
(* an RLC header and a part of the message the header names; a middle      *)
(* fragment does not occur, and a part that is not the first is not the    *)
(* whole.  With --test-IP, channel 3 carries test packets in one piece.    *)
(***************************************************************************)
Types == DOMAIN NextCommand \union
  {"request", "reconfigurationComplete", "attachComplete", "detachRequest"}

StreamPacket(serial, same) ==
  [len |-> 29, version |-> 4, hlen |-> 20, total |-> 29, protocol |-> 17, type |-> 0,
   length |-> 9, index |-> serial % IndexRange, same |-> same, serial |-> serial]

Packets ==
  TestPackets \union {StreamPacket(s, b) : s \in 0 .. WordMod - 1, b \in BOOLEAN}

Carrier(p) == [kind |-> "ip", k |-> 1, packet |-> p]

Plain ==
  {PdcpData, PdcpControl, MacI}
    \union [kind : {"msg"}, type : Types, id : 0 .. ConnMod - 1, k : {1}]
    \union [kind : {"ip"}, k : Nat]
    \union {Carrier(p) : p \in Packets}

TestMessages == {<<PdcpData, Carrier(p)>> : p \in Packets}

Header ==
  [kind : {"rlc"}, dc : {"data"}, p : BOOLEAN, e : {0}, first : BOOLEAN,
   last : BOOLEAN, sn : 0 .. SnMod - 1, whole : Seq(Plain)]
StatusHeader ==
  [kind : {"rlc"}, dc : {"status"}, p : BOOLEAN, e : {0}, first : BOOLEAN,
   last : BOOLEAN, sn : 0 .. SnMod - 1]

Unit == Plain \union Header \union StatusHeader

\* A part of the message h.whole, on channel c.
PartOf(test, c, h, t) ==
  /\ h.first \/ h.last
  /\ ~ h.first => Len(t) < Len(h.whole)
  /\ test /\ c = 3 => h.first /\ h.last /\ t \in TestMessages

Fragment(test, c) ==
  IF c = 0 THEN Seq(Plain) \ {<< >>}
  ELSE {f \in Seq(Unit) : \E h \in Header, t \in Seq(Plain) :
                            f = << h >> \o t /\ PartOf(test, c, h, t)}

PhoneSdu(test) ==
  {s \in [lcid : Channel, bytes : Seq(Unit)] :
     \/ s.bytes \in Fragment(test, s.lcid)
     \/ s.lcid = 1 /\ \E n \in 0 .. SnMod - 1 : s.bytes = StatusReport(n)}

Block(test) ==
  {[pdu |-> PhonePdu(ce, s), sdus |-> s] :
     ce \in BOOLEAN, s \in Seq(PhoneSdu(test)) \ {<< >>}}

----------------------------------------------------------------------------
(* The buffers. *)

\* What fits in the buffer is kept.
LEMMA ReassembleFits ==
  ASSUME NEW S, NEW buf \in Seq(S), NEW first \in BOOLEAN, NEW t \in Seq(S)
  PROVE  LET joined == (IF first THEN <<>> ELSE buf) \o t IN
         /\ reassemble(buf, first, t) \in Seq(S)
         /\ reassemble(buf, first, t) = SubSeq(joined, 1, StoredIndex(Len(joined)))
         /\ Len(reassemble(buf, first, t)) = StoredIndex(Len(joined))
         /\ Len(reassemble(buf, first, t)) < IndexMod
         /\ Len(joined) < IndexMod => reassemble(buf, first, t) = joined
<1> DEFINE joined == (IF first THEN <<>> ELSE buf) \o t
           n == StoredIndex(Len(joined))
           r == SubSeq(joined, 1, n)
<1>1. joined \in Seq(S) /\ Len(joined) \in Nat
  OBVIOUS
<1>2. BufSize \in Nat \ {0} /\ IndexMod \in Nat \ {0} /\ IndexMod <= BufSize
  BY RlcAssumption
<1> HIDE DEF joined
<1>3. /\ n \in Nat /\ n < IndexMod /\ n <= Len(joined)
      /\ Len(joined) < IndexMod => n = Len(joined)
  <2> DEFINE m == IF Len(joined) < BufSize THEN Len(joined) ELSE BufSize
  <2>1. m \in Nat /\ m <= Len(joined) /\ (Len(joined) < IndexMod => m = Len(joined))
    BY <1>1, <1>2
  <2>2. n = m % IndexMod
    BY DEF StoredIndex
  <2> HIDE DEF m
  <2>3. m % IndexMod \in Nat /\ m % IndexMod < IndexMod /\ m % IndexMod <= m
    <3>1. m % IndexMod \in 0 .. IndexMod - 1
      BY <1>2, <2>1, RemainderRange
    <3>2. m < IndexMod => m % IndexMod = m
      BY <1>2, <2>1, SmallRemainder
    <3> QED BY <1>2, <2>1, <3>1, <3>2
  <2>4. m < IndexMod => m % IndexMod = m
    BY <1>2, <2>1, SmallRemainder
  <2> HIDE DEF n
  <2> QED BY <1>1, <1>2, <2>1, <2>2, <2>3, <2>4
<1> HIDE DEF n
<1>4. r \in Seq(S) /\ Len(r) = n
  <2>1. \A i \in 1 .. n : joined[i] \in S
    BY <1>1, <1>3
  <2> QED BY <1>3, <2>1, SubSeqProperties
<1>5. Len(joined) < IndexMod => r = joined
  BY <1>1, <1>3, SubSeqFull
<1>6. reassemble(buf, first, t) = r
  BY DEF reassemble, joined, n
<1> QED BY <1>3, <1>4, <1>5, <1>6 DEF joined, n

\* The buffer of a channel agrees with the ideal one until that is too long.
Agree(buffer, ideal) ==
  /\ buffer \in Seq(Plain) /\ ideal \in Seq(Plain) /\ Len(buffer) < IndexMod
  /\ ideal # << >> /\ Len(ideal) < IndexMod => buffer = ideal

\* It still does after a fragment; and a message that was heard whole, and is
\* short enough, is in the buffer.
LEMMA FragmentKeepsAgreement ==
  ASSUME NEW buffer, NEW ideal, Agree(buffer, ideal),
         NEW h \in Header, NEW t \in Seq(Plain),
         h.first \/ h.last, ~ h.first => Len(t) < Len(h.whole)
  PROVE  LET new == (IF h.first THEN <<>> ELSE ideal) \o t
             out == reassemble(buffer, h.first, t)
         IN  /\ Agree(out, IF h.last THEN <<>> ELSE new)
             /\ new = h.whole /\ Len(h.whole) < IndexMod => out = h.whole
<1> DEFINE new == (IF h.first THEN <<>> ELSE ideal) \o t
           joined == (IF h.first THEN <<>> ELSE buffer) \o t
           out == reassemble(buffer, h.first, t)
<1>1. /\ buffer \in Seq(Plain) /\ ideal \in Seq(Plain) /\ Len(ideal) \in Nat
      /\ ideal # << >> /\ Len(ideal) < IndexMod => buffer = ideal
  BY DEF Agree
<1>2. h.first \in BOOLEAN /\ h.last \in BOOLEAN /\ h.whole \in Seq(Plain)
  BY DEF Header
<1>3. /\ out \in Seq(Plain) /\ Len(out) < IndexMod
      /\ Len(joined) < IndexMod => out = joined
  <2>1. buffer \in Seq(Plain) /\ h.first \in BOOLEAN /\ t \in Seq(Plain)
    BY <1>1, <1>2
  <2> HIDE DEF new
  <2>2. out \in Seq(Plain)
    BY ONLY <2>1, ReassembleFits
  <2>3. Len(out) < IndexMod
    BY ONLY <2>1, ReassembleFits
  <2>4. Len(joined) < IndexMod => out = joined
    BY ONLY <2>1, ReassembleFits
  <2> HIDE DEF out, joined
  <2> QED BY <2>2, <2>3, <2>4
<1> HIDE DEF out
<1>4. new \in Seq(Plain)
  BY <1>1
<1>5. CASE h.first
  <2>1. new = joined
    BY <1>5
  <2> HIDE DEF new, joined
  <2>2. Len(new) < IndexMod => out = new
    BY <1>3, <2>1
  <2>3. Agree(out, << >>) /\ Agree(out, new)
    BY <1>3, <1>4, <2>2 DEF Agree
  <2>4. Agree(out, IF h.last THEN << >> ELSE new)
    BY <1>2, <2>3
  <2>5. new = h.whole /\ Len(h.whole) < IndexMod => out = h.whole
    BY <2>2
  <2> QED BY <2>4, <2>5 DEF new, out
<1>6. CASE ~ h.first
  <2>1. h.last /\ new = ideal \o t /\ joined = buffer \o t
    BY <1>6
  <2>2. Agree(out, << >>)
    BY <1>3 DEF Agree
  <2>3. ASSUME new = h.whole, Len(h.whole) < IndexMod PROVE out = h.whole
    <3>1. ideal # << >>
      <4>1. ASSUME ideal = << >> PROVE FALSE
        <5>1. new = t
          BY <2>1, <4>1
        <5> QED BY <1>6, <2>3, <5>1
      <4> QED BY <4>1
    <3>2. Len(new) = Len(ideal) + Len(t) /\ Len(t) \in Nat
      BY <1>1, <2>1
    <3>3. Len(ideal) < IndexMod
      BY <1>1, <2>3, <3>2, RlcAssumption
    <3>4. joined = new
      BY <1>1, <2>1, <3>1, <3>3
    <3> HIDE DEF new, joined
    <3> QED BY <1>3, <2>3, <3>4
  <2> HIDE DEF new, joined, out
  <2> QED BY <2>1, <2>2, <2>3 DEF new, out
<1> QED BY <1>5, <1>6

----------------------------------------------------------------------------
(***************************************************************************)
(* The state of the base station while it works on a block, as Result and  *)
(* Handle keep it.                                                         *)
(***************************************************************************)
StatsOK(st) ==
  st \in [old_index : 0 .. IndexRange - 1, udp_pkt_rcvd : 0 .. WordMod - 1,
          udp_pkt_miss : 0 .. WordMod - 1, last : 0 .. WordMod - 1, since : 0 .. WordMod - 1]

BuffersOK(buffer, ideal) ==
  /\ buffer \in [Channel -> Seq(Plain)] /\ ideal \in [Channel -> Seq(Plain)]
  /\ \A c \in Channel : Agree(buffer[c], ideal[c])

Intact(D) == \A d \in D : d.heard /\ d.size < IndexMod => d.intact

Fields(s) ==
  s = [buffer |-> s.buffer, sn |-> s.sn, stats |-> s.stats, heard |-> s.heard,
       delivered |-> s.delivered, answers |-> s.answers, rx |-> s.rx]

StateOK(s) ==
  /\ Fields(s) /\ Sequence(s.answers)
  /\ BuffersOK(s.buffer, s.heard) /\ Intact(s.delivered)
  /\ s.sn \in [Channel -> 0 .. SnMod - 1]
  /\ StatsOK(s.stats)

LEMMA EmptyBuffers == BuffersOK(Empty, Empty)
<1>1. << >> \in Seq(Plain) /\ Len(<< >>) < IndexMod
  BY RlcAssumption
<1> QED BY <1>1 DEF BuffersOK, Empty, Agree

LEMMA ResetSn == Reset \in [Channel -> 0 .. SnMod - 1]
BY RlcAssumption DEF Reset

LEMMA NextSnInRange ==
  ASSUME NEW c, NEW n \in 0 .. SnMod - 1
  PROVE  nextSn(c, n) \in 0 .. SnMod - 1
<1>1. SnMod \in Nat \ {0} /\ n + 1 \in Int
  BY RlcAssumption
<1>2. (n + 1) % SnMod \in 0 .. SnMod - 1
  BY <1>1, RemainderRange
<1> QED BY <1>2 DEF nextSn

\* An answer takes a sequence number and is queued behind the others.
LEMMA EncodeKeeps ==
  ASSUME NEW s, StateOK(s), NEW plain
  PROVE  /\ StateOK(Encode(s, plain))
         /\ Encode(s, plain).stats = s.stats
<1> DEFINE c == plain.lcid
           n == IF c \in Channel THEN s.sn[c] ELSE 0
           sn == IF c \in Channel THEN [s.sn EXCEPT ![c] = nextSn(c, n)] ELSE s.sn
           x == [lcid |-> c, bytes |-> rlc_encode(c, n, pdcp_encode(c, plain.bytes))]
           e == [buffer |-> s.buffer, sn |-> sn, stats |-> s.stats, heard |-> s.heard,
                 delivered |-> s.delivered, answers |-> Append(s.answers, x), rx |-> s.rx]
<1>1. Encode(s, plain) = e
  <2>1. Fields(s)
    BY DEF StateOK
  <2>2. Encode(s, plain) = [s EXCEPT !.sn = sn, !.answers = Append(s.answers, x)]
    <3> HIDE DEF x
    <3> QED BY <2>1 DEF Encode, x, Fields
  <2> HIDE DEF x, sn
  <2> QED BY <2>1, <2>2 DEF Fields
<1>2. sn \in [Channel -> 0 .. SnMod - 1]
  <2>1. s.sn \in [Channel -> 0 .. SnMod - 1]
    BY DEF StateOK
  <2> QED BY <2>1, NextSnInRange
<1>3. Sequence(Append(s.answers, x))
  BY AppendSequence DEF StateOK
<1> HIDE DEF x, sn
<1>4. /\ e.buffer = s.buffer /\ e.sn = sn /\ e.stats = s.stats /\ e.heard = s.heard
      /\ e.delivered = s.delivered /\ e.answers = Append(s.answers, x) /\ e.rx = s.rx
      /\ Fields(e)
  BY DEF Fields
<1> HIDE DEF e
<1> QED BY <1>1, <1>2, <1>3, <1>4 DEF StateOK

EncodedUpto(after, s, plain, n) ==
  after = [k \in 0 .. n |-> IF k = 0 THEN s ELSE Encode(after[k - 1], plain[k])]

LEMMA EncodedExists ==
  ASSUME NEW s, NEW plain, NEW n \in Nat
  PROVE  \E after : EncodedUpto(after, s, plain, n)
<1> DEFINE P == {m \in 0 .. n : \E after : EncodedUpto(after, s, plain, m)}
<1>1. 0 \in P
  <2> DEFINE g == [k \in 0 .. 0 |-> s]
  <2>1. EncodedUpto(g, s, plain, 0)
    BY DEF EncodedUpto
  <2> HIDE DEF g
  <2> QED BY <2>1
<1>2. ASSUME NEW m \in 1 .. n, m - 1 \in P PROVE m \in P
  <2>1. PICK h : EncodedUpto(h, s, plain, m - 1)
    BY <1>2
  <2> DEFINE g == [k \in 0 .. m |-> IF k = m THEN Encode(h[m - 1], plain[m]) ELSE h[k]]
  <2>2. ASSUME NEW k \in 0 .. m
        PROVE  g[k] = IF k = 0 THEN s ELSE Encode(g[k - 1], plain[k])
    <3>1. CASE k = m
      <4>1. m # 0 /\ m - 1 \in 0 .. m /\ m - 1 # m
        OBVIOUS
      <4>2. g[m] = Encode(h[m - 1], plain[m]) /\ g[m - 1] = h[m - 1]
        BY <4>1
      <4> HIDE DEF g
      <4> QED BY <3>1, <4>1, <4>2
    <3>2. CASE k # m
      <4>1. k \in 0 .. m - 1
        BY <3>2
      <4>2. h[k] = IF k = 0 THEN s ELSE Encode(h[k - 1], plain[k])
        BY <2>1, <4>1 DEF EncodedUpto
      <4>3. g[k] = h[k] /\ (k # 0 => g[k - 1] = h[k - 1])
        BY <3>2, <4>1
      <4> HIDE DEF g
      <4> QED BY <4>2, <4>3
    <3> QED BY <3>1, <3>2
  <2>3. EncodedUpto(g, s, plain, m)
    <3>1. g = [k \in 0 .. m |-> g[k]]
      OBVIOUS
    <3> HIDE DEF g
    <3> QED BY <2>2, <3>1 DEF EncodedUpto
  <2> HIDE DEF g
  <2> QED BY <2>3
<1>3. n \in P
  <2> HIDE DEF P
  <2>1. 0 .. n \subseteq P
    BY <1>1, <1>2, IntervalInduction
  <2> QED BY <2>1
<1> QED BY <1>3

LEMMA EncodeAllKeeps ==
  ASSUME NEW s, StateOK(s), NEW plain, Len(plain) \in Nat
  PROVE  /\ StateOK(EncodeAll(s, plain))
         /\ EncodeAll(s, plain).stats = s.stats
<1> DEFINE n == Len(plain)
           after[k \in 0 .. Len(plain)] ==
             IF k = 0 THEN s ELSE Encode(after[k - 1], plain[k])
<1>1. EncodeAll(s, plain) = after[n]
  BY DEF EncodeAll
<1>2. EncodedUpto(after, s, plain, n)
  <2>1. PICK g : EncodedUpto(g, s, plain, n)
    BY EncodedExists
  <2>2. g = [k \in 0 .. n |-> IF k = 0 THEN s ELSE Encode(g[k - 1], plain[k])]
    BY <2>1 DEF EncodedUpto
  <2>3. after = CHOOSE h : h = [k \in 0 .. n |-> IF k = 0 THEN s ELSE Encode(h[k - 1], plain[k])]
    BY DEF after
  <2> HIDE DEF after, n
  <2> QED BY <2>2, <2>3 DEF EncodedUpto
<1> HIDE DEF after
<1> DEFINE Q(x) == StateOK(x) /\ x.stats = s.stats
           P == {m \in 0 .. n : Q(after[m])}
<1>3. 0 \in P
  BY <1>2 DEF EncodedUpto
<1>4. ASSUME NEW k \in 1 .. n, k - 1 \in P PROVE k \in P
  <2>1. Q(after[k - 1]) /\ k \in 0 .. n
    BY <1>4
  <2>2. Q(Encode(after[k - 1], plain[k]))
    BY <2>1, EncodeKeeps
  <2>3. after[k] = Encode(after[k - 1], plain[k])
    BY <1>2, <2>1 DEF EncodedUpto
  <2> QED BY <2>1, <2>2, <2>3
<1>5. n \in P
  <2> HIDE DEF P, n
  <2>1. 0 .. n \subseteq P
    BY <1>3, <1>4, IntervalInduction DEF n
  <2> QED BY <2>1 DEF n
<1> QED BY <1>1, <1>5

LEMMA ConcatSequence ==
  ASSUME NEW s, NEW t, Sequence(s), Sequence(t)
  PROVE  Sequence(s \o t)
<1> DEFINE R == {s[i] : i \in 1 .. Len(s)}
           T == {t[i] : i \in 1 .. Len(t)}
<1>1. s \in Seq(R) /\ t \in Seq(T)
  BY SequenceIsSeq
<1> HIDE DEF R, T
<1>2. s \in Seq(R \union T) /\ t \in Seq(R \union T)
  BY <1>1, SeqMonotonic
<1>3. s \o t \in Seq(R \union T)
  BY <1>2
<1> QED BY <1>3, SeqIsSequence

\* rrc() answers with at most two messages, and --test-IP with one more.
LEMMA AnswersAreSequences ==
  ASSUME NEW c, NEW msg
  PROVE  Sequence(rrcAnswers(c, msg) \o TestReply(c, msg))
<1>1. ASSUME NEW x PROVE Sequence(<< x >>)
  BY SeqIsSequence, << x >> \in Seq({x})
<1>2. ASSUME NEW x, NEW y PROVE Sequence(<< x, y >>)
  BY SeqIsSequence, << x, y >> \in Seq({x, y})
<1>3. Sequence(<< >>)
  BY SeqIsSequence, << >> \in Seq({})
<1>4. Sequence(rrcRequest(msg))
  BY <1>2 DEF rrcRequest
<1>5. Sequence(rrcSignalling(c, msg))
  <2> DEFINE type == typeOf(msg)
             id == Head(msg).id
  <2>1. CASE type \in DOMAIN NextCommand
    <3>0. type # "detachRequest"
      BY <2>1 DEF NextCommand
    <3>1. rrcSignalling(c, msg) = << answer(1, NextCommand[type], id) >>
      BY <2>1, <3>0 DEF rrcSignalling
    <3> QED BY <1>1, <3>1
  <2>2. CASE type \notin DOMAIN NextCommand /\ type = "detachRequest"
    <3>1. rrcSignalling(c, msg)
            = << answer(c, "detachAccept", id), answer(1, "release", id) >>
      BY <2>2 DEF rrcSignalling
    <3> QED BY <1>2, <3>1
  <2>3. CASE type \notin DOMAIN NextCommand /\ type # "detachRequest"
    <3>1. rrcSignalling(c, msg) = << >>
      BY <2>3 DEF rrcSignalling
    <3> QED BY <1>3, <3>1
  <2> QED BY <2>1, <2>2, <2>3
<1>6. Sequence(rrcAnswers(c, msg))
  BY <1>3, <1>4, <1>5 DEF rrcAnswers
<1>7. Sequence(TestReply(c, msg))
  BY <1>1, <1>3 DEF TestReply
<1> QED BY <1>6, <1>7, ConcatSequence

\* The answers, and the status report behind them.
LEMMA ReportKeeps ==
  ASSUME NEW s, StateOK(s), NEW c, NEW msg, NEW b
  PROVE  LET plain == rrcAnswers(c, msg) \o TestReply(c, msg)
             e == Report(EncodeAll(s, plain), c, b)
         IN  StateOK(e) /\ e.stats = s.stats
<1> DEFINE plain == rrcAnswers(c, msg) \o TestReply(c, msg)
           m == EncodeAll(s, plain)
           e == Report(m, c, b)
<1>1. Len(plain) \in Nat
  BY AnswersAreSequences DEF Sequence
<1> HIDE DEF plain
<1>2. StateOK(m) /\ m.stats = s.stats
  BY <1>1, EncodeAllKeeps
<1> HIDE DEF m
<1>3. CASE ~ m.rx.poll
  <2>1. e = m
    BY <1>3 DEF Report
  <2> QED BY <1>2, <2>1 DEF m, plain
<1>4. CASE m.rx.poll
  <2> DEFINE x == [lcid |-> c, bytes |-> StatusReport(m.rx.sn)]
             f == [buffer |-> m.buffer, sn |-> m.sn, stats |-> m.stats, heard |-> m.heard,
                   delivered |-> m.delivered, answers |-> Append(m.answers, x), rx |-> m.rx]
  <2>1. e = [m EXCEPT !.answers = Append(m.answers, x)]
    BY <1>4 DEF Report
  <2> HIDE DEF x
  <2>2. Fields(m)
    BY <1>2 DEF StateOK
  <2>3. e = f
    BY <2>1, <2>2 DEF Fields
  <2>4. Sequence(Append(m.answers, x))
    BY <1>2, AppendSequence DEF StateOK
  <2>5. /\ f.buffer = m.buffer /\ f.sn = m.sn /\ f.stats = m.stats /\ f.heard = m.heard
        /\ f.delivered = m.delivered /\ f.answers = Append(m.answers, x) /\ Fields(f)
    BY DEF Fields
  <2> HIDE DEF f
  <2>6. StateOK(f) /\ f.stats = s.stats
    BY <1>2, <2>4, <2>5 DEF StateOK
  <2> QED BY <2>3, <2>6 DEF m, plain
<1> QED BY <1>3, <1>4

\* What an SDU of the phone may be.
LEMMA SduCases ==
  ASSUME NEW test, NEW sdu \in PhoneSdu(test)
  PROVE  /\ sdu.lcid \in Channel /\ sdu.bytes \in Seq(Unit) /\ sdu.bytes # << >>
         /\ \/ sdu.lcid = 0 /\ sdu.bytes \in Seq(Plain)
            \/ sdu.lcid = 1 /\ \E n \in 0 .. SnMod - 1 : sdu.bytes = StatusReport(n)
            \/ /\ sdu.lcid \in 1 .. 3
               /\ \E h \in Header, t \in Seq(Plain) :
                    sdu.bytes = << h >> \o t /\ PartOf(test, sdu.lcid, h, t)
<1>1. sdu.lcid \in 0 .. 3 /\ sdu.bytes \in Seq(Unit)
  BY DEF PhoneSdu, Channel
<1>2. CASE sdu.lcid = 1 /\ \E n \in 0 .. SnMod - 1 : sdu.bytes = StatusReport(n)
  <2>1. sdu.bytes # << >>
    BY <1>2 DEF StatusReport
  <2> QED BY <1>1, <1>2, <2>1 DEF Channel
<1>3. CASE sdu.bytes \in Fragment(test, sdu.lcid)
  <2>1. CASE sdu.lcid = 0
    BY <1>1, <1>3, <2>1 DEF Fragment, Channel
  <2>2. CASE sdu.lcid # 0
    <3>1. PICK h \in Header, t \in Seq(Plain) :
            sdu.bytes = << h >> \o t /\ PartOf(test, sdu.lcid, h, t)
      BY <1>3, <2>2 DEF Fragment
    <3>2. sdu.bytes # << >>
      BY <3>1, FirstAndRest
    <3>3. sdu.lcid \in 1 .. 3
      BY <1>1, <2>2
    <3> QED BY <1>1, <3>1, <3>2, <3>3 DEF Channel
  <2> QED BY <2>1, <2>2
<1> QED BY <1>2, <1>3 DEF PhoneSdu

\* What rlc_decode, pdcp_decode and the comparison with the ideal buffers make
\* of an SDU: the parts of Handle.
Decoded(s, sdu) ==
  rlc_decode(sdu.lcid, sdu.bytes,
             [buf |-> s.buffer[sdu.lcid], sn |-> s.rx.sn, poll |-> s.rx.poll])

Told(s, sdu) == pdcp_decode(sdu.lcid, Decoded(s, sdu).out)

Taken(s, sdu) ==
  [s EXCEPT !.buffer[sdu.lcid] = Decoded(s, sdu).rx.buf,
            !.rx = [sn |-> Decoded(s, sdu).rx.sn, poll |-> Decoded(s, sdu).rx.poll],
            !.stats = TestStats(sdu.lcid, Told(s, sdu), @)]

Judged(s, sdu) == Judge(Taken(s, sdu), sdu.lcid, sdu.bytes, Decoded(s, sdu).out)

StatsAfter(s, sdu) == TestStats(sdu.lcid, Told(s, sdu), s.stats)

LEMMA HandleFollows ==
  ASSUME NEW s, NEW sdu, StateOK(Judged(s, sdu)),
         Judged(s, sdu).stats = StatsAfter(s, sdu)
  PROVE  StateOK(Handle(s, sdu)) /\ Handle(s, sdu).stats = StatsAfter(s, sdu)
<1> DEFINE j == Judged(s, sdu)
           c == sdu.lcid
           msg == Told(s, sdu)
           fresh == IF rrcResets(c, msg)
                    THEN [reset_state(j) EXCEPT !.heard = Empty] ELSE j
           plain == rrcAnswers(c, msg) \o TestReply(c, msg)
<1>1. Handle(s, sdu) = Report(EncodeAll(fresh, plain), c, plain # << >>)
  BY DEF Handle, Judged, Taken, Told, Decoded
<1>2. StateOK(fresh) /\ fresh.stats = StatsAfter(s, sdu)
  <2> HIDE DEF j, c, msg
  <2>1. CASE ~ rrcResets(c, msg)
    BY <2>1 DEF j
  <2>2. CASE rrcResets(c, msg)
    <3> DEFINE g == [buffer |-> Empty, sn |-> Reset, stats |-> j.stats, heard |-> Empty,
                     delivered |-> j.delivered, answers |-> j.answers, rx |-> j.rx]
    <3>1. Fields(j)
      BY DEF StateOK, j
    <3>2. fresh = g
      BY <2>2, <3>1 DEF Fields, reset_state
    <3>3. /\ g.buffer = Empty /\ g.sn = Reset /\ g.stats = j.stats /\ g.heard = Empty
          /\ g.delivered = j.delivered /\ g.answers = j.answers /\ Fields(g)
      BY DEF Fields
    <3> HIDE DEF g
    <3>4. StateOK(g)
      BY <3>3, EmptyBuffers, ResetSn DEF StateOK, j
    <3> QED BY <3>2, <3>3, <3>4 DEF j
  <2> QED BY <2>1, <2>2
<1> HIDE DEF fresh
<1>3. /\ StateOK(Report(EncodeAll(fresh, plain), c, plain # << >>))
      /\ Report(EncodeAll(fresh, plain), c, plain # << >>).stats = fresh.stats
  BY <1>2, ReportKeeps
<1> QED BY <1>1, <1>2, <1>3

\* Taken, field by field.
LEMMA TakenIs ==
  ASSUME NEW s, StateOK(s), NEW sdu
  PROVE  LET t == Taken(s, sdu) IN
         /\ Fields(t)
         /\ t.buffer = [s.buffer EXCEPT ![sdu.lcid] = Decoded(s, sdu).rx.buf]
         /\ t.stats = StatsAfter(s, sdu) /\ t.heard = s.heard /\ t.sn = s.sn
         /\ t.delivered = s.delivered /\ t.answers = s.answers
<1> DEFINE b == [s.buffer EXCEPT ![sdu.lcid] = Decoded(s, sdu).rx.buf]
           r == [sn |-> Decoded(s, sdu).rx.sn, poll |-> Decoded(s, sdu).rx.poll]
           st == StatsAfter(s, sdu)
           t == [buffer |-> b, sn |-> s.sn, stats |-> st, heard |-> s.heard,
                 delivered |-> s.delivered, answers |-> s.answers, rx |-> r]
<1>1. Fields(s)
  BY DEF StateOK
<1>2. Taken(s, sdu) = [s EXCEPT !.buffer = b, !.rx = r, !.stats = st]
  BY <1>1 DEF Taken, Fields, StatsAfter
<1> HIDE DEF b, r, st
<1>3. Taken(s, sdu) = t
  BY <1>1, <1>2 DEF Fields
<1>4. Fields(t) /\ t.buffer = b /\ t.stats = st
  BY DEF Fields
<1> QED BY <1>3, <1>4 DEF b, st

\* Channel 0 is transparent, and a status report is ignored.
LEMMA HandleOther ==
  ASSUME NEW s, StateOK(s), NEW sdu,
         \/ sdu.lcid = 0
         \/ sdu.lcid = 1 /\ Head(sdu.bytes).dc = "status"
  PROVE  StateOK(Judged(s, sdu)) /\ Judged(s, sdu).stats = StatsAfter(s, sdu)
<1> DEFINE c == sdu.lcid
           rx == [buf |-> s.buffer[c], sn |-> s.rx.sn, poll |-> s.rx.poll]
           t == Taken(s, sdu)
<1>1. Decoded(s, sdu).rx = rx
  <2>1. CASE c = 0
    BY <2>1 DEF Decoded, rlc_decode
  <2>2. CASE c = 1 /\ Head(sdu.bytes).dc = "status"
    <3>1. Decoded(s, sdu) = [rx |-> rx, out |-> << >>]
      BY <2>2 DEF Decoded, rlc_decode
    <3> QED BY <3>1
  <2> QED BY <2>1, <2>2
<1>2. Judged(s, sdu) = t
  <2>1. CASE c = 0
    BY <2>1 DEF Judged, Judge
  <2>2. CASE Head(sdu.bytes).dc = "status"
    BY <2>2 DEF Judged, Judge
  <2> QED BY <2>1, <2>2
<1>3. /\ Fields(t) /\ t.buffer = [s.buffer EXCEPT ![c] = s.buffer[c]]
      /\ t.stats = StatsAfter(s, sdu) /\ t.heard = s.heard /\ t.sn = s.sn
      /\ t.delivered = s.delivered /\ t.answers = s.answers
  <2>1. Decoded(s, sdu).rx.buf = s.buffer[c]
    BY <1>1
  <2> QED BY <2>1, TakenIs
<1>4. t.buffer = s.buffer
  <2>1. s.buffer = [k \in Channel |-> s.buffer[k]]
    BY DEF StateOK, BuffersOK
  <2> QED BY <1>3, <2>1
<1>5. StatsAfter(s, sdu) = s.stats
  BY DEF StatsAfter, TestStats
<1> HIDE DEF t, c
<1> QED BY <1>2, <1>3, <1>4, <1>5 DEF StateOK

\* What is counted is a packet of client.py.
LEMMA CountKeeps ==
  ASSUME NEW st, StatsOK(st), NEW p \in Packets
  PROVE  StatsOK(udp(p, st))
<1>1. CASE Counted(p) /\ Good(p)
  <2>1. p \notin TestPackets
    BY <1>1, EndToEndAssumption
  <2>2. PICK n \in 0 .. WordMod - 1, b \in BOOLEAN : p = StreamPacket(n, b)
    BY <2>1 DEF Packets
  <2>3. p.serial = n /\ p.index = n % IndexRange
    BY <2>2 DEF StreamPacket
  <2>4. p.index \in 0 .. IndexRange - 1
    BY <2>3, RemainderRange, IpTestAssumption
  <2> DEFINE i == p.index
             m == missed(p.index, st.old_index)
             rcvd == (st.udp_pkt_rcvd + 1) % WordMod
             miss == (st.udp_pkt_miss + m) % WordMod
             new == [old_index |-> i, udp_pkt_rcvd |-> rcvd, udp_pkt_miss |-> miss,
                     last |-> n, since |-> st.since]
  <2>5. m \in Nat
    <3> DEFINE x == IndexRange + p.index - st.old_index
    <3>1. st.old_index \in 0 .. IndexRange - 1
      BY DEF StatsOK
    <3>2. x \in Int
      BY <2>4, <3>1, IpTestAssumption
    <3>3. m = (x % IndexRange) + WordMod - 1
      BY DEF missed
    <3> HIDE DEF x
    <3>4. x % IndexRange \in 0 .. IndexRange - 1
      BY <3>2, RemainderRange, IpTestAssumption
    <3> HIDE DEF m
    <3> QED BY <3>3, <3>4, IpTestAssumption
  <2> HIDE DEF m
  <2>6. rcvd \in 0 .. WordMod - 1 /\ miss \in 0 .. WordMod - 1
    <3>1. st.udp_pkt_rcvd + 1 \in Int /\ st.udp_pkt_miss + m \in Int
      BY <2>5 DEF StatsOK
    <3> QED BY <3>1, RemainderRange, IpTestAssumption
  <2>7. udp(p, st) = [st EXCEPT !.old_index = i, !.udp_pkt_rcvd = rcvd,
                                !.udp_pkt_miss = miss, !.last = n]
    BY <1>1, <2>3 DEF udp, m, StatsOK
  <2> HIDE DEF rcvd, miss, i
  <2>8. udp(p, st) = new
    BY <2>7 DEF StatsOK
  <2>9. st.since \in 0 .. WordMod - 1 /\ i \in 0 .. IndexRange - 1
    BY <2>4 DEF StatsOK, i
  <2> QED BY <2>2, <2>6, <2>8, <2>9 DEF StatsOK
<1>2. CASE ~ (Counted(p) /\ Good(p))
  BY <1>2 DEF udp
<1> QED BY <1>1, <1>2

\* A test packet comes in one piece; a buffer of two units holds it.
LEMMA TestPacketTold ==
  ASSUME NEW buf \in Seq(Plain), NEW p \in Packets
  PROVE  LET t == << PdcpData, Carrier(p) >>
             told == pdcp_decode(3, reassemble(buf, TRUE, t))
         IN  /\ told = << >> \/ told = << Carrier(p) >>
             /\ IndexMod > 2 => told = << Carrier(p) >>
<1> DEFINE t == << PdcpData, Carrier(p) >>
           r == reassemble(buf, TRUE, t)
           n == StoredIndex(2)
<1>1. t \in Seq(Plain) /\ Len(t) = 2
  BY DEF Plain
<1>2. << >> \o t = t
  BY <1>1
<1>3. /\ r \in Seq(Plain) /\ r = SubSeq(t, 1, n) /\ Len(r) = n
      /\ 2 < IndexMod => r = t
  <2> DEFINE first == TRUE
             joined == (IF first THEN << >> ELSE buf) \o t
             r2 == reassemble(buf, first, t)
  <2>1. joined = t /\ first \in BOOLEAN /\ r2 = r
    BY <1>2
  <2> HIDE DEF first, t
  <2>2. /\ r2 \in Seq(Plain) /\ r2 = SubSeq(joined, 1, StoredIndex(Len(joined)))
        /\ Len(r2) = StoredIndex(Len(joined))
        /\ Len(joined) < IndexMod => r2 = joined
    <3> HIDE DEF r
    <3>0. r2 \in Seq(Plain)
      BY <1>1, <2>1, ReassembleFits
    <3>1. r2 = SubSeq(joined, 1, StoredIndex(Len(joined)))
      BY DEF reassemble
    <3>2. Len(r2) = StoredIndex(Len(joined))
      BY <1>1, <2>1, ReassembleFits
    <3>3. Len(joined) < IndexMod => r2 = joined
      BY <1>1, <2>1, ReassembleFits
    <3> HIDE DEF r2, joined
    <3> QED BY <3>0, <3>1, <3>2, <3>3
  <2> HIDE DEF r, r2, joined
  <2> QED BY <1>1, <2>1, <2>2 DEF n
<1>4. n \in 0 .. 2
  <2> DEFINE m == IF 2 < BufSize THEN 2 ELSE BufSize
  <2>1. m \in 0 .. 2 /\ n = m % IndexMod
    BY RlcAssumption DEF StoredIndex
  <2> HIDE DEF m, n
  <2> QED BY <2>1, RlcAssumption
<1> HIDE DEF n, r
<1>5. r = << >> \/ r = << PdcpData >> \/ r = t
  <2>1. CASE n = 0
    BY <1>3, <2>1
  <2>2. CASE n = 1
    <3>1. r[1] = t[1] /\ t[1] = PdcpData
      <4>1. t[1] = PdcpData
        OBVIOUS
      <4> HIDE DEF t
      <4>2. \A i \in 1 .. 1 : t[i] \in Plain
        <5>1. t[1] \in Plain
          BY <1>1, ElementOfSeq
        <5> QED BY <5>1
      <4>3. SubSeq(t, 1, 1)[1] = t[1]
        BY <1>1, <4>2, SubSeqProperties
      <4> QED BY <1>3, <2>2, <4>1, <4>3
    <3>2. r = << PdcpData >>
      <4> DEFINE q == << PdcpData >>
      <4>1. q \in Seq(Plain) /\ Len(q) = 1 /\ q[1] = PdcpData
        BY DEF Plain
      <4> HIDE DEF t, q
      <4>2. \A i \in 1 .. Len(r) : r[i] = q[i]
        BY <1>3, <2>2, <3>1, <4>1
      <4>3. r = q
        BY <1>3, <2>2, <4>1, <4>2, SeqEqual
      <4> QED BY <4>3 DEF q
    <3> QED BY <3>2
  <2>3. CASE n = 2
    <3> HIDE DEF t
    <3> QED BY <1>1, <1>3, <2>3, SubSeqFull
  <2> QED BY <1>4, <2>1, <2>2, <2>3
<1>6. PdcpData # PdcpControl
  <2>1. PdcpData.data = TRUE /\ PdcpControl.data = FALSE
    BY DEF PdcpData, PdcpControl
  <2> QED BY <2>1
<1>7. pdcp_decode(3, << >>) = << >>
  BY DEF pdcp_decode
<1>8. pdcp_decode(3, << PdcpData >>) = << >>
  BY <1>6 DEF pdcp_decode, AM
<1>9. pdcp_decode(3, t) = << Carrier(p) >>
  BY <1>6 DEF pdcp_decode, AM
<1>10. IndexMod > 2 => r = t
  BY <1>3, RlcAssumption
<1> HIDE DEF t
<1> QED BY <1>5, <1>7, <1>8, <1>9, <1>10 DEF r, t

\* rlc_decode of a fragment.
LEMMA RlcOfData ==
  ASSUME NEW c, c # 0, NEW b, Head(b).dc = "data", Head(b).e = 0, NEW x, NEW y, NEW z
  PROVE  LET buf == reassemble(x, Head(b).first, Tail(b))
             r == rlc_decode(c, b, [buf |-> x, sn |-> y, poll |-> z])
         IN  r.rx.buf = buf /\ r.out = IF Head(b).last THEN buf ELSE << >>
<1> DEFINE rx == [buf |-> x, sn |-> y, poll |-> z]
           seen == IF c \in AM THEN [rx EXCEPT !.sn = Head(b).sn, !.poll = Head(b).p] ELSE rx
           buf == reassemble(x, Head(b).first, Tail(b))
           out == IF Head(b).last THEN buf ELSE << >>
<1>1. rx.buf = x
  OBVIOUS
<1>2. \E n, p : seen = [buf |-> x, sn |-> n, poll |-> p]
  <2>1. CASE c \in AM
    <3>1. seen = [buf |-> x, sn |-> Head(b).sn, poll |-> Head(b).p]
      BY <2>1
    <3> QED BY <3>1
  <2>2. CASE c \notin AM
    <3>1. seen = rx
      BY <2>2
    <3> QED BY <3>1
  <2> QED BY <2>1, <2>2
<1>3. rlc_decode(c, b, rx) = [rx |-> [seen EXCEPT !.buf = buf], out |-> out]
  <2> HIDE DEF rx
  <2> QED BY <1>1 DEF rlc_decode
<1> HIDE DEF seen, buf, out
<1>4. PICK n, p : seen = [buf |-> x, sn |-> n, poll |-> p]
  BY <1>2
<1>5. [seen EXCEPT !.buf = buf] = [buf |-> buf, sn |-> n, poll |-> p]
  BY <1>4
<1>6. rlc_decode(c, b, rx) = [rx |-> [buf |-> buf, sn |-> n, poll |-> p], out |-> out]
  BY <1>3, <1>5
<1>7. rlc_decode(c, b, rx).rx.buf = buf /\ rlc_decode(c, b, rx).out = out
  BY <1>6
<1> QED BY <1>7 DEF buf, out

LEMMA DataDecoded ==
  ASSUME NEW s, NEW sdu, sdu.lcid \in 1 .. 3, NEW h \in Header, NEW t \in Seq(Plain),
         sdu.bytes = << h >> \o t
  PROVE  LET buf == reassemble(s.buffer[sdu.lcid], h.first, t) IN
         /\ Head(sdu.bytes) = h /\ Tail(sdu.bytes) = t /\ h.dc = "data"
         /\ Decoded(s, sdu).rx.buf = buf
         /\ Decoded(s, sdu).out = IF h.last THEN buf ELSE << >>
<1> DEFINE buf == reassemble(s.buffer[sdu.lcid], h.first, t)
<1>1. Head(sdu.bytes) = h /\ Tail(sdu.bytes) = t
  BY FirstAndRest
<1>2. h.dc = "data" /\ h.e = 0
  BY DEF Header
<1>3. sdu.lcid # 0
  OBVIOUS
<1>4. Head(sdu.bytes).dc = "data" /\ Head(sdu.bytes).e = 0
  BY <1>1, <1>2
<1>5. Decoded(s, sdu).rx.buf = buf /\ Decoded(s, sdu).out = IF h.last THEN buf ELSE << >>
  <2> DEFINE b == sdu.bytes
             c == sdu.lcid
             d == reassemble(s.buffer[c], Head(b).first, Tail(b))
             r == rlc_decode(c, b, [buf |-> s.buffer[c], sn |-> s.rx.sn, poll |-> s.rx.poll])
  <2>1. c # 0 /\ Head(b).dc = "data" /\ Head(b).e = 0
    BY <1>3, <1>4
  <2>2. d = buf /\ Head(b).last = h.last /\ Decoded(s, sdu) = r
    BY <1>1 DEF Decoded
  <2> HIDE DEF b, c
  <2>3. r.rx.buf = d /\ r.out = IF Head(b).last THEN d ELSE << >>
    BY <2>1, RlcOfData
  <2> HIDE DEF d, r, buf
  <2> QED BY <2>2, <2>3
<1> QED BY <1>1, <1>2, <1>5 DEF buf

LEMMA StatsAfterData ==
  ASSUME NEW s, StateOK(s), NEW sdu, sdu.lcid \in 1 .. 3,
         NEW h \in Header, NEW t \in Seq(Plain), sdu.bytes = << h >> \o t,
         PartOf(test_IP, sdu.lcid, h, t)
  PROVE  StatsOK(StatsAfter(s, sdu))
<1> DEFINE c == sdu.lcid
           msg == Told(s, sdu)
<1>1. CASE test_IP /\ c = 3 /\ msg # << >>
  <2>1. h.first /\ h.last /\ t \in TestMessages
    BY <1>1 DEF PartOf
  <2>2. PICK p \in Packets : t = << PdcpData, Carrier(p) >>
    BY <2>1 DEF TestMessages
  <2>3. Decoded(s, sdu).out = reassemble(s.buffer[3], TRUE, t)
    <3>1. Decoded(s, sdu).out = reassemble(s.buffer[c], h.first, t)
      BY <2>1, DataDecoded
    <3>2. h.first = TRUE
      BY <2>1 DEF Header
    <3> QED BY <1>1, <3>1, <3>2
  <2>4. msg = pdcp_decode(3, reassemble(s.buffer[3], TRUE, t))
    BY <1>1, <2>3 DEF Told
  <2>5. s.buffer[3] \in Seq(Plain)
    BY DEF StateOK, BuffersOK, Channel
  <2>6. msg = << Carrier(p) >>
    <3> HIDE DEF msg
    <3> QED BY <1>1, <2>2, <2>4, <2>5, TestPacketTold
  <2>7. msg[1].packet = p
    <3> HIDE DEF msg
    <3> QED BY <2>6 DEF Carrier
  <2>8. StatsAfter(s, sdu) = udp(p, s.stats)
    BY <1>1, <2>7 DEF StatsAfter, TestStats
  <2> QED BY <2>8, CountKeeps DEF StateOK
<1>2. CASE ~ (test_IP /\ c = 3 /\ msg # << >>)
  <2>1. c > 2 => c = 3
    OBVIOUS
  <2>2. StatsAfter(s, sdu) = s.stats
    BY <1>2, <2>1 DEF StatsAfter, TestStats
  <2> QED BY <2>2 DEF StateOK
<1> QED BY <1>1, <1>2

\* A fragment of a message.
LEMMA HandleData ==
  ASSUME NEW s, StateOK(s), NEW sdu, sdu.lcid \in 1 .. 3,
         NEW h \in Header, NEW t \in Seq(Plain), sdu.bytes = << h >> \o t,
         PartOf(test_IP, sdu.lcid, h, t)
  PROVE  StateOK(Judged(s, sdu)) /\ Judged(s, sdu).stats = StatsAfter(s, sdu)
<1> DEFINE c == sdu.lcid
           out == reassemble(s.buffer[c], h.first, t)
           new == (IF h.first THEN << >> ELSE s.heard[c]) \o t
           left == IF h.last THEN << >> ELSE new
           d == [channel |-> c, size |-> Len(h.whole), data |-> h.whole[1] = PdcpData,
                 heard |-> new = h.whole, intact |-> Decoded(s, sdu).out = h.whole,
                 network |-> toNetwork(c, pdcp_decode(c, Decoded(s, sdu).out))]
           D == IF ~ h.last THEN s.delivered ELSE s.delivered \union {d}
           T == Taken(s, sdu)
<1>1. /\ Head(sdu.bytes) = h /\ Tail(sdu.bytes) = t /\ h.dc = "data"
      /\ Decoded(s, sdu).rx.buf = out
      /\ Decoded(s, sdu).out = IF h.last THEN out ELSE << >>
  BY DataDecoded
<1>2. /\ Agree(out, left)
      /\ new = h.whole /\ Len(h.whole) < IndexMod => out = h.whole
  <2>1. Agree(s.buffer[c], s.heard[c])
    <3>1. c \in Channel
      BY DEF Channel
    <3> QED BY <3>1 DEF StateOK, BuffersOK
  <2>2. h.first \/ h.last
    BY DEF PartOf
  <2>3. ~ h.first => Len(t) < Len(h.whole)
    BY DEF PartOf
  <2> QED BY <2>1, <2>2, <2>3, FragmentKeepsAgreement
<1>3. /\ Fields(T) /\ T.buffer = [s.buffer EXCEPT ![c] = out]
      /\ T.stats = StatsAfter(s, sdu) /\ T.heard = s.heard /\ T.sn = s.sn
      /\ T.delivered = s.delivered /\ T.answers = s.answers
  BY <1>1, TakenIs
<1> HIDE DEF T, out
<1>4. Judged(s, sdu) = [buffer |-> T.buffer, sn |-> T.sn, stats |-> T.stats,
                        heard |-> [s.heard EXCEPT ![c] = left],
                        delivered |-> D, answers |-> T.answers, rx |-> T.rx]
  <2>1. Judged(s, sdu) = [T EXCEPT !.heard[c] = left, !.delivered = D]
    <3>1. c # 0
      OBVIOUS
    <3> DEFINE o == Decoded(s, sdu).out
    <3>2. Judged(s, sdu) = Judge(T, c, sdu.bytes, o)
      BY DEF Judged, T
    <3> HIDE DEF c, o
    <3>3. Judge(T, c, sdu.bytes, o)
            = [T EXCEPT !.heard[c] = IF h.last THEN << >> ELSE
                          (IF h.first THEN << >> ELSE T.heard[c]) \o t,
                        !.delivered = IF ~ h.last THEN T.delivered ELSE T.delivered \union
                          {[channel |-> c, size |-> Len(h.whole), data |-> h.whole[1] = PdcpData,
                            heard |-> (IF h.first THEN << >> ELSE T.heard[c]) \o t = h.whole,
                            intact |-> o = h.whole,
                            network |-> toNetwork(c, pdcp_decode(c, o))]}]
      BY <1>1, <3>1 DEF Judge
    <3> QED BY <1>3, <3>2, <3>3 DEF o
  <2> HIDE DEF left, D
  <2> QED BY <1>3, <2>1 DEF Fields
<1>5. BuffersOK(T.buffer, [s.heard EXCEPT ![c] = left])
  <2>1. /\ s.buffer \in [Channel -> Seq(Plain)] /\ s.heard \in [Channel -> Seq(Plain)]
        /\ \A k \in Channel : Agree(s.buffer[k], s.heard[k])
    BY DEF StateOK, BuffersOK
  <2>2. out \in Seq(Plain) /\ left \in Seq(Plain) /\ c \in Channel
    BY <1>2 DEF Agree, Channel
  <2> HIDE DEF left, c
  <2> QED BY <1>2, <1>3, <2>1, <2>2 DEF BuffersOK
<1>6. Intact(D)
  <2>1. CASE ~ h.last
    BY <2>1 DEF StateOK
  <2>2. CASE h.last
    <3>1. d.heard /\ d.size < IndexMod => d.intact
      <4>1. (d.heard <=> new = h.whole) /\ d.size = Len(h.whole)
            /\ (d.intact <=> Decoded(s, sdu).out = h.whole)
        OBVIOUS
      <4> HIDE DEF d, new
      <4> QED BY <1>1, <1>2, <2>2, <4>1
    <3>2. D = s.delivered \union {d} /\ Intact(s.delivered)
      BY <2>2 DEF StateOK
    <3> HIDE DEF d, D
    <3> QED BY <3>1, <3>2 DEF Intact
  <2> QED BY <2>1, <2>2
<1>7. StatsOK(T.stats)
  <2>1. StatsOK(StatsAfter(s, sdu))
    BY StatsAfterData
  <2> QED BY <1>3, <2>1
<1> HIDE DEF D, left
<1> DEFINE j == [buffer |-> T.buffer, sn |-> T.sn, stats |-> T.stats,
                 heard |-> [s.heard EXCEPT ![c] = left],
                 delivered |-> D, answers |-> T.answers, rx |-> T.rx]
<1>8. /\ j.buffer = T.buffer /\ j.sn = T.sn /\ j.stats = T.stats /\ j.delivered = D
      /\ j.heard = [s.heard EXCEPT ![c] = left] /\ j.answers = T.answers /\ Fields(j)
  BY DEF Fields
<1> HIDE DEF j
<1>9. StateOK(j)
  BY <1>3, <1>5, <1>6, <1>7, <1>8 DEF StateOK
<1> QED BY <1>3, <1>4, <1>8, <1>9 DEF j

\* Whatever the phone sends, the buffers, the sequence numbers and the counters
\* stay right, and what was heard whole is delivered whole.
LEMMA HandleKeeps ==
  ASSUME NEW s, StateOK(s), NEW sdu \in PhoneSdu(test_IP)
  PROVE  StateOK(Handle(s, sdu)) /\ Handle(s, sdu).stats = StatsAfter(s, sdu)
<1>1. CASE sdu.lcid = 0
  BY <1>1, HandleOther, HandleFollows
<1>2. CASE sdu.lcid = 1 /\ \E n \in 0 .. SnMod - 1 : sdu.bytes = StatusReport(n)
  <2>1. Head(sdu.bytes).dc = "status"
    BY <1>2 DEF StatusReport
  <2> QED BY <1>2, <2>1, HandleOther, HandleFollows
<1>3. CASE /\ sdu.lcid \in 1 .. 3
           /\ \E h \in Header, t \in Seq(Plain) :
                sdu.bytes = << h >> \o t /\ PartOf(test_IP, sdu.lcid, h, t)
  BY <1>3, HandleData, HandleFollows
<1> QED BY <1>1, <1>2, <1>3, SduCases

HandledUpto(after, s, sdus, n) ==
  after = [k \in 0 .. n |-> IF k = 0 THEN s ELSE Handle(after[k - 1], sdus[k])]

LEMMA HandledExists ==
  ASSUME NEW s, NEW sdus, NEW n \in Nat
  PROVE  \E after : HandledUpto(after, s, sdus, n)
<1> DEFINE P == {m \in 0 .. n : \E after : HandledUpto(after, s, sdus, m)}
<1>1. 0 \in P
  <2> DEFINE g == [k \in 0 .. 0 |-> s]
  <2>1. HandledUpto(g, s, sdus, 0)
    BY DEF HandledUpto
  <2> HIDE DEF g
  <2> QED BY <2>1
<1>2. ASSUME NEW m \in 1 .. n, m - 1 \in P PROVE m \in P
  <2>1. PICK h : HandledUpto(h, s, sdus, m - 1)
    BY <1>2
  <2> DEFINE g == [k \in 0 .. m |-> IF k = m THEN Handle(h[m - 1], sdus[m]) ELSE h[k]]
  <2>2. ASSUME NEW k \in 0 .. m
        PROVE  g[k] = IF k = 0 THEN s ELSE Handle(g[k - 1], sdus[k])
    <3>1. CASE k = m
      <4>1. m # 0 /\ m - 1 \in 0 .. m /\ m - 1 # m
        OBVIOUS
      <4>2. g[m] = Handle(h[m - 1], sdus[m]) /\ g[m - 1] = h[m - 1]
        BY <4>1
      <4> HIDE DEF g
      <4> QED BY <3>1, <4>1, <4>2
    <3>2. CASE k # m
      <4>1. k \in 0 .. m - 1
        BY <3>2
      <4>2. h[k] = IF k = 0 THEN s ELSE Handle(h[k - 1], sdus[k])
        BY <2>1, <4>1 DEF HandledUpto
      <4>3. g[k] = h[k] /\ (k # 0 => g[k - 1] = h[k - 1])
        BY <3>2, <4>1
      <4> HIDE DEF g
      <4> QED BY <4>2, <4>3
    <3> QED BY <3>1, <3>2
  <2>3. HandledUpto(g, s, sdus, m)
    <3>1. g = [k \in 0 .. m |-> g[k]]
      OBVIOUS
    <3> HIDE DEF g
    <3> QED BY <2>2, <3>1 DEF HandledUpto
  <2> HIDE DEF g
  <2> QED BY <2>3
<1>3. n \in P
  <2> HIDE DEF P
  <2>1. 0 .. n \subseteq P
    BY <1>1, <1>2, IntervalInduction
  <2> QED BY <2>1
<1> QED BY <1>3

\* What end_to_end starts from, on a block.
Begin ==
  [buffer |-> rlc_sdu_buffer, sn |-> rlc_tx_sn, stats |-> stats,
   heard |-> heard, delivered |-> {}, answers |-> << >>,
   rx |-> [sn |-> 0, poll |-> FALSE]]

\* A block is handled SDU by SDU.
LEMMA ResultUnfolds ==
  ASSUME NEW pdu, NEW sdus, mac_decode(pdu) = sdus, Len(sdus) \in Nat
  PROVE  \E after : /\ HandledUpto(after, Begin, sdus, Len(sdus))
                    /\ Result(pdu) = after[Len(sdus)]
<1> DEFINE n == Len(sdus)
           after[k \in 0 .. n] == IF k = 0 THEN Begin ELSE Handle(after[k - 1], sdus[k])
<1>1. Result(pdu) = after[n]
  BY DEF Result, Begin
<1>2. HandledUpto(after, Begin, sdus, n)
  <2>1. PICK g : HandledUpto(g, Begin, sdus, n)
    BY HandledExists
  <2>2. g = [k \in 0 .. n |-> IF k = 0 THEN Begin ELSE Handle(g[k - 1], sdus[k])]
    BY <2>1 DEF HandledUpto
  <2>3. after = CHOOSE h : h = [k \in 0 .. n |-> IF k = 0 THEN Begin ELSE Handle(h[k - 1], sdus[k])]
    BY DEF after
  <2> HIDE DEF after, n
  <2> QED BY <2>2, <2>3 DEF HandledUpto
<1> HIDE DEF after
<1> QED BY <1>1, <1>2

LEMMA HandledKeeps ==
  ASSUME StateOK(Begin), NEW sdus \in Seq(PhoneSdu(test_IP)), NEW after,
         HandledUpto(after, Begin, sdus, Len(sdus))
  PROVE  \A k \in 0 .. Len(sdus) :
           /\ StateOK(after[k])
           /\ k > 0 => after[k].stats = StatsAfter(after[k - 1], sdus[k])
<1> DEFINE n == Len(sdus)
           P == {m \in 0 .. n : StateOK(after[m])}
<1>1. n \in Nat
  OBVIOUS
<1>2. after[0] = Begin /\ \A k \in 1 .. n : after[k] = Handle(after[k - 1], sdus[k])
  <2>1. \A k \in 0 .. n : after[k] = IF k = 0 THEN Begin ELSE Handle(after[k - 1], sdus[k])
    BY DEF HandledUpto
  <2> QED BY <1>1, <2>1
<1>3. 0 \in P
  BY <1>1, <1>2
<1>4. ASSUME NEW k \in 1 .. n, k - 1 \in P PROVE k \in P
  <2>1. StateOK(after[k - 1]) /\ sdus[k] \in PhoneSdu(test_IP)
    BY <1>4, ElementOfSeq
  <2>2. StateOK(Handle(after[k - 1], sdus[k]))
    BY <2>1, HandleKeeps
  <2> QED BY <1>2, <2>2
<1>5. 0 .. n \subseteq P
  <2> HIDE DEF P, n
  <2> QED BY <1>1, <1>3, <1>4, IntervalInduction
<1>6. ASSUME NEW k \in 1 .. n PROVE after[k].stats = StatsAfter(after[k - 1], sdus[k])
  <2>1. k - 1 \in P
    BY <1>1, <1>5
  <2>2. StateOK(after[k - 1]) /\ sdus[k] \in PhoneSdu(test_IP)
    BY <2>1, ElementOfSeq
  <2> QED BY <1>2, <2>2, HandleKeeps
<1> HIDE DEF P
<1>7. \A k \in 0 .. n : StateOK(after[k])
  BY <1>5 DEF P
<1> QED BY <1>6, <1>7

----------------------------------------------------------------------------
(***************************************************************************)
(* The invariant: what the phone keeps, what is on the air, and the state  *)
(* of the base station between two blocks.                                 *)
(***************************************************************************)
Phases == DOMAIN NextCommand \union
  {"off", "request", "completing", "attached", "detachRequest"}

PhoneOK ==
  /\ test_IP \in BOOLEAN /\ rate \in Rates /\ phase \in Phases
  /\ conn \in 0 .. ConnMod - 1 /\ stream \in 0 .. WordMod - 1
  /\ vt \in 0 .. SnMod - 1 /\ vr \in 0 .. SnMod - 1
  /\ sending = [c \in Channel |-> sending[c]]
  /\ \A c \in Channel : sending[c] \in Seq(Fragment(test_IP, c))
  /\ unacked = << >> \/ unacked \in Fragment(test_IP, 1)

UpOK == up \in Seq(Block(test_IP)) /\ Len(up) <= MaxUp /\ trouble \in 0 .. MaxTrouble

\* The blocks on their way down have a subheader.
Headed(d) == Sequence(d) /\ \A i \in 1 .. Len(d) : Len(d[i].head) \in Nat \ {0}

DownOK == Headed(down) /\ Len(down) <= MaxDown

StationOK ==
  /\ BuffersOK(rlc_sdu_buffer, heard) /\ rlc_tx_sn \in [Channel -> 0 .. SnMod - 1]
  /\ StatsOK(stats)

ProtocolInv == PhoneOK /\ UpOK /\ DownOK /\ StationOK /\ Intact(delivered)

----------------------------------------------------------------------------
(* Lemmas about what the actions build. *)

LEMMA OneIsSequence ==
  ASSUME NEW x
  PROVE  Sequence(<< x >>) /\ Len(<< x >>) = 1 /\ << x >> # << >>
BY SeqIsSequence, << x >> \in Seq({x})

\* A block has a subheader for each SDU and one for the padding.
LEMMA BlockHasHead ==
  ASSUME NEW sdus, Sequence(sdus), sdus # << >>, NEW size
  PROVE  Len(InBlock(sdus, size).head) \in Nat \ {0}
<1> DEFINE sub(k) == [lcid |-> sdus[k].lcid, e |-> 1, length |-> Len(sdus[k].bytes)]
           head == [k \in 1 .. Len(sdus) |-> sub(k)]
           padding == [lcid |-> Padding, e |-> 0, length |-> 0]
           T == {sub(k) : k \in 1 .. Len(sdus)} \union {padding}
           body == Bodies(SubSeq(sdus, 1, Complete(sdus, size)))
<1>1. Len(sdus) \in Nat \ {0}
  BY TailSequence
<1>2. mac_encode(sdus) = [head |-> head \o << padding >>, body |-> Bodies(sdus)]
  BY DEF mac_encode
<1>3. InBlock(sdus, size).head = head \o << padding >>
  <2> HIDE DEF head, padding, body
  <2>1. InBlock(sdus, size) = [mac_encode(sdus) EXCEPT !.body = body]
    BY DEF InBlock, body
  <2> QED BY <1>2, <2>1
<1>4. head \in Seq(T) /\ << padding >> \in Seq(T) /\ Len(head) = Len(sdus)
      /\ Len(<< padding >>) = 1
  <2>1. padding \in T /\ \A k \in 1 .. Len(sdus) : sub(k) \in T
    OBVIOUS
  <2> HIDE DEF T, sub, padding
  <2> QED BY <1>1, <2>1
<1> HIDE DEF head, padding, T
<1>5. Len(head \o << padding >>) = Len(sdus) + 1
  BY <1>4, ConcatProperties
<1> QED BY <1>1, <1>3, <1>5

LEMMA AppendHeaded ==
  ASSUME NEW d, Headed(d), NEW block, Len(block.head) \in Nat \ {0}
  PROVE  Headed(Append(d, block)) /\ Len(Append(d, block)) = Len(d) + 1
<1>1. Sequence(d)
  BY DEF Headed
<1>2. /\ Sequence(Append(d, block)) /\ Len(Append(d, block)) = Len(d) + 1
      /\ Append(d, block)[Len(d) + 1] = block
      /\ \A i \in 1 .. Len(d) : Append(d, block)[i] = d[i]
  BY <1>1, AppendSequence
<1>3. Len(d) \in Nat
  BY <1>1 DEF Sequence
<1>4. ASSUME NEW i \in 1 .. Len(d) + 1
      PROVE  Len(Append(d, block)[i].head) \in Nat \ {0}
  <2>1. CASE i = Len(d) + 1
    BY <1>2, <2>1
  <2>2. CASE i # Len(d) + 1
    <3>1. i \in 1 .. Len(d)
      BY <1>3, <2>2
    <3> QED BY <1>2, <3>1 DEF Headed
  <2> QED BY <2>1, <2>2
<1> QED BY <1>2, <1>4 DEF Headed

LEMMA TailHeaded ==
  ASSUME NEW d, Headed(d), d # << >>
  PROVE  Headed(Tail(d)) /\ Len(Tail(d)) = Len(d) - 1 /\ Len(Head(d).head) \in Nat \ {0}
<1>1. Sequence(d)
  BY DEF Headed
<1>2. /\ Sequence(Tail(d)) /\ Len(Tail(d)) = Len(d) - 1 /\ Len(d) \in Nat \ {0}
      /\ \A i \in 1 .. Len(Tail(d)) : Tail(d)[i] = d[i + 1]
  BY <1>1, TailSequence
<1>3. ASSUME NEW i \in 1 .. Len(Tail(d)) PROVE Len(Tail(d)[i].head) \in Nat \ {0}
  <2>1. i + 1 \in 1 .. Len(d)
    BY <1>2
  <2> QED BY <1>2, <2>1 DEF Headed
<1>4. Head(d) = d[1] /\ 1 \in 1 .. Len(d)
  BY <1>2
<1> QED BY <1>2, <1>3, <1>4 DEF Headed

\* A fragment of a message.
LEMMA FragmentMade ==
  ASSUME NEW test, NEW c \in 1 .. 3, NEW msg \in Seq(Plain), NEW t \in Seq(Plain),
         NEW first \in BOOLEAN, NEW last \in BOOLEAN, NEW n \in Nat,
         first \/ last, ~ first => Len(t) < Len(msg),
         test /\ c = 3 => first /\ last /\ t \in TestMessages
  PROVE  LET h == [kind |-> "rlc", dc |-> "data", p |-> (c \in AM /\ last), e |-> 0,
                   first |-> first, last |-> last, sn |-> n % SnMod, whole |-> msg]
         IN  << h >> \o t \in Fragment(test, c)
<1> DEFINE h == [kind |-> "rlc", dc |-> "data", p |-> (c \in AM /\ last), e |-> 0,
                 first |-> first, last |-> last, sn |-> n % SnMod, whole |-> msg]
<1>1. n % SnMod \in 0 .. SnMod - 1
  BY RlcAssumption, RemainderRange
<1>2. h \in Header
  <2>1. (c \in AM /\ last) \in BOOLEAN
    OBVIOUS
  <2> QED BY <1>1, <2>1 DEF Header
<1>3. h.first = first /\ h.last = last /\ h.whole = msg
  OBVIOUS
<1> HIDE DEF h
<1>4. PartOf(test, c, h, t)
  BY <1>3 DEF PartOf
<1>5. << h >> \o t \in Seq(Unit)
  <2>1. << h >> \in Seq(Unit)
    <3>1. h \in Unit
      BY <1>2 DEF Unit
    <3> QED BY <3>1
  <2>2. t \in Seq(Unit)
    BY SeqMonotonic DEF Unit
  <2> QED BY <2>1, <2>2
<1>6. c # 0
  OBVIOUS
<1> QED BY <1>2, <1>4, <1>5, <1>6 DEF Fragment, h

\* A message in one or two fragments.
LEMMA FragmentsMade ==
  ASSUME NEW test, NEW c \in 1 .. 3, NEW msg \in Seq(Plain), Len(msg) > 1,
         NEW cut \in Cuts(msg), NEW n \in Nat,
         test /\ c = 3 => cut = Len(msg) /\ msg \in TestMessages
  PROVE  /\ Fragments(c, msg, cut, n) \in Seq(Fragment(test, c))
         /\ Len(Fragments(c, msg, cut, n)) \in 1 .. 2
<1> DEFINE part(first, last, k, t) ==
             << [kind |-> "rlc", dc |-> "data", p |-> (c \in AM /\ last), e |-> 0,
                 first |-> first, last |-> last, sn |-> k % SnMod, whole |-> msg] >> \o t
           F == Fragment(test, c)
<1>1. Len(msg) \in Nat
  OBVIOUS
<1>2. CASE cut = Len(msg)
  <2>1. Fragments(c, msg, cut, n) = << part(TRUE, TRUE, n, msg) >>
    BY <1>2 DEF Fragments
  <2>2. part(TRUE, TRUE, n, msg) \in F
    BY <1>2, FragmentMade
  <2> DEFINE x == part(TRUE, TRUE, n, msg)
  <2>3. Fragments(c, msg, cut, n) = << x >> /\ x \in F
    BY <2>1, <2>2
  <2> HIDE DEF x, F
  <2>4. << x >> \in Seq(F) /\ Len(<< x >>) = 1
    BY <2>3
  <2> QED BY <2>3, <2>4 DEF F
<1>3. CASE cut # Len(msg)
  <2>1. cut = Len(msg) - 1 /\ ~ (test /\ c = 3)
    BY <1>3 DEF Cuts
  <2> DEFINE a == SubSeq(msg, 1, cut)
             b == SubSeq(msg, cut + 1, Len(msg))
  <2>2. Fragments(c, msg, cut, n) = << part(TRUE, FALSE, n, a), part(FALSE, TRUE, n + 1, b) >>
    BY <1>3 DEF Fragments
  <2>3. a \in Seq(Plain)
    <3>1. \A i \in 1 .. cut : msg[i] \in Plain
      <4> TAKE i \in 1 .. cut
      <4>1. i \in 1 .. Len(msg)
        BY <1>1, <2>1
      <4> QED BY <4>1, ElementOfSeq
    <3>2. 1 \in Int /\ cut \in Int
      BY <1>1, <2>1
    <3> QED BY <3>1, <3>2, SubSeqProperties
  <2>4. b \in Seq(Plain) /\ Len(b) < Len(msg)
    <3>1. \A i \in cut + 1 .. Len(msg) : msg[i] \in Plain
      <4> TAKE i \in cut + 1 .. Len(msg)
      <4>1. i \in 1 .. Len(msg)
        BY <1>1, <2>1
      <4> QED BY <4>1, ElementOfSeq
    <3>2. cut + 1 \in Int /\ Len(msg) \in Int
      BY <1>1, <2>1
    <3>3. b \in Seq(Plain)
      BY <3>1, <3>2, SubSeqProperties
    <3>4. Len(b) = IF cut + 1 <= Len(msg) THEN Len(msg) - (cut + 1) + 1 ELSE 0
      BY <3>1, <3>2, SubSeqProperties
    <3> HIDE DEF b
    <3> QED BY <1>1, <2>1, <3>3, <3>4
  <2>5. part(TRUE, FALSE, n, a) \in F
    <3> HIDE DEF a
    <3> QED BY <2>1, <2>3, FragmentMade
  <2>6. part(FALSE, TRUE, n + 1, b) \in F
    <3>1. n + 1 \in Nat
      OBVIOUS
    <3> HIDE DEF b
    <3> QED BY <2>1, <2>4, <3>1, FragmentMade
  <2> DEFINE x == part(TRUE, FALSE, n, a)
             y == part(FALSE, TRUE, n + 1, b)
  <2>7. Fragments(c, msg, cut, n) = << x, y >> /\ x \in F /\ y \in F
    BY <2>2, <2>5, <2>6
  <2> HIDE DEF x, y, F
  <2>8. << x, y >> \in Seq(F) /\ Len(<< x, y >>) = 2
    BY <2>7
  <2> QED BY <2>7, <2>8 DEF F
<1> QED BY <1>2, <1>3

----------------------------------------------------------------------------
(* The actions. *)

LEMMA Initially == Init => ProtocolInv
<1> SUFFICES ASSUME Init PROVE ProtocolInv
  OBVIOUS
<1> USE DEF Init
<1>1. PhoneOK
  <2>1. sending = [c \in Channel |-> sending[c]] /\ \A c \in Channel : sending[c] = << >>
    BY DEF Empty
  <2>2. 0 \in 0 .. ConnMod - 1 /\ 0 \in 0 .. WordMod - 1 /\ 0 \in 0 .. SnMod - 1
    BY EndToEndAssumption, IpTestAssumption, RlcAssumption
  <2>3. \A c \in Channel : << >> \in Seq(Fragment(test_IP, c))
    BY EmptySeq
  <2> QED BY <2>1, <2>2, <2>3 DEF PhoneOK, Phases
<1>2. UpOK
  BY EndToEndAssumption, EmptySeq DEF UpOK
<1>3. DownOK
  <2>1. Sequence(<< >>) /\ Len(<< >>) = 0
    BY SeqIsSequence, << >> \in Seq({})
  <2> QED BY <2>1, EndToEndAssumption DEF DownOK, Headed
<1>4. StationOK
  <2>1. StatsOK(stats)
    BY IpTestAssumption DEF StatsOK
  <2> QED BY <2>1, EmptyBuffers, ResetSn DEF StationOK
<1>5. Intact(delivered)
  BY DEF Intact
<1> QED BY <1>1, <1>2, <1>3, <1>4, <1>5 DEF ProtocolInv

LEMMA StationSame ==
  ASSUME ProtocolInv, UNCHANGED stationVars, delivered' = {}
  PROVE  StationOK' /\ Intact(delivered')
BY DEF ProtocolInv, StationOK, Intact, stationVars

LEMMA SayIsPlain ==
  ASSUME conn \in 0 .. ConnMod - 1, NEW type \in Types
  PROVE  Say(type) \in Seq(Plain) /\ Len(Say(type)) = 3
<1> DEFINE unit == [kind |-> "msg", type |-> type, id |-> conn, k |-> 1]
<1>1. unit \in Plain /\ PdcpData \in Plain /\ MacI \in Plain
  BY DEF Plain
<1>2. Say(type) = << PdcpData >> \o << unit >> \o << MacI >>
  BY DEF Say, pdcp_encode, AM
<1> HIDE DEF unit
<1>3. /\ << PdcpData >> \in Seq(Plain) /\ Len(<< PdcpData >>) = 1
      /\ << unit >> \in Seq(Plain) /\ Len(<< unit >>) = 1
      /\ << MacI >> \in Seq(Plain) /\ Len(<< MacI >>) = 1
  BY <1>1
<1> DEFINE a == << PdcpData >>
           b == << unit >>
           m == << MacI >>
<1> HIDE DEF a, b, m
<1>4. a \o b \in Seq(Plain) /\ Len(a \o b) = 2
  BY <1>3, ConcatProperties DEF a, b
<1>5. (a \o b) \o m \in Seq(Plain) /\ Len((a \o b) \o m) = 3
  BY <1>3, <1>4, ConcatProperties DEF m
<1> QED BY <1>2, <1>5 DEF a, b, m

\* What is queued on a channel.
SendingOK(s) ==
  /\ s = [c \in Channel |-> s[c]]
  /\ \A c \in Channel : s[c] \in Seq(Fragment(test_IP, c))

LEMMA SendingExcept ==
  ASSUME NEW s, SendingOK(s), NEW c \in Channel, NEW parts \in Seq(Fragment(test_IP, c))
  PROVE  SendingOK([s EXCEPT ![c] = parts])
<1> DEFINE n == [s EXCEPT ![c] = parts]
<1>1. n = [k \in Channel |-> IF k = c THEN parts ELSE s[k]]
  BY DEF SendingOK
<1>2. \A k \in Channel : n[k] = IF k = c THEN parts ELSE s[k]
  BY <1>1
<1>3. n = [k \in Channel |-> n[k]]
  BY <1>1
<1> HIDE DEF n
<1>4. \A k \in Channel : n[k] \in Seq(Fragment(test_IP, k))
  BY <1>2 DEF SendingOK
<1> QED BY <1>3, <1>4 DEF n, SendingOK

\* A message of the phone is queued.
LEMMA EnqueueKeeps ==
  ASSUME PhoneOK, NEW type \in Types, NEW next \in Phases, Enqueue(type, next)
  PROVE  SendingOK(sending') /\ vt' \in 0 .. SnMod - 1 /\ phase' \in Phases
<1>1. Say(type) \in Seq(Plain) /\ Len(Say(type)) = 3
  BY SayIsPlain DEF PhoneOK
<1>2. PICK cut \in Cuts(Say(type)) :
        /\ sending' = [sending EXCEPT ![1] = Fragments(1, Say(type), cut, vt)]
        /\ vt' = (vt + Len(Fragments(1, Say(type), cut, vt))) % SnMod
        /\ phase' = next
  BY DEF Enqueue
<1>3. vt \in Nat
  BY DEF PhoneOK
<1> DEFINE parts == Fragments(1, Say(type), cut, vt)
<1>4. parts \in Seq(Fragment(test_IP, 1)) /\ Len(parts) \in 1 .. 2
  <2>1. 1 \in 1 .. 3 /\ 1 # 3 /\ Len(Say(type)) > 1 /\ cut \in Cuts(Say(type))
    BY <1>1
  <2> QED BY ONLY <1>1, <1>3, <2>1, FragmentsMade
<1> HIDE DEF parts
<1>5. SendingOK(sending)
  BY DEF PhoneOK, SendingOK
<1>6. SendingOK(sending')
  <2>1. 1 \in Channel
    BY DEF Channel
  <2>2. SendingOK([sending EXCEPT ![1] = parts])
    BY <1>4, <1>5, <2>1, SendingExcept
  <2> QED BY <1>2, <2>2 DEF parts
<1>7. vt' \in 0 .. SnMod - 1
  <2>1. vt + Len(parts) \in Int
    BY <1>3, <1>4
  <2> QED BY <1>2, <2>1, RemainderRange, RlcAssumption DEF parts
<1> QED BY <1>2, <1>6, <1>7

LEMMA EnqueueCompletesKeeps ==
  ASSUME PhoneOK, EnqueueCompletes
  PROVE  SendingOK(sending') /\ vt' \in 0 .. SnMod - 1 /\ phase' \in Phases
<1> DEFINE first == Say("reconfigurationComplete")
           second == Say("attachComplete")
<1>1. /\ first \in Seq(Plain) /\ Len(first) = 3
      /\ second \in Seq(Plain) /\ Len(second) = 3
  BY SayIsPlain DEF PhoneOK, Types
<1> HIDE DEF first, second
<1> DEFINE parts(cut) == Fragments(1, first, Len(first), vt) \o Fragments(1, second, cut, vt + 1)
<1>2. PICK cut \in Cuts(second) :
        /\ sending' = [sending EXCEPT ![1] = parts(cut)]
        /\ vt' = (vt + Len(parts(cut))) % SnMod
        /\ phase' = "completing"
  BY DEF EnqueueCompletes, first, second
<1>3. vt \in Nat /\ vt + 1 \in Nat
  BY DEF PhoneOK
<1>4. parts(cut) \in Seq(Fragment(test_IP, 1)) /\ Len(parts(cut)) \in Nat
  <2>0. /\ first \in Seq(Plain) /\ Len(first) > 1
        /\ second \in Seq(Plain) /\ Len(second) > 1
        /\ vt \in Nat /\ vt + 1 \in Nat /\ 1 \in 1 .. 3 /\ 1 # 3 /\ cut \in Cuts(second)
    BY <1>1, <1>3
  <2>1. Len(first) \in Cuts(first)
    BY DEF Cuts
  <2>2. Fragments(1, first, Len(first), vt) \in Seq(Fragment(test_IP, 1))
    BY ONLY <2>0, <2>1, FragmentsMade
  <2>3. Fragments(1, second, cut, vt + 1) \in Seq(Fragment(test_IP, 1))
    BY ONLY <2>0, FragmentsMade
  <2> QED BY <2>2, <2>3
<1> DEFINE p == parts(cut)
<1>5. p \in Seq(Fragment(test_IP, 1)) /\ Len(p) \in Nat /\ sending' = [sending EXCEPT ![1] = p]
      /\ vt' = (vt + Len(p)) % SnMod
  BY <1>2, <1>4
<1> HIDE DEF p
<1>6. SendingOK(sending)
  BY DEF PhoneOK, SendingOK
<1>7. SendingOK(sending')
  <2>1. 1 \in Channel
    BY DEF Channel
  <2>2. SendingOK([sending EXCEPT ![1] = p])
    BY <1>5, <1>6, <2>1, SendingExcept
  <2> QED BY <1>5, <2>2
<1>8. vt' \in 0 .. SnMod - 1
  <2>1. vt + Len(p) \in Int
    BY <1>3, <1>5
  <2> QED BY <1>5, <2>1, RemainderRange, RlcAssumption
<1> QED BY <1>2, <1>7, <1>8 DEF Phases

LEMMA PhoneNext ==
  ASSUME PhoneOK, UNCHANGED <<test_IP, rate>>, phase' \in Phases,
         conn' \in 0 .. ConnMod - 1, stream' \in 0 .. WordMod - 1,
         vt' \in 0 .. SnMod - 1, vr' \in 0 .. SnMod - 1, SendingOK(sending'),
         unacked' = << >> \/ unacked' \in Fragment(test_IP, 1)
  PROVE  PhoneOK'
BY DEF PhoneOK, SendingOK

LEMMA PhoneSame ==
  ASSUME PhoneOK, UNCHANGED <<test_IP, rate, phoneVars>>
  PROVE  PhoneOK'
BY DEF PhoneOK, phoneVars

LEMMA UpSame ==
  ASSUME UpOK, UNCHANGED <<test_IP, up>>, trouble' = trouble \/ Hit
  PROVE  UpOK'
BY EndToEndAssumption DEF UpOK, Hit

LEMMA UpTaken1 ==
  ASSUME UpOK, UNCHANGED test_IP, up # << >>, up' = Tail(up), trouble' = trouble \/ Hit
  PROVE  UpOK'
<1>1. Tail(up) \in Seq(Block(test_IP)) /\ Len(Tail(up)) = Len(up) - 1 /\ Len(up) \in Nat
  BY HeadTailProperties DEF UpOK
<1>2. up' \in Seq(Block(test_IP')) /\ Len(up') <= MaxUp
  BY <1>1, EndToEndAssumption DEF UpOK
<1>3. trouble' \in 0 .. MaxTrouble
  BY EndToEndAssumption DEF UpOK, Hit
<1> QED BY <1>2, <1>3 DEF UpOK

\* The blocks of the phone are decoded as they were made.
LEMMA BlockDecodes ==
  ASSUME NEW test, NEW block \in Block(test)
  PROVE  /\ block.sdus \in Seq(PhoneSdu(test)) /\ block.sdus # << >>
         /\ mac_decode(block.pdu) = block.sdus
<1>1. PICK ce \in BOOLEAN, s \in Seq(PhoneSdu(test)) \ {<< >>} :
        block = [pdu |-> PhonePdu(ce, s), sdus |-> s]
  BY DEF Block
<1>2. block.pdu = PhonePdu(ce, s) /\ block.sdus = s
  BY <1>1
<1>3. s \in Seq([lcid : 0 .. 10, bytes : Seq(Unit)])
  <2>1. PhoneSdu(test) \subseteq [lcid : 0 .. 10, bytes : Seq(Unit)]
    BY DEF PhoneSdu, Channel
  <2> QED BY <1>1, <2>1, SeqMonotonic
<1>4. mac_decode(PhonePdu(ce, s)) = s
  BY <1>1, <1>3, PhonePduDecodes
<1> QED BY <1>1, <1>2, <1>4

LEMMA ResultOK ==
  ASSUME ProtocolInv, up # << >>
  PROVE  StateOK(Result(Head(up).pdu))
<1> DEFINE block == Head(up)
           sdus == block.sdus
<1>1. block \in Block(test_IP)
  BY HeadTailProperties DEF ProtocolInv, UpOK
<1>2. sdus \in Seq(PhoneSdu(test_IP)) /\ mac_decode(block.pdu) = sdus
  <2> HIDE DEF block
  <2> QED BY <1>1, BlockDecodes
<1>3. StateOK(Begin)
  <2>1. Sequence(<< >>)
    BY SeqIsSequence, << >> \in Seq({})
  <2>2. /\ Fields(Begin) /\ Begin.answers = << >> /\ Begin.buffer = rlc_sdu_buffer
        /\ Begin.heard = heard /\ Begin.delivered = {} /\ Begin.sn = rlc_tx_sn
        /\ Begin.stats = stats
    BY DEF Begin, Fields
  <2>3. Intact({})
    BY DEF Intact
  <2> QED BY <2>1, <2>2, <2>3 DEF StateOK, ProtocolInv, StationOK
<1> HIDE DEF block, sdus
<1>4. Len(sdus) \in Nat
  BY <1>2
<1>5. PICK after : /\ HandledUpto(after, Begin, sdus, Len(sdus))
                   /\ Result(block.pdu) = after[Len(sdus)]
  BY <1>2, <1>4, ResultUnfolds
<1>6. StateOK(after[Len(sdus)])
  BY <1>2, <1>3, <1>4, <1>5, HandledKeeps
<1> QED BY <1>5, <1>6 DEF block

LEMMA ServeKeeps ==
  ASSUME ProtocolInv, Serve
  PROVE  ProtocolInv'
<1>1. PICK result \in {Result(Head(up).pdu)} :
         /\ rlc_sdu_buffer' = result.buffer
         /\ rlc_tx_sn' = result.sn
         /\ stats' = result.stats
         /\ heard' = result.heard
         /\ delivered' = result.delivered
         /\ IF result.answers = <<>> THEN UNCHANGED <<down, trouble>>
            ELSE \/ Queue(InBlock(result.answers, RrcBlock)) /\ UNCHANGED trouble
                 \/ Hit /\ UNCHANGED down
  BY DEF Serve
<1>2. /\ up # << >> /\ Len(down) < MaxDown /\ up' = Tail(up)
      /\ UNCHANGED <<test_IP, rate, phoneVars>>
  BY DEF Serve
<1>3. StateOK(result)
  BY <1>1, <1>2, ResultOK
<1>4. StationOK' /\ Intact(delivered')
  BY <1>1, <1>3 DEF StationOK, StateOK
<1>5. PhoneOK'
  BY <1>2, PhoneSame DEF ProtocolInv
<1>6. trouble' = trouble \/ Hit
  BY <1>1
<1>7. UpOK'
  BY <1>2, <1>6, UpTaken1 DEF ProtocolInv
<1>8. DownOK'
  <2>1. CASE down' = down
    BY <2>1 DEF ProtocolInv, DownOK
  <2>2. CASE result.answers # << >> /\ Queue(InBlock(result.answers, RrcBlock))
    <3> DEFINE block == InBlock(result.answers, RrcBlock)
    <3>1. Len(block.head) \in Nat \ {0}
      BY <1>3, <2>2, BlockHasHead DEF StateOK
    <3>2. down' = Append(down, block)
      BY <2>2 DEF Queue
    <3> HIDE DEF block
    <3>3. Headed(down') /\ Len(down') = Len(down) + 1
      BY <3>1, <3>2, AppendHeaded DEF ProtocolInv, DownOK
    <3>4. Len(down) \in Nat
      BY DEF ProtocolInv, DownOK, Headed, Sequence
    <3> QED BY <1>2, <3>3, <3>4, EndToEndAssumption DEF DownOK
  <2> QED BY <1>1, <2>1, <2>2
<1> QED BY <1>4, <1>5, <1>7, <1>8 DEF ProtocolInv

LEMMA ScheduleKeeps ==
  ASSUME ProtocolInv, mac_tx_schedule_IP
  PROVE  ProtocolInv'
<1>1. /\ Len(down) < MaxDown - 1 /\ rlc_tx_sn' = [rlc_tx_sn EXCEPT ![3] = nextSn(3, @)]
      /\ delivered' = {}
      /\ UNCHANGED <<test_IP, rate, rlc_sdu_buffer, stats, heard, phoneVars, up, trouble>>
  BY DEF mac_tx_schedule_IP
<1>2. DownOK'
  <2>1. CASE down' = down
    BY <2>1 DEF ProtocolInv, DownOK
  <2>2. ASSUME NEW n, NEW size, Queue(InBlock(mac_tx_get_IP_packets(n), size))
        PROVE  DownOK'
    <3> DEFINE sdus == mac_tx_get_IP_packets(n)
               block == InBlock(sdus, size)
    <3>1. Sequence(sdus) /\ sdus # << >>
      BY OneIsSequence DEF mac_tx_get_IP_packets
    <3> HIDE DEF sdus
    <3>2. Len(block.head) \in Nat \ {0}
      BY <3>1, BlockHasHead
    <3>3. down' = Append(down, block)
      BY <2>2 DEF Queue, sdus
    <3> HIDE DEF block
    <3>4. Headed(down') /\ Len(down') = Len(down) + 1
      BY <3>2, <3>3, AppendHeaded DEF ProtocolInv, DownOK
    <3>5. Len(down) \in Nat
      BY DEF ProtocolInv, DownOK, Headed, Sequence
    <3> QED BY <1>1, <3>4, <3>5, EndToEndAssumption DEF DownOK
  <2>3. \/ down' = down
        \/ \E n, size : Queue(InBlock(mac_tx_get_IP_packets(n), size))
    BY DEF mac_tx_schedule_IP
  <2> QED BY <2>1, <2>2, <2>3
<1>3. StationOK'
  <2>1. rlc_tx_sn \in [Channel -> 0 .. SnMod - 1]
    BY DEF ProtocolInv, StationOK
  <2>2. rlc_tx_sn' \in [Channel -> 0 .. SnMod - 1]
    BY <1>1, <2>1, NextSnInRange
  <2> QED BY <1>1, <2>2 DEF ProtocolInv, StationOK
<1>4. Intact(delivered')
  BY <1>1 DEF Intact
<1> QED BY <1>1, <1>2, <1>3, <1>4, PhoneSame, UpSame DEF ProtocolInv

LEMMA ClearKeeps ==
  ASSUME ProtocolInv, clearStats
  PROVE  ProtocolInv'
<1>1. /\ stats' = [stats EXCEPT !.udp_pkt_rcvd = 0, !.udp_pkt_miss = 0, !.since = stats.last]
      /\ delivered' = {}
      /\ UNCHANGED <<test_IP, rate, rlc_sdu_buffer, rlc_tx_sn, heard, phoneVars,
                     up, down, trouble>>
  BY DEF clearStats
<1>2. StatsOK(stats')
  <2>1. StatsOK(stats)
    BY DEF ProtocolInv, StationOK
  <2>2. 0 \in 0 .. WordMod - 1
    BY IpTestAssumption
  <2>3. stats' = [old_index |-> stats.old_index, udp_pkt_rcvd |-> 0, udp_pkt_miss |-> 0,
                  last |-> stats.last, since |-> stats.last]
    BY <1>1, <2>1 DEF StatsOK
  <2> QED BY <2>1, <2>2, <2>3 DEF StatsOK
<1>3. StationOK'
  BY <1>1, <1>2 DEF ProtocolInv, StationOK
<1>4. DownOK' /\ Intact(delivered')
  BY <1>1 DEF ProtocolInv, DownOK, Intact
<1> QED BY <1>1, <1>3, <1>4, PhoneSame, UpSame DEF ProtocolInv

LEMMA DownSame ==
  ASSUME DownOK, UNCHANGED down
  PROVE  DownOK'
BY DEF DownOK

LEMMA DownTaken1 ==
  ASSUME DownOK, down # << >>, down' = Tail(down)
  PROVE  DownOK'
<1>1. Headed(down) /\ Len(down) \in Nat
  BY DEF DownOK, Headed, Sequence
<1>2. Headed(down') /\ Len(down') = Len(down) - 1
  BY <1>1, TailHeaded
<1> QED BY <1>1, <1>2, EndToEndAssumption DEF DownOK

LEMMA EmptySending == SendingOK(Empty)
<1>1. \A c \in Channel : << >> \in Seq(Fragment(test_IP, c))
  BY EmptySeq
<1> QED BY <1>1 DEF SendingOK, Empty

\* A new connection.
LEMMA RequestKeeps ==
  ASSUME ProtocolInv, NEW c \in 0 .. ConnMod - 1, Request(c), trouble' = trouble \/ Hit
  PROVE  ProtocolInv'
<1>1. /\ conn' = c /\ phase' = "request" /\ vt' = 0 /\ vr' = 0 /\ unacked' = << >>
      /\ delivered' = {} /\ UNCHANGED <<stationVars, stream, up, down>>
  BY DEF Request
<1>2. SendingOK(sending')
  <2> DEFINE unit == [kind |-> "msg", type |-> "request", id |-> c, k |-> 1]
  <2>1. unit \in Plain
    BY DEF Plain, Types
  <2>2. sending' = [Empty EXCEPT ![0] = << << unit >> >>]
    BY DEF Request
  <2> HIDE DEF unit
  <2>3. << unit >> \in Seq(Plain) /\ << unit >> # << >>
    BY <2>1
  <2> DEFINE f == << unit >>
  <2>4. f \in Fragment(test_IP, 0)
    BY <2>3 DEF Fragment
  <2> HIDE DEF f
  <2>5. << f >> \in Seq(Fragment(test_IP, 0)) /\ 0 \in Channel
    BY <2>4 DEF Channel
  <2> DEFINE parts == << f >>
  <2> HIDE DEF parts
  <2>6. SendingOK([Empty EXCEPT ![0] = parts])
    BY <2>5, EmptySending, SendingExcept DEF parts
  <2> QED BY <2>2, <2>6 DEF parts, f
<1>3. PhoneOK'
  <2>1. 0 \in 0 .. SnMod - 1
    BY RlcAssumption
  <2>2. stream \in 0 .. WordMod - 1
    BY DEF ProtocolInv, PhoneOK
  <2> QED BY <1>1, <1>2, <2>1, <2>2, PhoneNext DEF ProtocolInv, Phases, stationVars
<1>4. UpOK' /\ DownOK'
  BY <1>1, UpSame, DownSame DEF ProtocolInv, stationVars
<1> QED BY <1>1, <1>3, <1>4, StationSame DEF ProtocolInv

LEMMA NextConn ==
  ASSUME ProtocolInv
  PROVE  (conn + 1) % ConnMod \in 0 .. ConnMod - 1
<1>1. conn + 1 \in Int
  BY DEF ProtocolInv, PhoneOK
<1> QED BY <1>1, RemainderRange, EndToEndAssumption

LEMMA ConnectKeeps ==
  ASSUME ProtocolInv, Connect
  PROVE  ProtocolInv'
BY NextConn, RequestKeeps DEF Connect

LEMMA TimeoutKeeps ==
  ASSUME ProtocolInv, Timeout
  PROVE  ProtocolInv'
BY NextConn, RequestKeeps DEF Timeout

LEMMA RetransmitKeeps ==
  ASSUME ProtocolInv, Retransmit
  PROVE  ProtocolInv'
<1>1. /\ unacked # << >> /\ sending' = [sending EXCEPT ![1] = << unacked >>] /\ delivered' = {}
      /\ UNCHANGED <<stationVars, phase, conn, vt, vr, unacked, stream, up, down, trouble>>
  BY DEF Retransmit
<1>2. SendingOK(sending')
  <2>1. unacked \in Fragment(test_IP, 1)
    BY <1>1 DEF ProtocolInv, PhoneOK
  <2> DEFINE parts == << unacked >>
  <2>2. parts \in Seq(Fragment(test_IP, 1)) /\ 1 \in Channel
    BY <2>1 DEF Channel
  <2>3. SendingOK(sending)
    BY DEF ProtocolInv, PhoneOK, SendingOK
  <2>4. sending' = [sending EXCEPT ![1] = parts]
    BY <1>1
  <2> HIDE DEF parts
  <2>5. SendingOK([sending EXCEPT ![1] = parts])
    BY <2>2, <2>3, SendingExcept
  <2> QED BY <2>4, <2>5
<1>3. PhoneOK'
  BY <1>1, <1>2, PhoneNext DEF ProtocolInv, PhoneOK, stationVars
<1>4. UpOK' /\ DownOK'
  BY <1>1, UpSame, DownSame DEF ProtocolInv, stationVars
<1> QED BY <1>1, <1>3, <1>4, StationSame DEF ProtocolInv

\* IP packets are queued as one or two fragments.
LEMMA PacketQueued ==
  ASSUME ProtocolInv, NEW msg \in Seq(Plain), Len(msg) > 1, NEW cut \in Cuts(msg),
         test_IP => cut = Len(msg) /\ msg \in TestMessages,
         sending' = [sending EXCEPT ![3] = Fragments(3, msg, cut, 0)]
  PROVE  SendingOK(sending')
<1> DEFINE parts == Fragments(3, msg, cut, 0)
<1>1. parts \in Seq(Fragment(test_IP, 3)) /\ 3 \in Channel
  BY FragmentsMade DEF Channel
<1>2. SendingOK(sending)
  BY DEF ProtocolInv, PhoneOK, SendingOK
<1>3. sending' = [sending EXCEPT ![3] = parts]
  OBVIOUS
<1> HIDE DEF parts
<1>4. SendingOK([sending EXCEPT ![3] = parts])
  BY <1>1, <1>2, SendingExcept
<1> QED BY <1>3, <1>4

LEMMA SendPacketKeeps ==
  ASSUME ProtocolInv, SendPacket
  PROVE  ProtocolInv'
<1>1. /\ ~ test_IP /\ delivered' = {}
      /\ UNCHANGED <<stationVars, phase, conn, vt, vr, unacked, stream, up, down, trouble>>
  BY DEF SendPacket
<1>2. PICK n \in Lengths, header \in {PdcpData, PdcpControl} :
        LET msg == << header >> \o [k \in 1 .. n |-> [kind |-> "ip", k |-> k]]
        IN  \E cut \in Cuts(msg) :
              sending' = [sending EXCEPT ![3] = Fragments(3, msg, cut, 0)]
  BY DEF SendPacket
<1> DEFINE unit(k) == [kind |-> "ip", k |-> k]
           packet == [k \in 1 .. n |-> unit(k)]
           msg == << header >> \o packet
<1>3. msg \in Seq(Plain) /\ Len(msg) > 1
  <2>1. n \in Nat \ {0}
    BY EndToEndAssumption
  <2>2. header \in Plain /\ \A k \in 1 .. n : unit(k) \in Plain
    BY DEF Plain
  <2> HIDE DEF unit
  <2>3. packet \in Seq(Plain) /\ Len(packet) = n
    BY <2>1, <2>2
  <2>4. << header >> \in Seq(Plain) /\ Len(<< header >>) = 1
    BY <2>2
  <2> DEFINE a == << header >>
  <2> HIDE DEF packet, a
  <2>5. a \o packet \in Seq(Plain) /\ Len(a \o packet) = 1 + n
    BY <2>3, <2>4, ConcatProperties DEF a
  <2> QED BY <2>1, <2>5 DEF a
<1>4. PICK cut \in Cuts(msg) : sending' = [sending EXCEPT ![3] = Fragments(3, msg, cut, 0)]
  BY <1>2
<1> HIDE DEF msg
<1>5. SendingOK(sending')
  BY <1>1, <1>3, <1>4, PacketQueued
<1>6. PhoneOK'
  BY <1>1, <1>5, PhoneNext DEF ProtocolInv, PhoneOK, stationVars
<1>7. UpOK' /\ DownOK'
  BY <1>1, UpSame, DownSame DEF ProtocolInv, stationVars
<1> QED BY <1>1, <1>6, <1>7, StationSame DEF ProtocolInv

\* A packet for --test-IP is queued.
LEMMA TestQueued ==
  ASSUME ProtocolInv, NEW p \in Packets, SendTest(p)
  PROVE  SendingOK(sending')
<1> DEFINE msg == << PdcpData, Carrier(p) >>
<1>1. sending' = [sending EXCEPT ![3] = Fragments(3, msg, Len(msg), 0)]
  BY DEF SendTest, Carrier
<1>2. msg \in Seq(Plain) /\ Len(msg) = 2 /\ msg \in TestMessages
  BY DEF Plain, TestMessages
<1> HIDE DEF msg
<1> DEFINE cut == Len(msg)
<1>3. cut \in Cuts(msg) /\ cut = Len(msg) /\ Len(msg) > 1
  BY <1>2 DEF Cuts
<1> HIDE DEF cut
<1>4. sending' = [sending EXCEPT ![3] = Fragments(3, msg, cut, 0)]
  BY <1>1, <1>3
<1> QED BY <1>2, <1>3, <1>4, PacketQueued

LEMMA SendTestKeeps ==
  ASSUME ProtocolInv, NEW p \in Packets, SendTest(p),
         stream' \in 0 .. WordMod - 1, trouble' = trouble \/ Hit
  PROVE  ProtocolInv'
<1>1. /\ delivered' = {}
      /\ UNCHANGED <<stationVars, phase, conn, vt, vr, unacked, up, down>>
  BY DEF SendTest
<1>2. SendingOK(sending')
  BY TestQueued
<1>3. PhoneOK'
  BY <1>1, <1>2, PhoneNext DEF ProtocolInv, PhoneOK, stationVars
<1>4. UpOK' /\ DownOK'
  BY <1>1, UpSame, DownSame DEF ProtocolInv, stationVars
<1> QED BY <1>1, <1>3, <1>4, StationSame DEF ProtocolInv

LEMMA SendStreamKeeps ==
  ASSUME ProtocolInv, SendStream
  PROVE  ProtocolInv'
<1>1. PICK same \in BOOLEAN :
        /\ SendTest(StreamPacket(stream, same))
        /\ IF same THEN UNCHANGED trouble ELSE Hit
  BY DEF SendStream, StreamPacket
<1>2. stream \in 0 .. WordMod - 1
  BY DEF ProtocolInv, PhoneOK
<1>3. StreamPacket(stream, same) \in Packets
  BY <1>2 DEF Packets
<1>4. stream' \in 0 .. WordMod - 1
  <2>1. stream + 1 \in Int /\ stream' = (stream + 1) % WordMod
    BY <1>2 DEF SendStream
  <2> QED BY <2>1, RemainderRange, IpTestAssumption
<1>5. trouble' = trouble \/ Hit
  BY <1>1
<1> QED BY <1>1, <1>3, <1>4, <1>5, SendTestKeeps

LEMMA SendOtherKeeps ==
  ASSUME ProtocolInv, SendOther
  PROVE  ProtocolInv'
<1>1. PICK p \in TestPackets : SendTest(p)
  BY DEF SendOther
<1>2. p \in Packets
  BY DEF Packets
<1>3. stream' \in 0 .. WordMod - 1 /\ trouble' = trouble
  BY DEF SendOther, ProtocolInv, PhoneOK
<1> QED BY <1>1, <1>2, <1>3, SendTestKeeps

LEMMA DetachKeeps ==
  ASSUME ProtocolInv, Detach
  PROVE  ProtocolInv'
<1>1. /\ Enqueue("detachRequest", "detachRequest") /\ delivered' = {}
      /\ UNCHANGED <<stationVars, conn, vr, unacked, stream, up, down, trouble>>
  BY DEF Detach
<1>2. SendingOK(sending') /\ vt' \in 0 .. SnMod - 1 /\ phase' \in Phases
  BY <1>1, EnqueueKeeps DEF ProtocolInv, Types, Phases
<1>3. PhoneOK'
  BY <1>1, <1>2, PhoneNext DEF ProtocolInv, PhoneOK, stationVars
<1>4. UpOK' /\ DownOK'
  BY <1>1, UpSame, DownSame DEF ProtocolInv, stationVars
<1> QED BY <1>1, <1>3, <1>4, StationSame DEF ProtocolInv

LEMMA LossKeeps ==
  ASSUME ProtocolInv, LoseUp \/ LoseDown
  PROVE  ProtocolInv'
<1>1. CASE LoseUp
  <2>1. /\ up # << >> /\ Hit /\ up' = Tail(up) /\ delivered' = {}
        /\ UNCHANGED <<stationVars, phoneVars, down>>
    BY <1>1 DEF LoseUp
  <2>2. PhoneOK' /\ UpOK' /\ DownOK'
    BY <2>1, PhoneSame, UpTaken1, DownSame DEF ProtocolInv, stationVars
  <2> QED BY <2>1, <2>2, StationSame DEF ProtocolInv
<1>2. CASE LoseDown
  <2>1. /\ down # << >> /\ Hit /\ down' = Tail(down) /\ delivered' = {}
        /\ UNCHANGED <<stationVars, phoneVars, up>>
    BY <1>2 DEF LoseDown
  <2>2. PhoneOK' /\ UpOK' /\ DownOK'
    BY <2>1, PhoneSame, UpSame, DownTaken1 DEF ProtocolInv, stationVars
  <2> QED BY <2>1, <2>2, StationSame DEF ProtocolInv
<1> QED BY <1>1, <1>2

\* A selection of something is not empty.
LEMMA SelectedNotEmpty ==
  ASSUME NEW S, NEW s \in Seq(S), NEW K, NEW j \in 1 .. Len(s), j \in K
  PROVE  Selected(s, K) # << >>
<1>1. PICK kept : /\ Selected(s, K) = kept[Len(s)]
                  /\ kept[0] = << >>
                  /\ \A k \in 1 .. Len(s) :
                       kept[k] = IF k \in K THEN Append(kept[k - 1], s[k]) ELSE kept[k - 1]
  BY SelectedUnfolds
<1>2. Len(s) \in Nat
  OBVIOUS
<1> DEFINE P == {m \in 0 .. Len(s) : kept[m] \in Seq(S) /\ (m >= j => kept[m] # << >>)}
<1>3. 0 \in P
  <2>1. kept[0] \in Seq(S)
    BY <1>1, EmptySeq
  <2>2. 0 \in 0 .. Len(s) /\ ~ (0 >= j)
    BY <1>2
  <2> QED BY <2>1, <2>2
<1>4. ASSUME NEW k \in 1 .. Len(s), k - 1 \in P PROVE k \in P
  <2>1. kept[k - 1] \in Seq(S) /\ (k - 1 >= j => kept[k - 1] # << >>) /\ s[k] \in S
        /\ k \in 0 .. Len(s)
    BY <1>2, <1>4, ElementOfSeq
  <2>2. kept[k] = IF k \in K THEN Append(kept[k - 1], s[k]) ELSE kept[k - 1]
    BY <1>1
  <2>3. CASE k \in K
    <3>1. kept[k] = Append(kept[k - 1], s[k])
      BY <2>2, <2>3
    <3>2. kept[k] \in Seq(S) /\ kept[k] # << >>
      BY <2>1, <3>1, AppendProperties
    <3> QED BY <2>1, <3>2
  <2>4. CASE k \notin K
    <3>1. kept[k] = kept[k - 1] /\ k # j
      BY <2>2, <2>4
    <3>2. k >= j => k - 1 >= j
      BY <1>2, <3>1
    <3> QED BY <2>1, <3>1, <3>2
  <2> QED BY <2>3, <2>4
<1>5. 0 .. Len(s) \subseteq P
  <2> HIDE DEF P
  <2> QED BY <1>2, <1>3, <1>4, IntervalInduction
<1> QED BY <1>1, <1>2, <1>5

\* A block of the phone: a fragment of each of some channels.
SentOn(C) == Selected(<<0, 1, 2, 3>>, {c + 1 : c \in C})

SentSdus(C, status) ==
  (IF status THEN <<[lcid |-> 1, bytes |-> StatusReport(vr)]>> ELSE <<>>)
    \o [k \in 1 .. Len(SentOn(C)) |->
          [lcid |-> SentOn(C)[k], bytes |-> Head(sending[SentOn(C)[k]])]]

LEMMA SentOnChannels ==
  ASSUME NEW C \in SUBSET Channel, C # {}
  PROVE  SentOn(C) \in Seq(C) /\ SentOn(C) # << >>
<1> DEFINE s == <<0, 1, 2, 3>>
           K == {c + 1 : c \in C}
           T == {s[k] : k \in K \cap (1 .. 4)}
<1>1. s \in Seq(Channel) /\ Len(s) = 4 /\ \A k \in 1 .. 4 : s[k] = k - 1
  BY DEF Channel
<1>2. T \subseteq C
  <2> SUFFICES ASSUME NEW k \in K \cap (1 .. 4) PROVE s[k] \in C
    OBVIOUS
  <2>1. PICK c \in C : k = c + 1
    OBVIOUS
  <2>2. k - 1 = c
    BY <2>1 DEF Channel
  <2> HIDE DEF s
  <2> QED BY <1>1, <2>2
<1>3. PICK c \in C : TRUE
  OBVIOUS
<1>4. c + 1 \in K /\ c + 1 \in 1 .. 4
  BY <1>3 DEF Channel
<1> HIDE DEF s, K
<1>5. Selected(s, K) \in Seq(T)
  BY <1>1, SelectedIsSeq
<1>6. Selected(s, K) # << >>
  BY <1>1, <1>4, SelectedNotEmpty
<1>7. Selected(s, K) \in Seq(C)
  <2> HIDE DEF T
  <2> QED BY <1>2, <1>5, SeqMonotonic
<1> QED BY <1>6, <1>7 DEF SentOn, s, K

LEMMA FragmentIsUnits ==
  ASSUME NEW test, NEW c
  PROVE  Fragment(test, c) \subseteq Seq(Unit)
<1>1. Seq(Plain) \subseteq Seq(Unit)
  <2>1. Plain \subseteq Unit
    BY DEF Unit
  <2> QED BY <2>1, SeqMonotonic
<1> QED BY <1>1 DEF Fragment

LEMMA SentSdusOK ==
  ASSUME PhoneOK, NEW C \in SUBSET Busy, C # {}, NEW status \in BOOLEAN
  PROVE  SentSdus(C, status) \in Seq(PhoneSdu(test_IP)) \ {<< >>}
<1> DEFINE channels == SentOn(C)
           n == Len(channels)
           sub(k) == [lcid |-> channels[k], bytes |-> Head(sending[channels[k]])]
           fragments == [k \in 1 .. n |-> sub(k)]
           report == [lcid |-> 1, bytes |-> StatusReport(vr)]
           T == PhoneSdu(test_IP)
<1>1. channels \in Seq(C) /\ channels # << >> /\ n \in Nat \ {0}
  <2>1. C \in SUBSET Channel
    BY DEF Busy
  <2>2. channels \in Seq(C) /\ channels # << >>
    BY <2>1, SentOnChannels
  <2> HIDE DEF channels
  <2> QED BY <2>2
<1>2. ASSUME NEW k \in 1 .. n PROVE sub(k) \in T
  <2>1. channels[k] \in C
    <3> HIDE DEF channels
    <3> QED BY <1>1, ElementOfSeq
  <2> DEFINE c == channels[k]
  <2> HIDE DEF channels
  <2>2. c \in Channel /\ sending[c] # << >>
    BY <2>1 DEF Busy
  <2>3. sending[c] \in Seq(Fragment(test_IP, c))
    BY <2>2 DEF PhoneOK
  <2>4. Head(sending[c]) \in Fragment(test_IP, c)
    BY <2>2, <2>3
  <2>5. Head(sending[c]) \in Seq(Unit)
    BY <2>4, FragmentIsUnits
  <2> HIDE DEF c
  <2> DEFINE x == [lcid |-> c, bytes |-> Head(sending[c])]
  <2>6. x \in [lcid : Channel, bytes : Seq(Unit)] /\ x.bytes = Head(sending[c]) /\ x.lcid = c
    BY <2>2, <2>5
  <2> HIDE DEF x
  <2>7. x \in PhoneSdu(test_IP)
    BY <2>4, <2>6 DEF PhoneSdu
  <2> QED BY <2>7 DEF x, c
<1>3. report \in T
  <2>1. vr \in Nat /\ vr \in 0 .. SnMod - 1
    BY DEF PhoneOK
  <2>2. (vr + 1) % SnMod \in 0 .. SnMod - 1
    BY <2>1, RemainderRange, RlcAssumption
  <2>3. StatusReport(vr) \in Seq(Unit)
    <3> DEFINE u == [kind |-> "rlc", dc |-> "status", p |-> FALSE, e |-> 0,
                     first |-> TRUE, last |-> TRUE, sn |-> (vr + 1) % SnMod]
    <3>1. u \in StatusHeader
      BY <2>2 DEF StatusHeader
    <3>2. u \in Unit
      BY <3>1 DEF Unit
    <3>3. StatusReport(vr) = << u >>
      BY DEF StatusReport
    <3> HIDE DEF u
    <3> QED BY <3>2, <3>3
  <2>4. report \in [lcid : Channel, bytes : Seq(Unit)]
    BY <2>3 DEF Channel
  <2>5. report.lcid = 1 /\ report.bytes = StatusReport(vr)
    OBVIOUS
  <2> HIDE DEF report
  <2> QED BY <2>1, <2>4, <2>5 DEF PhoneSdu
<1> HIDE DEF sub, channels, report
<1>4. fragments \in Seq(T) /\ Len(fragments) = n
  <2> HIDE DEF T
  <2> QED BY <1>1, <1>2
<1> DEFINE front == IF status THEN << report >> ELSE << >>
<1>5. front \in Seq(T) /\ Len(front) \in Nat
  <2> HIDE DEF T
  <2> QED BY <1>3
<1>6. SentSdus(C, status) = front \o fragments
  BY DEF SentSdus, report, sub, channels
<1> HIDE DEF front, fragments, T
<1>7. front \o fragments \in Seq(T) /\ Len(front \o fragments) = Len(front) + n
  BY <1>4, <1>5, ConcatProperties
<1>8. front \o fragments # << >>
  BY <1>1, <1>5, <1>7
<1> QED BY <1>6, <1>7, <1>8 DEF T

LEMMA SendKeeps ==
  ASSUME ProtocolInv, Send
  PROVE  ProtocolInv'
<1>1. /\ Len(up) < MaxUp /\ delivered' = {}
      /\ UNCHANGED <<stationVars, phase, conn, vt, vr, stream, down, trouble>>
  BY DEF Send
<1>2. PICK C \in (SUBSET Busy) \ {{}}, status \in BOOLEAN :
        /\ status => 1 \in C
        /\ up' = Append(up, [pdu |-> PhonePdu(status, SentSdus(C, status)),
                             sdus |-> SentSdus(C, status)])
        /\ sending' = Without(C)
        /\ unacked' = IF 1 \in C /\ Head(Head(sending[1])).p THEN Head(sending[1]) ELSE unacked
  BY DEF Send, SentSdus, SentOn
<1> DEFINE s == SentSdus(C, status)
           block == [pdu |-> PhonePdu(status, s), sdus |-> s]
<1>3. s \in Seq(PhoneSdu(test_IP)) \ {<< >>}
  <2>1. PhoneOK /\ C \in SUBSET Busy /\ C # {}
    BY <1>2 DEF ProtocolInv
  <2> QED BY <2>1, SentSdusOK
<1> HIDE DEF s
<1>4. block \in Block(test_IP)
  BY <1>3 DEF Block
<1>5. up' = Append(up, block)
  BY <1>2 DEF s
<1> HIDE DEF block
<1>6. UpOK'
  <2>1. up \in Seq(Block(test_IP)) /\ Len(up) \in Nat
    BY DEF ProtocolInv, UpOK
  <2>2. up' \in Seq(Block(test_IP)) /\ Len(up') = Len(up) + 1
    BY <1>4, <1>5, <2>1, AppendProperties
  <2>3. Len(up') <= MaxUp
    BY <1>1, <2>1, <2>2, EndToEndAssumption
  <2> QED BY <1>1, <2>2, <2>3 DEF ProtocolInv, UpOK, stationVars
<1>7. SendingOK(sending')
  <2>1. sending' = [c \in Channel |-> IF c \in C THEN Tail(sending[c]) ELSE sending[c]]
    BY <1>2 DEF Without
  <2>2. ASSUME NEW c \in Channel PROVE sending'[c] \in Seq(Fragment(test_IP, c))
    <3>1. sending[c] \in Seq(Fragment(test_IP, c))
      BY DEF ProtocolInv, PhoneOK
    <3>2. c \in C => sending[c] # << >>
      BY <1>2 DEF Busy
    <3>3. c \in C => Tail(sending[c]) \in Seq(Fragment(test_IP, c))
      BY <3>1, <3>2
    <3> QED BY <2>1, <3>1, <3>3
  <2>3. sending' = [c \in Channel |-> sending'[c]]
    BY <2>1
  <2> QED BY <2>2, <2>3 DEF SendingOK
<1>8. unacked' = << >> \/ unacked' \in Fragment(test_IP, 1)
  <2>1. 1 \in C => Head(sending[1]) \in Fragment(test_IP, 1)
    <3>1. 1 \in C => sending[1] # << >>
      BY <1>2 DEF Busy
    <3>2. sending[1] \in Seq(Fragment(test_IP, 1))
      BY DEF ProtocolInv, PhoneOK, Channel
    <3> QED BY <3>1, <3>2
  <2> QED BY <1>2, <2>1 DEF ProtocolInv, PhoneOK
<1>9. PhoneOK'
  BY <1>1, <1>7, <1>8, PhoneNext DEF ProtocolInv, PhoneOK, stationVars
<1>10. DownOK'
  BY <1>1, DownSame DEF ProtocolInv
<1> QED BY <1>1, <1>6, <1>9, <1>10, StationSame DEF ProtocolInv

\* What arrives at the phone is counted.
LEMMA DataOnCounted ==
  ASSUME NEW pdu, Len(pdu.head) \in Nat \ {0}, NEW c
  PROVE  Cardinality(DataOn(c, PhoneSdus(pdu))) \in Nat
<1> DEFINE start == Starts(pdu.head)
           n == Len(pdu.head) - 1
           end(k) == start[k] + pdu.head[k].length
           sdu(k) == [lcid |-> pdu.head[k].lcid,
                      bytes |-> IF end(k) <= Len(pdu.body)
                                THEN SubSeq(pdu.body, start[k] + 1, end(k)) ELSE <<>>]
           all == [k \in 1 .. n |-> sdu(k)]
           K == {k \in 1 .. n : sdu(k).bytes # <<>>}
           T == {sdu(k) : k \in 1 .. n}
<1>1. PhoneSdus(pdu) = Selected(all, K)
  BY DEF PhoneSdus
<1>2. \A k \in 1 .. n : sdu(k) \in T
  OBVIOUS
<1> HIDE DEF sdu, T
<1>2a. n \in Nat
  OBVIOUS
<1>3. all \in Seq(T)
  <2> HIDE DEF n
  <2> QED BY <1>2, <1>2a
<1> HIDE DEF all, K
<1> DEFINE R == {all[k] : k \in K \cap (1 .. Len(all))}
           sdus == Selected(all, K)
<1>4. sdus \in Seq(R)
  BY <1>3, SelectedIsSeq
<1> HIDE DEF R, sdus
<1>5. Len(sdus) \in Nat
  BY <1>4
<1>6. DataOn(c, sdus) \subseteq 1 .. Len(sdus)
  BY DEF DataOn
<1>7. IsFiniteSet(1 .. Len(sdus))
  BY <1>5, FS_Interval
<1>8. IsFiniteSet(DataOn(c, sdus))
  BY <1>6, <1>7, FS_Subset
<1>9. Cardinality(DataOn(c, sdus)) \in Nat
  BY <1>8, FS_CardinalityType
<1> QED BY <1>1, <1>9 DEF sdus

LEMMA ReceiveKeeps ==
  ASSUME ProtocolInv, Receive
  PROVE  ProtocolInv'
<1> DEFINE sdus == PhoneSdus(Head(down))
           echoed == \E k \in 1 .. Len(sdus) :
                       sdus[k].lcid = 28 /\ Head(sdus[k].bytes).id = conn
           commands == Commands(sdus)
           type == pdcp_decode(1, Tail(commands[1].bytes))[1].type
           established == phase \notin {"off", "request"}
           acked == Acknowledges(sdus)
<1>1. /\ down # << >> /\ down' = Tail(down) /\ delivered' = {}
      /\ UNCHANGED <<stationVars, conn, stream, up, trouble>>
  BY DEF Receive
<1>2. /\ phase \in Phases /\ vt \in 0 .. SnMod - 1 /\ vr \in 0 .. SnMod - 1
      /\ SendingOK(sending) /\ (unacked = << >> \/ unacked \in Fragment(test_IP, 1))
      /\ conn \in 0 .. ConnMod - 1 /\ stream \in 0 .. WordMod - 1
  BY DEF ProtocolInv, PhoneOK, SendingOK
<1>3. PhoneOK
  BY DEF ProtocolInv
<1>4. CASE phase = "request" /\ echoed
  <2>1. vr' = 0 /\ Enqueue("setupComplete", "setupComplete") /\ unacked' = <<>>
    BY <1>4 DEF Receive
  <2>2. SendingOK(sending') /\ vt' \in 0 .. SnMod - 1 /\ phase' \in Phases
    BY <1>3, <2>1, EnqueueKeeps DEF Types, Phases, NextCommand
  <2>3. PhoneOK'
    BY <1>1, <1>2, <1>3, <2>1, <2>2, PhoneNext, RlcAssumption DEF stationVars
  <2> QED BY <2>3, <1>1, UpSame, DownTaken1, StationSame DEF ProtocolInv, stationVars
<1>5. CASE phase # "request" /\ established /\ commands # << >>
  <2>1. /\ vr' = (vr + Cardinality(DataOn(1, sdus))) % SnMod
        /\ unacked' = IF acked THEN <<>> ELSE unacked
        /\ IF phase \in DOMAIN NextCommand /\ type = NextCommand[phase]
           THEN IF Response[type] = "completing" THEN EnqueueCompletes
                ELSE Enqueue(Response[type], Response[type])
           ELSE /\ phase' = IF phase = "detachRequest" THEN "off" ELSE phase
                /\ UNCHANGED <<vt, sending>>
    BY <1>5 DEF Receive
  <2>2. vr' \in 0 .. SnMod - 1
    <3>1. Len(Head(down).head) \in Nat \ {0}
      BY <1>1, TailHeaded DEF ProtocolInv, DownOK
    <3>2. Cardinality(DataOn(1, sdus)) \in Nat
      BY <3>1, DataOnCounted
    <3> HIDE DEF sdus
    <3>3. vr + Cardinality(DataOn(1, sdus)) \in Int
      BY <1>2, <3>2
    <3> QED BY <2>1, <3>3, RemainderRange, RlcAssumption
  <2> HIDE DEF sdus, type, acked, commands
  <2>3. SendingOK(sending') /\ vt' \in 0 .. SnMod - 1 /\ phase' \in Phases
    <3>1. CASE phase \in DOMAIN NextCommand /\ type = NextCommand[phase]
      <4>1. type \in {"identityRequest", "authenticationRequest", "nasSecurityCommand",
                      "rrcSecurityCommand", "reconfiguration"}
        BY <3>1 DEF NextCommand
      <4>2. CASE type = "reconfiguration"
        <5>1. Response[type] = "completing"
          BY <4>2 DEF Response
        <5> QED BY <1>3, <2>1, <3>1, <5>1, EnqueueCompletesKeeps
      <4>3. CASE type # "reconfiguration"
        <5>1. Response[type] \in {"identityResponse", "authenticationResponse",
                                  "nasSecurityComplete", "rrcSecurityComplete"}
          BY <4>1, <4>3 DEF Response
        <5>2. Response[type] \in Types /\ Response[type] \in Phases /\ Response[type] # "completing"
          BY <5>1 DEF Types, Phases, NextCommand
        <5> QED BY <1>3, <2>1, <3>1, <5>2, EnqueueKeeps
      <4> QED BY <4>2, <4>3
    <3>2. CASE ~ (phase \in DOMAIN NextCommand /\ type = NextCommand[phase])
      BY <1>2, <2>1, <3>2 DEF Phases
    <3> QED BY <3>1, <3>2
  <2>4. unacked' = << >> \/ unacked' \in Fragment(test_IP, 1)
    BY <1>2, <2>1
  <2>5. PhoneOK'
    BY <1>1, <1>2, <1>3, <2>2, <2>3, <2>4, PhoneNext DEF stationVars
  <2> QED BY <2>5, <1>1, UpSame, DownTaken1, StationSame DEF ProtocolInv, stationVars
<1>6. CASE phase # "request" /\ established /\ commands = << >> /\ acked
  <2>1. /\ unacked' = <<>>
        /\ phase' = IF phase = "completing" /\ sending[1] = <<>> THEN "attached" ELSE phase
        /\ UNCHANGED <<vt, vr, sending>>
    BY <1>6 DEF Receive
  <2>2. phase' \in Phases
    BY <1>2, <2>1 DEF Phases
  <2>3. PhoneOK'
    BY <1>1, <1>2, <1>3, <2>1, <2>2, PhoneNext DEF stationVars
  <2> QED BY <2>3, <1>1, UpSame, DownTaken1, StationSame DEF ProtocolInv, stationVars
<1>7. CASE ~ \/ phase = "request" /\ echoed
             \/ established /\ commands # << >>
             \/ established /\ commands = << >> /\ acked
  <2>1. UNCHANGED <<vt, vr, unacked, phase, sending>>
    BY <1>7 DEF Receive
  <2>2. PhoneOK'
    BY <1>1, <1>2, <1>3, <2>1, PhoneNext DEF stationVars
  <2> QED BY <2>2, <1>1, UpSame, DownTaken1, StationSame DEF ProtocolInv, stationVars
<1>8. established => phase # "request"
  OBVIOUS
<1> HIDE DEF echoed, acked, commands, established
<1> QED BY <1>4, <1>5, <1>6, <1>7, <1>8

LEMMA Preserved ==
  ASSUME ProtocolInv, [Next]_vars
  PROVE  ProtocolInv'
<1>1. CASE UNCHANGED vars
  <2>1. UNCHANGED <<stationVars, delivered, phoneVars, up, down, trouble>>
    BY <1>1 DEF vars
  <2>2. StationOK' /\ Intact(delivered')
    BY <2>1 DEF ProtocolInv, StationOK, stationVars
  <2> QED BY <2>1, <2>2, PhoneSame, UpSame, DownSame DEF ProtocolInv, stationVars
<1> QED BY <1>1, ServeKeeps, ScheduleKeeps, ClearKeeps, ConnectKeeps, TimeoutKeeps,
           RetransmitKeeps, SendKeeps, ReceiveKeeps, SendPacketKeeps, SendStreamKeeps,
           SendOtherKeeps, DetachKeeps, LossKeeps DEF Next

LEMMA InvariantHolds == Spec => []ProtocolInv
BY Initially, Preserved, PTL DEF Spec

----------------------------------------------------------------------------
(***************************************************************************)
(* What the base station counts of the stream of test packets.  n packets  *)
(* were sent and packet l - 1 or, at the start, none is the one counted    *)
(* last.  Packets between them were spoilt or lost, and each was a         *)
(* trouble, or it is the last one and still awaited: on its way, whole.    *)
(***************************************************************************)
\* f is a fragment that carries the test packet p.
Carries(f, p) == \E h \in Header : f = << h >> \o << PdcpData, Carrier(p) >>

BlockCarries(block, p) ==
  \E k \in 1 .. Len(block.sdus) :
    block.sdus[k].lcid = 3 /\ Carries(block.sdus[k].bytes, p)

WillCount(p) == Counted(p) /\ Good(p)

OnItsWay(s, u, p) ==
  \/ \E i \in 1 .. Len(s) : Carries(s[i], p)
  \/ \E i \in 1 .. Len(u) : BlockCarries(u[i], p)

Awaited == {p \in Packets : test_IP /\ WillCount(p) /\ OnItsWay(sending[3], up, p)}

\* Packet l of the stream is the one counted last (at first, packet 0).
CountOK(st, l) ==
  /\ st.last = l % WordMod /\ st.old_index = l % IndexRange
  /\ (st.udp_pkt_miss + st.udp_pkt_rcvd + st.since - st.last) % WordMod = 0

\* With n packets sent.
GapOK(n, l, W, t) ==
  /\ (n = 0 /\ l = 0) \/ l < n
  /\ n - l <= t + 1 \/ (n - l <= t + 2 /\ W # {})
  /\ \A p \in W : n >= 1 /\ p.serial = (n - 1) % WordMod

Reckoned(n, l) ==
  /\ stream = n % WordMod
  /\ CountOK(stats, l)
  /\ GapOK(n, l, Awaited, trouble)

\* A phone that is tested stays attached once it has a test packet.
TestAttached == test_IP /\ sending[3] # << >> => phase = "attached"

CountInv ==
  /\ TestAttached
  /\ trouble + 1 < IndexRange => \E n \in Nat, l \in Nat : Reckoned(n, l)

\* A fragment carries one packet.
LEMMA CarriesOne ==
  ASSUME NEW f, NEW p, NEW q, Carries(f, p), Carries(f, q)
  PROVE  p = q
<1> DEFINE a == << PdcpData, Carrier(p) >>
           b == << PdcpData, Carrier(q) >>
           S == {PdcpData, Carrier(p), Carrier(q)}
<1>1. a \in Seq(S) /\ b \in Seq(S) /\ a[2] = Carrier(p) /\ b[2] = Carrier(q)
  OBVIOUS
<1>2. PICK h \in Header : f = << h >> \o a
  BY DEF Carries
<1>3. PICK g \in Header : f = << g >> \o b
  BY DEF Carries
<1> HIDE DEF a, b, S
<1>4. Tail(f) = a /\ Tail(f) = b
  BY <1>1, <1>2, <1>3, FirstAndRest
<1>5. Carrier(p) = Carrier(q)
  BY <1>1, <1>4
<1>6. Carrier(p).packet = p /\ Carrier(q).packet = q
  BY DEF Carrier
<1> QED BY <1>5, <1>6

\* The distance of two numbers, from their remainders.
LEMMA GapFromResidues ==
  ASSUME NEW R \in Nat \ {0}, NEW l \in Nat, NEW m \in Nat, l <= m, m - l < R
  PROVE  (R + (m % R) - (l % R)) % R = m - l
<1>1. PICK q \in Int, r \in 0 .. R - 1 : m = R * q + r /\ m % R = r
  BY IntDivisionEquation
<1>2. PICK s \in Int, t \in 0 .. R - 1 : l = R * s + t /\ l % R = t
  <2>1. l \in Int
    OBVIOUS
  <2> QED BY <2>1, IntDivisionEquation
<1>3. m - l = (R + r - t) + R * (q - s - 1) /\ q - s - 1 \in Int /\ R + r - t \in Int
  BY <1>1, <1>2
<1>4. ((R + r - t) + R * (q - s - 1)) % R = (R + r - t) % R
  BY <1>3, PlusMultiple
<1>5. (m - l) % R = m - l
  <2>1. m - l \in 0 .. R - 1
    OBVIOUS
  <2> QED BY <2>1, SmallRemainder
<1> QED BY <1>1, <1>2, <1>3, <1>4, <1>5

\* Counters that wrap keep what they add up to.
SumsTo(W, a, b, c, l) == (a + b + c - (l % W)) % W = 0

LEMMA SumKept ==
  ASSUME NEW W \in Nat \ {0}, NEW a \in Nat, NEW b \in Nat, NEW c \in Nat,
         NEW g \in Nat, NEW l \in Nat, NEW m \in Nat, m = l + g,
         SumsTo(W, a, b, c, l)
  PROVE  SumsTo(W, (a + (g + W - 1)) % W, (b + 1) % W, c, m)
<1>1. PICK q1 \in Int, r1 \in 0 .. W - 1 :
        a + (g + W - 1) = W * q1 + r1 /\ (a + (g + W - 1)) % W = r1
  <2>1. a + (g + W - 1) \in Int
    OBVIOUS
  <2> QED BY <2>1, IntDivisionEquation
<1>2. PICK q2 \in Int, r2 \in 0 .. W - 1 : b + 1 = W * q2 + r2 /\ (b + 1) % W = r2
  <2>1. b + 1 \in Int
    OBVIOUS
  <2> QED BY <2>1, IntDivisionEquation
<1>3. PICK q3 \in Int, r3 \in 0 .. W - 1 : m = W * q3 + r3 /\ m % W = r3
  <2>1. m \in Int
    OBVIOUS
  <2> QED BY <2>1, IntDivisionEquation
<1>4. PICK q4 \in Int, r4 \in 0 .. W - 1 : l = W * q4 + r4 /\ l % W = r4
  <2>1. l \in Int
    OBVIOUS
  <2> QED BY <2>1, IntDivisionEquation
<1> DEFINE x == a + b + c - r4
           y == 1 - q1 - q2 + q3 - q4
<1>5. r1 + r2 + c - r3 = x + W * y
  <2> DEFINE w1 == W * q1
             w2 == W * q2
             w3 == W * q3
             w4 == W * q4
             wy == W * y
  <2>1. wy = W - w1 - w2 + w3 - w4
    OBVIOUS
  <2>2. w1 \in Int /\ w2 \in Int /\ w3 \in Int /\ w4 \in Int
    OBVIOUS
  <2>3. a + (g + W - 1) = w1 + r1 /\ b + 1 = w2 + r2 /\ m = w3 + r3 /\ l = w4 + r4
    BY <1>1, <1>2, <1>3, <1>4
  <2> HIDE DEF w1, w2, w3, w4, wy, y
  <2>4. r1 + r2 + c - r3 = x + wy
    BY <2>1, <2>2, <2>3
  <2> QED BY <2>4 DEF wy
<1>6. x \in Int /\ y \in Int /\ x % W = 0
  BY <1>4 DEF SumsTo
<1> HIDE DEF x, y
<1>7. (x + W * y) % W = x % W
  BY <1>6, PlusMultiple
<1> QED BY <1>1, <1>2, <1>3, <1>5, <1>6, <1>7 DEF SumsTo

\* Counting packet m after packet l, if fewer than IndexRange lie between them.
LEMMA CountStep ==
  ASSUME NEW st, StatsOK(st), NEW l \in Nat, NEW m \in Nat, CountOK(st, l),
         l <= m, m - l < IndexRange,
         NEW p \in Packets, WillCount(p), p.serial = m % WordMod
  PROVE  CountOK(udp(p, st), m)
<1>0. /\ IndexRange \in Nat \ {0} /\ WordMod \in Nat \ {0}
      /\ WordMod % IndexRange = 0
  BY IpTestAssumption
<1>1. p.index = m % IndexRange
  <2>1. p \notin TestPackets
    BY EndToEndAssumption DEF WillCount
  <2>2. PICK k \in 0 .. WordMod - 1, b \in BOOLEAN : p = StreamPacket(k, b)
    BY <2>1 DEF Packets
  <2>3. p.serial = k /\ p.index = k % IndexRange
    BY <2>2 DEF StreamPacket
  <2>4. (m % WordMod) % IndexRange = m % IndexRange
    <3>1. m \in Int
      OBVIOUS
    <3> QED BY <1>0, <3>1, ResidueOfResidue
  <2> QED BY <2>3, <2>4
<1> DEFINE g == m - l
           a == st.udp_pkt_miss
           b == st.udp_pkt_rcvd
           c == st.since
           mi == missed(p.index, st.old_index)
           rcvd == (b + 1) % WordMod
           miss == (a + mi) % WordMod
           last == m % WordMod
<1>2. mi = g + WordMod - 1
  <2>1. st.old_index = l % IndexRange
    BY DEF CountOK
  <2>2. (IndexRange + (m % IndexRange) - (l % IndexRange)) % IndexRange = m - l
    BY <1>0, GapFromResidues
  <2> QED BY <1>1, <2>1, <2>2 DEF missed
<1> HIDE DEF mi
<1>3. g \in Nat /\ a \in Nat /\ b \in Nat /\ c \in Nat /\ m = l + g
  BY DEF StatsOK
<1>4. udp(p, st) = [old_index |-> p.index, udp_pkt_rcvd |-> rcvd, udp_pkt_miss |-> miss,
                    last |-> last, since |-> c]
  BY DEF udp, mi, StatsOK, WillCount
<1>5. (miss + rcvd + c - last) % WordMod = 0
  <2>1. (a + b + c - (l % WordMod)) % WordMod = 0
    BY DEF CountOK
  <2> HIDE DEF a, b, c, g
  <2>2. (((a + (g + WordMod - 1)) % WordMod) + ((b + 1) % WordMod) + c - (m % WordMod))
          % WordMod = 0
    <3>1. SumsTo(WordMod, a, b, c, l)
      BY <2>1 DEF SumsTo
    <3>2. SumsTo(WordMod, (a + (g + WordMod - 1)) % WordMod, (b + 1) % WordMod, c, m)
      BY <1>0, <1>3, <3>1, SumKept
    <3> QED BY <3>2 DEF SumsTo
  <2> QED BY <1>2, <2>2
<1> HIDE DEF a, b, c, g, miss, rcvd, last
<1> DEFINE u == [old_index |-> p.index, udp_pkt_rcvd |-> rcvd, udp_pkt_miss |-> miss,
                 last |-> last, since |-> c]
<1>6. /\ u.old_index = p.index /\ u.udp_pkt_rcvd = rcvd /\ u.udp_pkt_miss = miss
      /\ u.last = last /\ u.since = c
  OBVIOUS
<1>7. last = m % WordMod
  BY DEF last
<1> HIDE DEF u
<1> QED BY <1>1, <1>4, <1>5, <1>6, <1>7 DEF CountOK, u


\* Only a test packet is counted, when it was told.
GoodSdu(sdu) ==
  \E p \in Packets : WillCount(p) /\ test_IP /\ sdu.lcid = 3 /\ Carries(sdu.bytes, p)

LEMMA StatsOfSdu ==
  ASSUME IndexMod > 2, NEW s, StateOK(s), NEW sdu \in PhoneSdu(test_IP)
  PROVE  \/ StatsAfter(s, sdu) = s.stats /\ ~ GoodSdu(sdu)
         \/ \E p \in Packets : /\ WillCount(p) /\ test_IP /\ sdu.lcid = 3
                               /\ Carries(sdu.bytes, p)
                               /\ StatsAfter(s, sdu) = udp(p, s.stats)
<1> DEFINE c == sdu.lcid
           msg == Told(s, sdu)
<1>1. CASE ~ (test_IP /\ c = 3)
  <2>1. c \in Channel
    BY SduCases
  <2>2. c > 2 => c = 3
    BY <2>1 DEF Channel
  <2>3. StatsAfter(s, sdu) = s.stats
    BY <1>1, <2>2 DEF StatsAfter, TestStats
  <2> QED BY <1>1, <2>3 DEF GoodSdu
<1>2. CASE test_IP /\ c = 3
  <2>1. PICK h \in Header, t \in Seq(Plain) :
          sdu.bytes = << h >> \o t /\ PartOf(test_IP, sdu.lcid, h, t)
    <3>1. sdu.lcid # 0 /\ sdu.lcid # 1
      BY <1>2
    <3> QED BY <3>1, SduCases
  <2>2. h.first /\ h.last /\ t \in TestMessages
    BY <1>2, <2>1 DEF PartOf
  <2>3. PICK p \in Packets : t = << PdcpData, Carrier(p) >>
    BY <2>2 DEF TestMessages
  <2>4. Carries(sdu.bytes, p)
    BY <2>1, <2>3 DEF Carries
  <2>5. Decoded(s, sdu).out = reassemble(s.buffer[3], TRUE, t)
    <3>1. Decoded(s, sdu).out = reassemble(s.buffer[c], h.first, t)
      <4>1. c \in 1 .. 3
        BY <1>2
      <4> QED BY <2>1, <2>2, <4>1, DataDecoded
    <3>2. h.first = TRUE
      BY <2>2 DEF Header
    <3> QED BY <1>2, <3>1, <3>2
  <2>6. msg = pdcp_decode(3, reassemble(s.buffer[3], TRUE, t))
    BY <1>2, <2>5 DEF Told
  <2>7. s.buffer[3] \in Seq(Plain)
    BY DEF StateOK, BuffersOK, Channel
  <2>8. msg = << Carrier(p) >>
    <3> HIDE DEF msg
    <3> QED BY <2>3, <2>6, <2>7, TestPacketTold
  <2>9. msg # << >> /\ msg[1].packet = p
    <3> HIDE DEF msg
    <3> QED BY <2>8 DEF Carrier
  <2>10. StatsAfter(s, sdu) = udp(p, s.stats)
    BY <1>2, <2>9 DEF StatsAfter, TestStats
  <2>11. CASE WillCount(p)
    BY <1>2, <2>4, <2>10, <2>11
  <2>12. CASE ~ WillCount(p)
    <3>1. udp(p, s.stats) = s.stats
      BY <2>12 DEF udp, WillCount
    <3>2. ~ GoodSdu(sdu)
      BY <2>4, <2>12, CarriesOne DEF GoodSdu
    <3> QED BY <2>10, <3>1, <3>2
  <2> QED BY <2>11, <2>12
<1> QED BY <1>1, <1>2

LEMMA BeginOK ==
  ASSUME ProtocolInv
  PROVE  StateOK(Begin) /\ Begin.stats = stats
<1>1. Sequence(<< >>)
  BY SeqIsSequence, << >> \in Seq({})
<1>2. /\ Fields(Begin) /\ Begin.answers = << >> /\ Begin.buffer = rlc_sdu_buffer
      /\ Begin.heard = heard /\ Begin.delivered = {} /\ Begin.sn = rlc_tx_sn
      /\ Begin.stats = stats
  BY DEF Begin, Fields
<1>3. Intact({})
  BY DEF Intact
<1> QED BY <1>1, <1>2, <1>3 DEF StateOK, ProtocolInv, StationOK

\* A block with a packet that counts brings the count up to date; a packet
\* that comes twice is counted once and missing minus one time.
LEMMA BlockCounts ==
  ASSUME ProtocolInv, IndexMod > 2, trouble + 1 < IndexRange, up # << >>,
         NEW n \in Nat, NEW l \in Nat, Reckoned(n, l)
  PROVE  LET block == Head(up) IN
         \/ Result(block.pdu).stats = stats /\ \A k \in 1 .. Len(block.sdus) : ~ GoodSdu(block.sdus[k])
         \/ n >= 1 /\ CountOK(Result(block.pdu).stats, n - 1)
<1> DEFINE block == Head(up)
           sdus == block.sdus
<1>1. block \in Block(test_IP) /\ block = up[1] /\ 1 \in 1 .. Len(up)
  BY HeadTailProperties DEF ProtocolInv, UpOK
<1>2. sdus \in Seq(PhoneSdu(test_IP)) /\ mac_decode(block.pdu) = sdus
  <2> HIDE DEF block
  <2> QED BY <1>1, BlockDecodes
<1>3. StateOK(Begin) /\ Begin.stats = stats
  BY BeginOK
<1>4. trouble \in Nat
  BY DEF ProtocolInv, UpOK
<1>5. ASSUME NEW k \in 1 .. Len(sdus), NEW p \in Packets, WillCount(p), test_IP,
             sdus[k].lcid = 3, Carries(sdus[k].bytes, p)
      PROVE  p \in Awaited
  <2>1. BlockCarries(up[1], p)
    BY <1>1, <1>5 DEF BlockCarries
  <2>2. OnItsWay(sending[3], up, p)
    BY <1>1, <2>1 DEF OnItsWay
  <2> QED BY <1>5, <2>2 DEF Awaited
<1> HIDE DEF block, sdus
<1>6. Len(sdus) \in Nat
  BY <1>2
<1>7. PICK after : /\ HandledUpto(after, Begin, sdus, Len(sdus))
                   /\ Result(block.pdu) = after[Len(sdus)]
  BY <1>2, <1>6, ResultUnfolds
<1>8. \A k \in 0 .. Len(sdus) :
        /\ StateOK(after[k])
        /\ k > 0 => after[k].stats = StatsAfter(after[k - 1], sdus[k])
  BY <1>2, <1>3, <1>7, HandledKeeps
<1>9. after[0] = Begin
  <2>1. 0 \in 0 .. Len(sdus)
    BY <1>6
  <2> QED BY <1>7, <2>1 DEF HandledUpto
<1> DEFINE Same(k) == after[k].stats = stats /\ \A j \in 1 .. k : ~ GoodSdu(sdus[j])
           Done(k) == n >= 1 /\ CountOK(after[k].stats, n - 1)
           P == {k \in 0 .. Len(sdus) : Same(k) \/ Done(k)}
<1>10. 0 \in P
  BY <1>3, <1>6, <1>9
<1>11. ASSUME NEW k \in 1 .. Len(sdus), k - 1 \in P PROVE k \in P
  <2>1. k \in 0 .. Len(sdus) /\ k - 1 \in 0 .. Len(sdus) /\ k > 0
    BY <1>6
  <2>2. StateOK(after[k - 1]) /\ after[k].stats = StatsAfter(after[k - 1], sdus[k])
    BY <1>8, <2>1
  <2>3. sdus[k] \in PhoneSdu(test_IP)
    BY <1>2, ElementOfSeq
  <2>4. Same(k - 1) \/ Done(k - 1)
    BY <1>11
  <2>5. CASE StatsAfter(after[k - 1], sdus[k]) = after[k - 1].stats /\ ~ GoodSdu(sdus[k])
    <3>1. after[k].stats = after[k - 1].stats
      BY <2>2, <2>5
    <3>2. CASE Same(k - 1)
      <4>1. \A j \in 1 .. k : j = k \/ j \in 1 .. k - 1
        BY <1>6
      <4>2. Same(k)
        BY <2>5, <3>1, <3>2, <4>1
      <4> QED BY <2>1, <4>2
    <3>3. CASE Done(k - 1)
      <4>1. Done(k)
        BY <3>1, <3>3
      <4> QED BY <2>1, <4>1
    <3> QED BY <2>4, <3>2, <3>3
  <2>6. ASSUME NEW p \in Packets, WillCount(p), test_IP, sdus[k].lcid = 3,
               Carries(sdus[k].bytes, p),
               StatsAfter(after[k - 1], sdus[k]) = udp(p, after[k - 1].stats)
        PROVE  k \in P
    <3>1. p \in Awaited
      BY <1>5, <2>6
    <3>2. n >= 1 /\ p.serial = (n - 1) % WordMod
      BY <3>1 DEF Reckoned, GapOK
    <3> DEFINE m == n - 1
    <3>3. m \in Nat /\ p.serial = m % WordMod
      BY <3>2
    <3>4. \E i \in Nat : CountOK(after[k - 1].stats, i) /\ i <= m /\ m - i < IndexRange
      <4>1. CASE Same(k - 1)
        <5>1. CountOK(after[k - 1].stats, l)
          BY <4>1 DEF Reckoned
        <5>2. l <= m /\ m - l < IndexRange
          BY <1>4, <3>2, IpTestAssumption DEF Reckoned, GapOK
        <5> QED BY <5>1, <5>2
      <4>2. CASE Done(k - 1)
        <5>1. m <= m /\ m - m < IndexRange
          BY <3>3, IpTestAssumption
        <5> QED BY <3>3, <4>2, <5>1
      <4> QED BY <2>4, <4>1, <4>2
    <3>5. StatsOK(after[k - 1].stats)
      BY <2>2 DEF StateOK
    <3> HIDE DEF m
    <3>6. CountOK(udp(p, after[k - 1].stats), m)
      BY <2>6, <3>3, <3>4, <3>5, CountStep
    <3>7. Done(k)
      BY <2>2, <2>6, <3>2, <3>6 DEF m
    <3> QED BY <2>1, <3>7
  <2> HIDE DEF P
  <2> QED BY <2>2, <2>3, <2>5, <2>6, StatsOfSdu
<1>12. Len(sdus) \in P
  <2> HIDE DEF P
  <2>1. 0 .. Len(sdus) \subseteq P
    BY <1>6, <1>10, <1>11, IntervalInduction
  <2> QED BY <1>6, <2>1
<1>13. Same(Len(sdus)) \/ Done(Len(sdus))
  BY <1>12
<1> QED BY <1>7, <1>13 DEF block, sdus


\* What is no longer awaited was counted, or it is a trouble.
LEMMA GapKept ==
  ASSUME NEW n \in Nat, NEW l \in Nat, NEW V, NEW W, NEW t \in Nat, NEW u \in Nat,
         GapOK(n, l, V, t), W \subseteq V,
         (u = t /\ (V # {} => W # {})) \/ u = t + 1
  PROVE  GapOK(n, l, W, u)
<1>1. n - l <= u + 1 \/ (n - l <= u + 2 /\ W # {})
  <2>1. CASE u = t /\ (V # {} => W # {})
    BY <2>1 DEF GapOK
  <2>2. CASE u = t + 1
    BY <2>2 DEF GapOK
  <2> QED BY <2>1, <2>2
<1> QED BY <1>1 DEF GapOK

LEMMA LessTrouble ==
  ASSUME NEW t \in Nat, NEW u \in Nat, u = t \/ u = t + 1, NEW r \in Nat, u + 1 < r
  PROVE  t + 1 < r
OBVIOUS

LEMMA CountKept ==
  ASSUME ProtocolInv, CountInv, UNCHANGED <<stream, stats>>, TestAttached',
         Awaited' \subseteq Awaited,
         (trouble' = trouble /\ (Awaited # {} => Awaited' # {})) \/ Hit
  PROVE  CountInv'
<1>1. trouble \in Nat /\ trouble' \in Nat
  BY DEF ProtocolInv, UpOK, Hit
<1>2. ASSUME trouble' + 1 < IndexRange
      PROVE  \E n \in Nat, l \in Nat : Reckoned(n, l)'
  <2>1. trouble + 1 < IndexRange
    <3>1. IndexRange \in Nat /\ (trouble' = trouble \/ trouble' = trouble + 1)
      BY IpTestAssumption DEF Hit
    <3> QED BY <1>1, <1>2, <3>1, LessTrouble
  <2>2. PICK n \in Nat, l \in Nat : Reckoned(n, l)
    BY <2>1 DEF CountInv
  <2> DEFINE V == Awaited
             W == Awaited'
             t == trouble
             u == trouble'
  <2>3. GapOK(n, l, V, t) /\ W \subseteq V /\ t \in Nat /\ u \in Nat
        /\ ((u = t /\ (V # {} => W # {})) \/ u = t + 1)
    BY <1>1, <2>2 DEF Reckoned, Hit
  <2> HIDE DEF V, W, t, u
  <2>4. GapOK(n, l, W, u)
    BY <2>3, GapKept
  <2>5. stream' = n % WordMod /\ CountOK(stats', l)
    BY <2>2 DEF Reckoned
  <2>6. Reckoned(n, l)'
    BY <2>4, <2>5 DEF Reckoned, W, u
  <2> QED BY <2>6
<1> QED BY <1>2 DEF CountInv

LEMMA AwaitedSame ==
  ASSUME UNCHANGED <<test_IP, up>>, sending'[3] = sending[3]
  PROVE  Awaited' = Awaited
BY DEF Awaited

\* Actions that do not touch test packets, nor a phone that is attached.
LEMMA OthersCount ==
  ASSUME ProtocolInv, CountInv, UNCHANGED <<stream, stats, test_IP, up>>,
         sending'[3] = sending[3], trouble' = trouble \/ Hit,
         phase = "attached" /\ test_IP => phase' = "attached"
  PROVE  CountInv'
<1>1. Awaited' = Awaited
  BY AwaitedSame
<1>2. TestAttached'
  BY DEF CountInv, TestAttached
<1> QED BY <1>1, <1>2, CountKept

\* Of the untested phone nothing is awaited.
LEMMA UntestedCount ==
  ASSUME ProtocolInv, CountInv, ~ test_IP, UNCHANGED <<stream, stats, test_IP>>,
         trouble' = trouble \/ Hit
  PROVE  CountInv'
<1>1. Awaited' = {} /\ Awaited = {} /\ TestAttached'
  BY DEF Awaited, TestAttached
<1> QED BY <1>1, CountKept

LEMMA RequestCounts ==
  ASSUME ProtocolInv, CountInv, phase # "attached", NEW c, Request(c),
         trouble' = trouble \/ Hit
  PROVE  CountInv'
<1>1. /\ UNCHANGED <<stationVars, stream, up>>
      /\ sending' = [Empty EXCEPT ![0] =
           <<<<[kind |-> "msg", type |-> "request", id |-> c, k |-> 1]>>>>]
  BY DEF Request
<1>2. sending'[3] = << >>
  BY <1>1 DEF Empty, Channel
<1>3. CASE test_IP
  <2>1. sending[3] = << >>
    BY <1>3 DEF CountInv, TestAttached
  <2> QED BY <1>1, <1>2, <2>1, OthersCount DEF stationVars
<1>4. CASE ~ test_IP
  BY <1>1, <1>4, UntestedCount DEF stationVars
<1> QED BY <1>3, <1>4

LEMMA ClearCounts ==
  ASSUME ProtocolInv, CountInv, clearStats
  PROVE  CountInv'
<1>1. /\ stats' = [stats EXCEPT !.udp_pkt_rcvd = 0, !.udp_pkt_miss = 0, !.since = stats.last]
      /\ UNCHANGED <<test_IP, phoneVars, up, trouble>>
  BY DEF clearStats
<1>2. Awaited' = Awaited /\ TestAttached'
  BY <1>1, AwaitedSame DEF phoneVars, CountInv, TestAttached
<1>3. StatsOK(stats) /\ trouble \in Nat
  BY DEF ProtocolInv, StationOK, UpOK
<1>4. /\ stats'.last = stats.last /\ stats'.old_index = stats.old_index
      /\ stats'.udp_pkt_miss = 0 /\ stats'.udp_pkt_rcvd = 0 /\ stats'.since = stats.last
  BY <1>1, <1>3 DEF StatsOK
<1>5. ASSUME NEW n \in Nat, NEW l \in Nat, Reckoned(n, l) PROVE Reckoned(n, l)'
  <2>1. (0 + 0 + stats.last - stats.last) % WordMod = 0
    <3>1. stats.last \in Nat /\ 0 \in 0 .. WordMod - 1
      BY <1>3, IpTestAssumption DEF StatsOK
    <3>2. 0 % WordMod = 0
      BY <3>1, SmallRemainder, IpTestAssumption
    <3>3. 0 + 0 + stats.last - stats.last = 0
      BY <3>1
    <3> QED BY <3>2, <3>3
  <2>2. CountOK(stats', l)
    BY <1>4, <1>5, <2>1 DEF Reckoned, CountOK
  <2> QED BY <1>1, <1>2, <1>5, <2>2 DEF Reckoned, phoneVars
<1> QED BY <1>1, <1>2, <1>5 DEF CountInv

LEMMA ReceiveCounts ==
  ASSUME ProtocolInv, CountInv, Receive
  PROVE  CountInv'
<1>1. UNCHANGED <<stationVars, stream, up, trouble>>
  BY DEF Receive
<1>2. sending = [c \in Channel |-> sending[c]] /\ 3 \in Channel
  BY DEF ProtocolInv, PhoneOK, Channel
<1>3. ASSUME NEW type, NEW next, Enqueue(type, next) PROVE sending'[3] = sending[3]
  BY <1>2, <1>3 DEF Enqueue
<1>4. ASSUME EnqueueCompletes PROVE sending'[3] = sending[3]
  BY <1>2, <1>4 DEF EnqueueCompletes
<1> DEFINE sdus == PhoneSdus(Head(down))
           echoed == \E k \in 1 .. Len(sdus) :
                       sdus[k].lcid = 28 /\ Head(sdus[k].bytes).id = conn
           commands == Commands(sdus)
           type == pdcp_decode(1, Tail(commands[1].bytes))[1].type
           established == phase \notin {"off", "request"}
           acked == Acknowledges(sdus)
<1>5. CASE phase = "request" /\ echoed
  <2>1. Enqueue("setupComplete", "setupComplete")
    BY <1>5 DEF Receive
  <2> QED BY <1>1, <1>3, <1>5, <2>1, OthersCount DEF stationVars
<1>6. CASE phase # "request" /\ established /\ commands # << >>
  <2>1. IF phase \in DOMAIN NextCommand /\ type = NextCommand[phase]
        THEN IF Response[type] = "completing" THEN EnqueueCompletes
             ELSE Enqueue(Response[type], Response[type])
        ELSE /\ phase' = IF phase = "detachRequest" THEN "off" ELSE phase
             /\ UNCHANGED <<vt, sending>>
    BY <1>6 DEF Receive
  <2> HIDE DEF sdus, type, commands
  <2>2. phase = "attached" => phase \notin DOMAIN NextCommand
    BY DEF NextCommand
  <2>3. sending'[3] = sending[3]
    BY <1>3, <1>4, <2>1
  <2>4. phase = "attached" => phase' = "attached"
    BY <2>1, <2>2
  <2> QED BY <1>1, <2>3, <2>4, OthersCount DEF stationVars
<1>7. CASE phase # "request" /\ established /\ commands = << >> /\ acked
  <2>1. /\ phase' = IF phase = "completing" /\ sending[1] = <<>> THEN "attached" ELSE phase
        /\ UNCHANGED sending
    BY <1>7 DEF Receive
  <2> QED BY <1>1, <2>1, OthersCount DEF stationVars
<1>8. CASE ~ \/ phase = "request" /\ echoed
             \/ established /\ commands # << >>
             \/ established /\ commands = << >> /\ acked
  <2>1. UNCHANGED <<phase, sending>>
    BY <1>8 DEF Receive
  <2> QED BY <1>1, <2>1, OthersCount DEF stationVars
<1>9. established => phase # "request"
  OBVIOUS
<1> HIDE DEF echoed, acked, commands, established
<1> QED BY <1>5, <1>6, <1>7, <1>8, <1>9

\* What stays on its way.
LEMMA LostUpCounts ==
  ASSUME ProtocolInv, up # << >>, up' = Tail(up), UNCHANGED <<test_IP, sending>>
  PROVE  /\ Awaited' \subseteq Awaited
         /\ \A p \in Awaited : p \in Awaited' \/ BlockCarries(Head(up), p)
<1>1. /\ Len(up) \in Nat \ {0} /\ Len(Tail(up)) = Len(up) - 1 /\ Head(up) = up[1]
      /\ \A i \in 1 .. Len(Tail(up)) : Tail(up)[i] = up[i + 1]
  <2>1. up \in Seq(Block(test_IP))
    BY DEF ProtocolInv, UpOK
  <2> HIDE DEF Block
  <2>2. Len(up) \in Nat \ {0} /\ Head(up) = up[1]
    BY <2>1
  <2> QED BY <2>1, <2>2, HeadTailProperties
<1>2. ASSUME NEW p \in Awaited' PROVE p \in Awaited
  <2>1. p \in Packets /\ test_IP /\ WillCount(p) /\ OnItsWay(sending[3], Tail(up), p)
    BY <1>2 DEF Awaited
  <2>2. OnItsWay(sending[3], up, p)
    <3>1. CASE \E i \in 1 .. Len(sending[3]) : Carries(sending[3][i], p)
      BY <3>1 DEF OnItsWay
    <3>2. CASE \E i \in 1 .. Len(Tail(up)) : BlockCarries(Tail(up)[i], p)
      <4>1. PICK i \in 1 .. Len(Tail(up)) : BlockCarries(Tail(up)[i], p)
        BY <3>2
      <4>2. i + 1 \in 1 .. Len(up) /\ Tail(up)[i] = up[i + 1]
        BY <1>1
      <4> QED BY <4>1, <4>2 DEF OnItsWay
    <3> QED BY <2>1, <3>1, <3>2 DEF OnItsWay
  <2> QED BY <2>1, <2>2 DEF Awaited
<1>3. ASSUME NEW p \in Awaited, ~ BlockCarries(Head(up), p) PROVE p \in Awaited'
  <2>1. p \in Packets /\ test_IP /\ WillCount(p) /\ OnItsWay(sending[3], up, p)
    BY DEF Awaited
  <2>2. OnItsWay(sending[3], Tail(up), p)
    <3>1. CASE \E i \in 1 .. Len(sending[3]) : Carries(sending[3][i], p)
      BY <3>1 DEF OnItsWay
    <3>2. CASE \E i \in 1 .. Len(up) : BlockCarries(up[i], p)
      <4>1. PICK i \in 1 .. Len(up) : BlockCarries(up[i], p)
        BY <3>2
      <4>2. i # 1
        BY <1>1, <1>3, <4>1
      <4> DEFINE j == i - 1
      <4>3. j \in 1 .. Len(Tail(up)) /\ j + 1 = i
        BY <1>1, <4>2
      <4>4. Tail(up)[j] = up[i]
        BY <1>1, <4>3
      <4> QED BY <4>1, <4>3, <4>4 DEF OnItsWay
    <3> QED BY <2>1, <3>1, <3>2 DEF OnItsWay
  <2> QED BY <2>1, <2>2 DEF Awaited
<1> QED BY <1>2, <1>3

LEMMA LossCounts ==
  ASSUME ProtocolInv, CountInv, LoseUp \/ LoseDown
  PROVE  CountInv'
<1>1. CASE LoseUp
  <2>1. /\ up # << >> /\ up' = Tail(up) /\ Hit /\ UNCHANGED <<stationVars, phoneVars>>
    BY <1>1 DEF LoseUp
  <2>2. Awaited' \subseteq Awaited
    BY <2>1, LostUpCounts DEF stationVars, phoneVars
  <2>3. TestAttached'
    BY <2>1 DEF stationVars, phoneVars, CountInv, TestAttached
  <2> QED BY <2>1, <2>2, <2>3, CountKept DEF stationVars, phoneVars
<1>2. CASE LoseDown
  <2>1. /\ Hit /\ UNCHANGED <<stationVars, phoneVars, up>>
    BY <1>2 DEF LoseDown
  <2> QED BY <2>1, OthersCount DEF stationVars, phoneVars
<1> QED BY <1>1, <1>2

LEMMA ServeCounts ==
  ASSUME ProtocolInv, CountInv, IndexMod > 2, Serve
  PROVE  CountInv'
<1>1. PICK result \in {Result(Head(up).pdu)} :
         /\ stats' = result.stats
         /\ IF result.answers = <<>> THEN UNCHANGED <<down, trouble>>
            ELSE \/ Queue(InBlock(result.answers, RrcBlock)) /\ UNCHANGED trouble
                 \/ Hit /\ UNCHANGED down
  BY DEF Serve
<1>2. up # << >> /\ up' = Tail(up) /\ UNCHANGED <<test_IP, phoneVars>>
  BY DEF Serve
<1>3. trouble \in Nat /\ trouble' \in Nat /\ (trouble' = trouble \/ trouble' = trouble + 1)
  BY <1>1 DEF ProtocolInv, UpOK, Hit
<1>4. /\ Awaited' \subseteq Awaited
      /\ \A p \in Awaited : p \in Awaited' \/ BlockCarries(Head(up), p)
  BY <1>2, LostUpCounts DEF phoneVars
<1>5. TestAttached'
  BY <1>2 DEF phoneVars, CountInv, TestAttached
<1>6. ASSUME trouble' + 1 < IndexRange
      PROVE  \E n \in Nat, l \in Nat : Reckoned(n, l)'
  <2>1. trouble + 1 < IndexRange
    <3>1. IndexRange \in Nat
      BY IpTestAssumption
    <3> QED BY <1>3, <1>6, <3>1, LessTrouble
  <2>2. PICK n \in Nat, l \in Nat : Reckoned(n, l)
    BY <2>1 DEF CountInv
  <2> DEFINE V == Awaited
             W == Awaited'
             t == trouble
             u == trouble'
  <2>3. stream' = n % WordMod
    BY <1>2, <2>2 DEF Reckoned, phoneVars
  <2>4. GapOK(n, l, V, t) /\ W \subseteq V
    BY <1>4, <2>2 DEF Reckoned
  <2>5. CASE /\ stats' = stats
             /\ \A k \in 1 .. Len(Head(up).sdus) : ~ GoodSdu(Head(up).sdus[k])
    <3>1. ASSUME NEW p \in Awaited PROVE ~ BlockCarries(Head(up), p)
      BY <2>5 DEF Awaited, BlockCarries, GoodSdu
    <3>2. V # {} => W # {}
      BY <1>4, <3>1
    <3> HIDE DEF V, W
    <3>3. GapOK(n, l, W, u)
      BY <1>3, <2>4, <3>2, GapKept
    <3>4. Reckoned(n, l)'
      BY <2>2, <2>3, <2>5, <3>3 DEF Reckoned, W
    <3> QED BY <3>4
  <2>6. CASE n >= 1 /\ CountOK(stats', n - 1)
    <3> DEFINE m == n - 1
    <3>1. m \in Nat /\ m < n /\ n - m = 1
      BY <2>6
    <3> HIDE DEF V, W
    <3>2. GapOK(n, m, W, u)
      <4>1. \A p \in W : n >= 1 /\ p.serial = (n - 1) % WordMod
        BY <2>4 DEF GapOK
      <4>2. n - m <= u + 1
        <5>1. u \in Nat
          BY <1>3 DEF u
        <5> HIDE DEF m, u
        <5> QED BY <3>1, <5>1
      <4>3. (n = 0 /\ m = 0) \/ m < n
        BY <3>1
      <4> HIDE DEF m
      <4> QED BY <4>1, <4>2, <4>3 DEF GapOK
    <3>3. Reckoned(n, m)'
      BY <2>3, <2>6, <3>2 DEF Reckoned, W
    <3> QED BY <3>1, <3>3
  <2>7. \/ stats' = stats /\ \A k \in 1 .. Len(Head(up).sdus) : ~ GoodSdu(Head(up).sdus[k])
        \/ n >= 1 /\ CountOK(stats', n - 1)
    BY <1>1, <1>2, <2>1, <2>2, BlockCounts
  <2> QED BY <2>5, <2>6, <2>7
<1> QED BY <1>5, <1>6 DEF CountInv


\* A selection has every element selected.
LEMMA SelectedHas ==
  ASSUME NEW S, NEW s \in Seq(S), NEW K, NEW j \in 1 .. Len(s), j \in K
  PROVE  \E i \in 1 .. Len(Selected(s, K)) : Selected(s, K)[i] = s[j]
<1>1. PICK kept : /\ Selected(s, K) = kept[Len(s)]
                  /\ kept[0] = << >>
                  /\ \A k \in 1 .. Len(s) :
                       kept[k] = IF k \in K THEN Append(kept[k - 1], s[k]) ELSE kept[k - 1]
  BY SelectedUnfolds
<1>2. Len(s) \in Nat
  OBVIOUS
<1> DEFINE Has(t) == \E i \in 1 .. Len(t) : t[i] = s[j]
           P == {m \in 0 .. Len(s) : kept[m] \in Seq(S) /\ (m >= j => Has(kept[m]))}
<1>3. 0 \in P
  <2>1. kept[0] \in Seq(S)
    BY <1>1, EmptySeq
  <2>2. 0 \in 0 .. Len(s) /\ ~ (0 >= j)
    BY <1>2
  <2> QED BY <2>1, <2>2
<1>4. ASSUME NEW k \in 1 .. Len(s), k - 1 \in P PROVE k \in P
  <2>1. kept[k - 1] \in Seq(S) /\ (k - 1 >= j => Has(kept[k - 1])) /\ s[k] \in S
        /\ k \in 0 .. Len(s)
    BY <1>2, <1>4, ElementOfSeq
  <2>2. kept[k] = IF k \in K THEN Append(kept[k - 1], s[k]) ELSE kept[k - 1]
    BY <1>1
  <2>3. CASE k \in K
    <3> DEFINE t == kept[k - 1]
               u == Append(t, s[k])
    <3>1. kept[k] = u
      BY <2>2, <2>3
    <3>2. /\ u \in Seq(S) /\ Len(u) = Len(t) + 1 /\ Len(t) \in Nat
          /\ u[Len(t) + 1] = s[k] /\ \A i \in 1 .. Len(t) : u[i] = t[i]
      <4>1. t \in Seq(S) /\ s[k] \in S
        BY <2>1
      <4> HIDE DEF t
      <4> QED BY <4>1, AppendProperties
    <3>3. k >= j => Has(u)
      <4>1. CASE k = j
        <5>1. Len(t) + 1 \in 1 .. Len(u)
          BY <3>2
        <5> HIDE DEF t, u
        <5> QED BY <3>2, <4>1, <5>1
      <4>2. CASE k - 1 >= j
        <5>1. PICK i \in 1 .. Len(t) : t[i] = s[j]
          BY <2>1, <4>2
        <5>2. i \in 1 .. Len(u)
          BY <3>2
        <5> HIDE DEF t, u
        <5> QED BY <3>2, <5>1, <5>2
      <4>3. k >= j => k = j \/ k - 1 >= j
        BY <1>2
      <4> QED BY <4>1, <4>2, <4>3
    <3> HIDE DEF u, Has
    <3> QED BY <2>1, <3>1, <3>2, <3>3
  <2>4. CASE k \notin K
    <3>1. kept[k] = kept[k - 1] /\ k # j
      BY <2>2, <2>4
    <3>2. k >= j => k - 1 >= j
      BY <1>2, <3>1
    <3> HIDE DEF Has
    <3> QED BY <2>1, <3>1, <3>2
  <2> QED BY <2>3, <2>4
<1>5. Len(s) \in P
  <2> HIDE DEF P
  <2>1. 0 .. Len(s) \subseteq P
    BY <1>2, <1>3, <1>4, IntervalInduction
  <2> QED BY <1>2, <2>1
<1>6. Len(s) >= j
  BY <1>2
<1> QED BY <1>1, <1>5, <1>6

\* A block has on channel 3 what was next there, if it has anything.
LEMMA SentOnThree ==
  ASSUME NEW C \in SUBSET Channel, C # {}, NEW status \in BOOLEAN
  PROVE  LET sdus == SentSdus(C, status) IN
         /\ Len(sdus) \in Nat
         /\ \A k \in 1 .. Len(sdus) :
              sdus[k].lcid = 3 => 3 \in C /\ sdus[k].bytes = Head(sending[3])
         /\ 3 \in C => \E k \in 1 .. Len(sdus) :
              sdus[k].lcid = 3 /\ sdus[k].bytes = Head(sending[3])
<1> DEFINE channels == SentOn(C)
           n == Len(channels)
           sub(k) == [lcid |-> channels[k], bytes |-> Head(sending[channels[k]])]
           fragments == [k \in 1 .. n |-> sub(k)]
           report == [lcid |-> 1, bytes |-> StatusReport(vr)]
           front == IF status THEN << report >> ELSE << >>
           T == {sub(k) : k \in 1 .. n} \union {report}
           sdus == SentSdus(C, status)
<1>1. channels \in Seq(C) /\ n \in Nat
  <2>1. channels \in Seq(C)
    BY SentOnChannels
  <2> HIDE DEF channels
  <2> QED BY <2>1
<1>2. sdus = front \o fragments
  BY DEF SentSdus
<1>3. /\ \A k \in 1 .. n : sub(k) \in T /\ sub(k).lcid = channels[k]
                           /\ sub(k).bytes = Head(sending[channels[k]])
      /\ report \in T /\ report.lcid = 1
  OBVIOUS
<1> HIDE DEF sub, report
<1>4. fragments \in Seq(T) /\ Len(fragments) = n /\ \A k \in 1 .. n : fragments[k] = sub(k)
  <2> HIDE DEF T, n
  <2> QED BY <1>1, <1>3
<1>5. front \in Seq(T) /\ Len(front) \in Nat /\ \A k \in 1 .. Len(front) : front[k].lcid = 1
  <2> HIDE DEF T
  <2> QED BY <1>3
<1> HIDE DEF front, fragments, T
<1>6. /\ Len(sdus) = Len(front) + n
      /\ \A i \in 1 .. Len(front) + n : sdus[i] =
           IF i <= Len(front) THEN front[i] ELSE fragments[i - Len(front)]
  <2> DEFINE cat == front \o fragments
  <2>1. /\ Len(cat) = Len(front) + Len(fragments)
        /\ \A i \in 1 .. Len(front) + Len(fragments) : cat[i] =
             IF i <= Len(front) THEN front[i] ELSE fragments[i - Len(front)]
    <3>1. front \in Seq(T) /\ fragments \in Seq(T)
      BY <1>4, <1>5
    <3> QED BY ONLY <3>1, ConcatProperties
  <2> HIDE DEF sdus, cat, n
  <2> QED BY <1>2, <1>4, <2>1 DEF cat
<1> HIDE DEF sdus
<1>7. ASSUME NEW k \in 1 .. Len(sdus), sdus[k].lcid = 3
      PROVE  3 \in C /\ sdus[k].bytes = Head(sending[3])
  <2>1. CASE k <= Len(front)
    <3>1. k \in 1 .. Len(front) /\ sdus[k] = front[k]
      BY <1>1, <1>5, <1>6, <2>1
    <3> QED BY <1>5, <1>7, <3>1
  <2>2. CASE k > Len(front)
    <3> DEFINE i == k - Len(front)
    <3>1. i \in 1 .. n /\ sdus[k] = fragments[i]
      BY <1>1, <1>5, <1>6, <2>2
    <3>2. sdus[k] = sub(i)
      BY <1>4, <3>1
    <3> HIDE DEF i
    <3>3. channels[i] = 3 /\ sdus[k].bytes = Head(sending[3])
      BY <1>3, <1>7, <3>1, <3>2
    <3>4. channels[i] \in C
      <4> HIDE DEF channels
      <4> QED BY <1>1, <3>1, ElementOfSeq
    <3> QED BY <3>3, <3>4
  <2>3. k \in Nat
    BY <1>1, <1>5, <1>6
  <2> QED BY <1>5, <2>1, <2>2, <2>3
<1>8. ASSUME 3 \in C
      PROVE  \E k \in 1 .. Len(sdus) : sdus[k].lcid = 3 /\ sdus[k].bytes = Head(sending[3])
  <2> DEFINE s == << 0, 1, 2, 3 >>
             K == {c + 1 : c \in C}
  <2>1. s \in Seq(0 .. 3) /\ Len(s) = 4 /\ s[4] = 3 /\ 4 \in 1 .. Len(s) /\ 4 \in K
    BY <1>8
  <2>2. channels = Selected(s, K)
    BY DEF SentOn
  <2> HIDE DEF s, K, channels
  <2>3. PICK i \in 1 .. n : channels[i] = 3
    BY <2>1, <2>2, SelectedHas
  <2> DEFINE k == Len(front) + i
  <2>4. k \in 1 .. Len(sdus) /\ k \in 1 .. Len(front) + n /\ ~ (k <= Len(front))
        /\ k - Len(front) = i
    BY <1>1, <1>5, <1>6
  <2> HIDE DEF k
  <2>5. sdus[k] = sub(i)
    BY <1>4, <1>6, <2>4
  <2>6. sdus[k].lcid = 3 /\ sdus[k].bytes = Head(sending[3])
    BY <1>3, <2>3, <2>5
  <2> QED BY <2>4, <2>6
<1>9. Len(sdus) \in Nat
  BY <1>1, <1>5, <1>6
<1> QED BY <1>7, <1>8, <1>9 DEF sdus

LEMMA SendCounts ==
  ASSUME ProtocolInv, CountInv, Send
  PROVE  CountInv'
<1>1. UNCHANGED <<stationVars, phase, stream, trouble>>
  BY DEF Send
<1>2. PICK C \in (SUBSET Busy) \ {{}}, status \in BOOLEAN :
        /\ up' = Append(up, [pdu |-> PhonePdu(status, SentSdus(C, status)),
                             sdus |-> SentSdus(C, status)])
        /\ sending' = Without(C)
  BY DEF Send, SentSdus, SentOn
<1> DEFINE s == SentSdus(C, status)
           block == [pdu |-> PhonePdu(status, s), sdus |-> s]
<1>3. /\ \A k \in 1 .. Len(s) :
           s[k].lcid = 3 => 3 \in C /\ s[k].bytes = Head(sending[3])
      /\ 3 \in C => \E k \in 1 .. Len(s) : s[k].lcid = 3 /\ s[k].bytes = Head(sending[3])
  <2>1. C \in SUBSET Channel /\ C # {}
    BY <1>2 DEF Busy
  <2> QED BY <2>1, SentOnThree
<1> HIDE DEF s
<1>4. block.sdus = s /\ up' = Append(up, block)
  BY <1>2 DEF s
<1> HIDE DEF block
<1>5. /\ Len(up) \in Nat /\ Len(up') = Len(up) + 1 /\ up'[Len(up) + 1] = block
      /\ \A i \in 1 .. Len(up) : up'[i] = up[i]
  <2>1. Sequence(up)
    BY SeqIsSequence DEF ProtocolInv, UpOK
  <2> QED BY <1>4, <2>1, AppendSequence DEF Sequence
<1> DEFINE old == sending[3]
           new == sending'[3]
<1>6. 3 \in Channel /\ new = IF 3 \in C THEN Tail(old) ELSE old
  BY <1>2 DEF Without, Channel
<1>7. 3 \in C => /\ Len(old) \in Nat \ {0} /\ Head(old) = old[1] /\ Len(Tail(old)) = Len(old) - 1
                 /\ \A i \in 1 .. Len(Tail(old)) : Tail(old)[i] = old[i + 1]
  <2> SUFFICES ASSUME 3 \in C
               PROVE  /\ Len(old) \in Nat \ {0} /\ Head(old) = old[1] /\ Len(Tail(old)) = Len(old) - 1
                      /\ \A i \in 1 .. Len(Tail(old)) : Tail(old)[i] = old[i + 1]
    OBVIOUS
  <2>1. old # << >> /\ old \in Seq(Fragment(test_IP, 3))
    BY <1>2, <1>6 DEF Busy, ProtocolInv, PhoneOK
  <2> HIDE DEF old
  <2>2. Len(old) \in Nat \ {0} /\ Head(old) = old[1]
    BY <2>1
  <2> QED BY <2>1, <2>2, HeadTailProperties
<1>8. \A p : BlockCarries(block, p) <=> 3 \in C /\ Carries(Head(old), p)
  BY <1>3, <1>4 DEF BlockCarries
<1> HIDE DEF old, new
<1>9. \A p : OnItsWay(new, up', p) <=> OnItsWay(old, up, p)
  <2> TAKE p
  <2>1. (\E i \in 1 .. Len(up') : BlockCarries(up'[i], p)) <=>
          \/ \E i \in 1 .. Len(up) : BlockCarries(up[i], p)
          \/ 3 \in C /\ Carries(Head(old), p)
    <3>1. \A i \in 1 .. Len(up') : i \in 1 .. Len(up) \/ i = Len(up) + 1
      BY <1>5
    <3>2. Len(up) + 1 \in 1 .. Len(up') /\ \A i \in 1 .. Len(up) : i \in 1 .. Len(up')
      BY <1>5
    <3>3. BlockCarries(up'[Len(up) + 1], p) <=> 3 \in C /\ Carries(Head(old), p)
      BY <1>5, <1>8
    <3>4. \A i \in 1 .. Len(up) : BlockCarries(up'[i], p) <=> BlockCarries(up[i], p)
      BY <1>5
    <3> QED BY <3>1, <3>2, <3>3, <3>4
  <2>2. CASE 3 \notin C
    BY <1>6, <2>1, <2>2 DEF OnItsWay
  <2>3. CASE 3 \in C
    <3>1. (\E i \in 1 .. Len(old) : Carries(old[i], p)) <=>
            (\E i \in 1 .. Len(Tail(old)) : Carries(Tail(old)[i], p)) \/ Carries(Head(old), p)
      <4>1. ASSUME NEW i \in 1 .. Len(old), Carries(old[i], p), i # 1
            PROVE  \E j \in 1 .. Len(Tail(old)) : Carries(Tail(old)[j], p)
        <5> DEFINE j == i - 1
        <5>1. j \in 1 .. Len(Tail(old)) /\ j + 1 = i
          BY <1>7, <2>3, <4>1
        <5>2. Tail(old)[j] = old[i]
          BY <1>7, <2>3, <5>1
        <5> QED BY <4>1, <5>1, <5>2
      <4>2. ASSUME NEW j \in 1 .. Len(Tail(old)), Carries(Tail(old)[j], p)
            PROVE  \E i \in 1 .. Len(old) : Carries(old[i], p)
        <5>1. j + 1 \in 1 .. Len(old) /\ Tail(old)[j] = old[j + 1]
          BY <1>7, <2>3
        <5> QED BY <4>2, <5>1
      <4>3. Head(old) = old[1] /\ 1 \in 1 .. Len(old)
        BY <1>7, <2>3
      <4> QED BY <4>1, <4>2, <4>3
    <3> QED BY <1>6, <2>1, <2>3, <3>1 DEF OnItsWay
  <2> QED BY <2>2, <2>3
<1>10. Awaited' = Awaited
  BY <1>1, <1>9 DEF Awaited, old, new, stationVars
<1>11. TestAttached'
  <2>1. new # << >> => old # << >>
    <3>1. 3 \in C => old # << >>
      BY <1>2, <1>6 DEF Busy, old
    <3> QED BY <1>6, <3>1
  <2> QED BY <1>1, <2>1 DEF stationVars, CountInv, TestAttached, old, new
<1> QED BY <1>1, <1>10, <1>11, CountKept DEF stationVars

\* A test packet is sent when nothing else is on its way.
LEMMA TestSent ==
  ASSUME ProtocolInv, CountInv, NEW p \in Packets, SendTest(p)
  PROVE  /\ Awaited = {} /\ Awaited' = {q \in {p} : WillCount(q)}
         /\ TestAttached' /\ UNCHANGED stationVars
<1>1. /\ phase = "attached" /\ test_IP /\ sending[3] = << >> /\ up = << >>
      /\ UNCHANGED <<stationVars, phase, up>>
  BY DEF SendTest
<1> DEFINE t == << PdcpData, Carrier(p) >>
           h == [kind |-> "rlc", dc |-> "data", p |-> (3 \in AM /\ TRUE), e |-> 0,
                 first |-> TRUE, last |-> TRUE, sn |-> 0 % SnMod, whole |-> t]
           f == << h >> \o t
           s == sending'[3]
<1>2. s = << f >>
  <2>1. sending' = [sending EXCEPT ![3] = Fragments(3, t, Len(t), 0)]
    BY <1>1 DEF SendTest, Carrier
  <2>2. sending'[3] = Fragments(3, t, Len(t), 0)
    <3>1. sending = [c \in Channel |-> sending[c]] /\ 3 \in Channel
      BY DEF ProtocolInv, PhoneOK, Channel
    <3> QED BY <2>1, <3>1
  <2>3. Fragments(3, t, Len(t), 0) = << f >>
    BY DEF Fragments
  <2> QED BY <2>2, <2>3
<1>3. h \in Header
  <2>1. t \in Seq(Plain)
    BY DEF Plain
  <2>2. 0 % SnMod \in 0 .. SnMod - 1
    BY RemainderRange, RlcAssumption
  <2>3. (3 \in AM /\ TRUE) \in BOOLEAN
    OBVIOUS
  <2> DEFINE b == (3 \in AM /\ TRUE)
             n == 0 % SnMod
  <2> HIDE DEF b, n, t
  <2> QED BY <2>1, <2>2, <2>3 DEF Header, b, n
<1>4. Carries(f, p)
  <2> HIDE DEF h
  <2> QED BY <1>3 DEF Carries
<1> HIDE DEF f
<1>5. Len(s) = 1 /\ s[1] = f
  BY <1>2
<1> HIDE DEF s
<1>6. Len(up) = 0 /\ Len(sending[3]) = 0
  BY <1>1
<1>7. \A q : OnItsWay(s, up, q) <=> q = p
  <2> TAKE q
  <2>1. 1 .. Len(up) = {} /\ 1 .. Len(s) = {1}
    BY <1>5, <1>6
  <2>2. OnItsWay(s, up, q) <=> Carries(f, q)
    BY <1>5, <2>1 DEF OnItsWay
  <2> QED BY <1>4, <2>2, CarriesOne
<1>8. Awaited' = {q \in {p} : WillCount(q)}
  BY <1>1, <1>7 DEF Awaited, stationVars, s
<1>9. Awaited = {}
  <2>1. 1 .. 0 = {}
    OBVIOUS
  <2> QED BY <1>6, <2>1 DEF Awaited, OnItsWay
<1>10. TestAttached'
  BY <1>1 DEF TestAttached
<1> QED BY <1>1, <1>8, <1>9, <1>10

LEMMA SendOtherCounts ==
  ASSUME ProtocolInv, CountInv, SendOther
  PROVE  CountInv'
<1>1. PICK p \in TestPackets : SendTest(p)
  BY DEF SendOther
<1>2. p \in Packets /\ ~ WillCount(p)
  BY EndToEndAssumption DEF Packets, WillCount
<1>3. UNCHANGED <<stream, trouble>>
  BY DEF SendOther
<1>4. Awaited' = {} /\ Awaited = {} /\ TestAttached' /\ UNCHANGED stationVars
  BY <1>1, <1>2, TestSent
<1> QED BY <1>3, <1>4, CountKept DEF stationVars

LEMMA StreamWillCount ==
  ASSUME NEW k \in 0 .. WordMod - 1, NEW same \in BOOLEAN
  PROVE  WillCount(StreamPacket(k, same)) <=> same
<1> DEFINE p == StreamPacket(k, same)
<1>1. /\ p.len = 29 /\ p.version = 4 /\ p.hlen = 20 /\ p.total = 29 /\ p.protocol = 17
      /\ p.length = 9 /\ p.same = same
  BY DEF StreamPacket
<1> HIDE DEF p
<1>2. Counted(p)
  BY <1>1 DEF Counted, HeaderOk
<1>3. Good(p) <=> same
  BY <1>1 DEF Good
<1> QED BY <1>2, <1>3 DEF WillCount, p

LEMMA SendStreamCounts ==
  ASSUME ProtocolInv, CountInv, SendStream
  PROVE  CountInv'
<1>1. PICK same \in BOOLEAN :
        /\ SendTest(StreamPacket(stream, same))
        /\ IF same THEN UNCHANGED trouble ELSE Hit
  BY DEF SendStream, StreamPacket
<1>2. stream \in 0 .. WordMod - 1 /\ trouble \in Nat /\ stream' = (stream + 1) % WordMod
  BY DEF ProtocolInv, PhoneOK, UpOK, SendStream
<1> DEFINE p == StreamPacket(stream, same)
           W == Awaited'
           u == trouble'
<1>3. p \in Packets /\ p.serial = stream /\ (WillCount(p) <=> same)
  BY <1>2, StreamWillCount DEF Packets, StreamPacket
<1> HIDE DEF p
<1>4. /\ Awaited = {} /\ W = {q \in {p} : WillCount(q)}
      /\ TestAttached' /\ UNCHANGED stationVars
  BY <1>1, <1>3, TestSent DEF p
<1>5. \/ u = trouble /\ W = {p}
      \/ u = trouble + 1 /\ W = {}
  BY <1>1, <1>3, <1>4 DEF Hit
<1> HIDE DEF W, u
<1>6. ASSUME u + 1 < IndexRange
      PROVE  \E n \in Nat, l \in Nat : Reckoned(n, l)'
  <2>1. trouble + 1 < IndexRange
    <3>1. IndexRange \in Nat /\ (u = trouble \/ u = trouble + 1) /\ u \in Nat
      BY <1>2, <1>5, IpTestAssumption
    <3> QED BY <1>2, <1>6, <3>1, LessTrouble
  <2>2. PICK n \in Nat, l \in Nat : Reckoned(n, l)
    BY <2>1 DEF CountInv
  <2>3. /\ stream = n % WordMod /\ CountOK(stats, l)
        /\ (n = 0 /\ l = 0) \/ l < n
        /\ n - l <= trouble + 1
    BY <1>4, <2>2 DEF Reckoned, GapOK
  <2> DEFINE m == n + 1
  <2>4. m \in Nat /\ l < m /\ m - 1 = n /\ m - l = n - l + 1 /\ m >= 1
    BY <2>3
  <2>5. stream' = m % WordMod
    <3>1. n \in Int /\ WordMod \in Nat \ {0} /\ 1 \in Int
      BY IpTestAssumption
    <3>2. ((n % WordMod) + 1) % WordMod = (n + 1) % WordMod
      BY <3>1, ResidueTakenEarly
    <3> QED BY <1>2, <2>3, <3>2
  <2>6. m - l <= u + 1 \/ (m - l <= u + 2 /\ W # {})
    <3> DEFINE t == trouble
               far == m - l
    <3>1. far \in Int /\ t \in Int /\ far <= t + 2
      BY <1>2, <2>3, <2>4
    <3> HIDE DEF t, far
    <3>2. CASE u = trouble /\ W = {p}
      <4>1. W # {}
        BY <3>2
      <4> QED BY <3>1, <3>2, <4>1 DEF t, far
    <3>3. CASE u = trouble + 1
      <4>1. u = t + 1
        BY <3>3 DEF t
      <4>2. far <= u + 1
        BY <3>1, <4>1
      <4> QED BY <4>2 DEF far
    <3> QED BY <1>5, <3>2, <3>3
  <2>7. \A q \in W : m >= 1 /\ q.serial = (m - 1) % WordMod
    BY <1>3, <1>5, <2>3, <2>4
  <2> HIDE DEF m
  <2>8. GapOK(m, l, W, u)
    BY <2>4, <2>6, <2>7 DEF GapOK
  <2>9. Reckoned(m, l)'
    BY <1>4, <2>3, <2>5, <2>8 DEF Reckoned, W, u, stationVars
  <2> QED BY <2>4, <2>9
<1> QED BY <1>4, <1>6 DEF CountInv, u

LEMMA CountingBegins == Init => CountInv
<1> SUFFICES ASSUME Init PROVE CountInv
  OBVIOUS
<1>1. TestAttached
  BY DEF Init, TestAttached, Empty, Channel
<1>2. Reckoned(0, 0)
  <2>1. 0 % WordMod = 0 /\ 0 % IndexRange = 0
    BY SmallRemainder, IpTestAssumption
  <2>2. CountOK(stats, 0)
    <3>1. /\ stats.old_index = 0 /\ stats.udp_pkt_rcvd = 0 /\ stats.udp_pkt_miss = 0
          /\ stats.last = 0 /\ stats.since = 0
      BY DEF Init
    <3>2. 0 + 0 + 0 - 0 = 0
      OBVIOUS
    <3> QED BY <2>1, <3>1, <3>2 DEF CountOK
  <2>3. Awaited = {}
    <3>1. Len(sending[3]) = 0 /\ Len(up) = 0 /\ 1 .. 0 = {}
      BY DEF Init, Empty, Channel
    <3> QED BY <3>1 DEF Awaited, OnItsWay
  <2>4. GapOK(0, 0, {}, trouble)
    BY DEF GapOK, Init
  <2> QED BY <2>1, <2>2, <2>3, <2>4 DEF Reckoned, Init
<1> QED BY <1>1, <1>2 DEF CountInv

LEMMA CountPreserved ==
  ASSUME ProtocolInv, CountInv, IndexMod > 2, [Next]_vars
  PROVE  CountInv'
<1>1. CASE UNCHANGED vars
  BY <1>1, OthersCount DEF vars, stationVars, phoneVars
<1>2. CASE mac_tx_schedule_IP
  <2>1. UNCHANGED <<test_IP, stats, phoneVars, up, trouble>>
    BY <1>2 DEF mac_tx_schedule_IP
  <2> QED BY <2>1, OthersCount DEF phoneVars
<1>3. CASE Connect
  BY <1>3, RequestCounts DEF Connect
<1>4. CASE Timeout
  BY <1>4, RequestCounts DEF Timeout, Waiting
<1>5. CASE Retransmit
  <2>1. /\ sending' = [sending EXCEPT ![1] = <<unacked>>]
        /\ UNCHANGED <<stationVars, phase, stream, up, trouble>>
    BY <1>5 DEF Retransmit
  <2>2. sending'[3] = sending[3]
    <3>1. sending = [c \in Channel |-> sending[c]] /\ 3 \in Channel
      BY DEF ProtocolInv, PhoneOK, Channel
    <3> QED BY <2>1, <3>1
  <2> QED BY <2>1, <2>2, OthersCount DEF stationVars
<1>6. CASE SendPacket
  <2>1. ~ test_IP /\ UNCHANGED <<stationVars, stream, trouble>>
    BY <1>6 DEF SendPacket
  <2> QED BY <2>1, UntestedCount DEF stationVars
<1>7. CASE Detach
  <2>1. ~ test_IP /\ UNCHANGED <<stationVars, stream, trouble>>
    BY <1>7 DEF Detach
  <2> QED BY <2>1, UntestedCount DEF stationVars
<1> QED BY <1>1, <1>2, <1>3, <1>4, <1>5, <1>6, <1>7, ServeCounts, ClearCounts,
           SendCounts, ReceiveCounts, SendStreamCounts, SendOtherCounts, LossCounts DEF Next

----------------------------------------------------------------------------
(***************************************************************************)
(* What is in a block on its way down: blocks of the chosen rate are large *)
(* enough for a packet of the network, and a block with an answer on       *)
(* channel 3 has room for all its answers.                                 *)
(***************************************************************************)
\* The options of the command line are in the tables.
RatesInTables == \A r \in Rates : r.mcs \in Int /\ r.nrb \in {-1} \union 1 .. MaxNRB

LEMMA LeastIsIn ==
  ASSUME NEW T \in SUBSET Nat, T # {}
  PROVE  Least(T) \in T
<1>1. \E m \in T : \A k \in T : m <= k
  BY LeastElement
<1> QED BY <1>1 DEF Least

LEMMA SizeByNRB ==
  ASSUME NEW nrb \in 1 .. MaxNRB, NEW len \in Nat, getTBSFromNRB(nrb, len) > 0
  PROVE  getTBSFromNRB(nrb, len) \in Nat /\ getTBSFromNRB(nrb, len) >= len
<1> DEFINE fits == {i \in qpsk_interval : tbs_table[i][nrb] >= len}
<1>1. CASE fits = {}
  <2>1. getTBSFromNRB(nrb, len) = -1
    BY <1>1 DEF getTBSFromNRB, TbsNone
  <2> QED BY <2>1
<1>2. CASE fits # {}
  <2>1. fits \in SUBSET Nat
    BY TransportBlockAssumption
  <2>2. getTBSFromNRB(nrb, len) = tbs_table[Least(fits)][nrb]
    BY <1>2 DEF getTBSFromNRB
  <2> DEFINE i == Least(fits)
  <2>3. i \in fits
    <3> HIDE DEF fits
    <3> QED BY <1>2, <2>1, LeastIsIn
  <2> HIDE DEF i
  <2>4. i \in DOMAIN tbs_table /\ tbs_table[i][nrb] >= len
    BY <2>3, TransportBlockAssumption
  <2>5. tbs_table[i][nrb] \in Nat
    <3>1. tbs_table[i] \in [1 .. MaxNRB -> Nat \ {0}]
      BY <2>4, TransportBlockAssumption
    <3> QED BY <3>1
  <2> QED BY <2>2, <2>4, <2>5 DEF i
<1> QED BY <1>1, <1>2

LEMMA SizeByMCS ==
  ASSUME NEW mcs, NEW len \in Nat, getTBSFromMCS(mcs, len) > 0
  PROVE  getTBSFromMCS(mcs, len) \in Nat /\ getTBSFromMCS(mcs, len) >= len
<1> DEFINE row == tbs_table[mcs_table[mcs]]
           fits == {n \in 1 .. MaxNRB : row[n] >= len}
<1>1. CASE ~ (mcs \in DOMAIN mcs_table /\ fits # {})
  <2>1. getTBSFromMCS(mcs, len) = -1
    BY <1>1 DEF getTBSFromMCS, TbsNone
  <2> QED BY <2>1
<1>2. CASE mcs \in DOMAIN mcs_table /\ fits # {}
  <2>1. fits \in SUBSET Nat
    BY TransportBlockAssumption
  <2>2. getTBSFromMCS(mcs, len) = row[Least(fits)]
    BY <1>2 DEF getTBSFromMCS
  <2>3. row \in [1 .. MaxNRB -> Nat \ {0}]
    BY <1>2, TransportBlockAssumption
  <2> DEFINE n == Least(fits)
  <2>4. n \in fits
    <3> HIDE DEF fits
    <3> QED BY <1>2, <2>1, LeastIsIn
  <2> HIDE DEF n
  <2>5. n \in 1 .. MaxNRB /\ row[n] >= len
    BY <2>4
  <2> HIDE DEF row
  <2> QED BY <2>2, <2>3, <2>5 DEF n
<1> QED BY <1>1, <1>2

\* A block of the chosen rate holds what it is chosen for.
LEMMA BlockLargeEnough ==
  ASSUME RatesInTables, NEW r \in Rates, r.mcs >= 0 \/ r.nrb >= 0, NEW len \in Nat,
         blockSize(r, len) > 0
  PROVE  blockSize(r, len) \in Nat /\ blockSize(r, len) >= len
<1>1. r.mcs \in Int /\ r.nrb \in {-1} \union 1 .. MaxNRB
  BY DEF RatesInTables
<1>2. CASE r.mcs >= 0
  <2>1. blockSize(r, len) = getTBSFromMCS(r.mcs, len)
    BY <1>1, <1>2 DEF blockSize
  <2> QED BY <2>1, SizeByMCS
<1>3. CASE ~ (r.mcs >= 0)
  <2>1. r.mcs < 0 /\ r.nrb >= 0 /\ r.nrb \in 1 .. MaxNRB
    BY <1>1, <1>3, TransportBlockAssumption
  <2>2. blockSize(r, len) = getTBSFromNRB(r.nrb, len)
    BY <1>3, <2>1 DEF blockSize
  <2> QED BY <2>1, <2>2, SizeByNRB
<1> QED BY <1>2, <1>3

----------------------------------------------------------------------------
(* Sums over a sequence. *)

SummedUpto(sum, f, n) == sum = [k \in 0 .. n |-> IF k = 0 THEN 0 ELSE sum[k - 1] + f[k]]

LEMMA SumExists ==
  ASSUME NEW n \in Nat, NEW f, \A k \in 1 .. n : f[k] \in Nat
  PROVE  \E sum \in [0 .. n -> Nat] : SummedUpto(sum, f, n)
<1> DEFINE step == [k \in 1 .. n |-> [x \in Nat |-> x + f[k]]]
<1>1. PICK g : RecursiveUpto(g, n, 0, step)
  <2> HIDE DEF step
  <2> QED BY RecursionExists
<1>2. \A k \in 1 .. n : \A x \in Nat : step[k][x] \in Nat
  OBVIOUS
<1>3. g \in [0 .. n -> Nat]
  <2> HIDE DEF step
  <2> QED BY <1>1, <1>2, RecursionStaysIn
<1> DEFINE h == [k \in 0 .. n |-> IF k = 0 THEN 0 ELSE g[k - 1] + f[k]]
<1>4. ASSUME NEW k \in 0 .. n PROVE g[k] = h[k]
  <2>1. CASE k = 0
    <3>1. g[0] = 0
      <4> HIDE DEF step
      <4> QED BY <1>1 DEF RecursiveUpto
    <3> QED BY <2>1, <3>1
  <2>2. CASE k # 0
    <3>1. k \in 1 .. n /\ k - 1 \in 0 .. n
      BY <2>2
    <3>2. g[k] = step[k][g[k - 1]]
      <4> HIDE DEF step
      <4> QED BY <1>1, <2>2 DEF RecursiveUpto
    <3>3. g[k - 1] \in Nat
      BY <1>3, <3>1
    <3> QED BY <2>2, <3>1, <3>2, <3>3
  <2> QED BY <2>1, <2>2
<1>5. g = [k \in 0 .. n |-> g[k]] /\ h = [k \in 0 .. n |-> h[k]]
  BY <1>3
<1>6. g = h
  <2> HIDE DEF h
  <2> QED BY <1>4, <1>5
<1> QED BY <1>3, <1>6 DEF SummedUpto

\* A sum, term by term.
LEMMA ByteLengthUnfolds ==
  ASSUME NEW b, Len(b) \in Nat, \A k \in 1 .. Len(b) : Bytes(b[k]) \in Nat
  PROVE  \E sum : /\ ByteLength(b) = sum[Len(b)] /\ sum[0] = 0
                  /\ \A k \in 1 .. Len(b) : sum[k] = sum[k - 1] + Bytes(b[k])
<1> DEFINE n == Len(b)
           f == [k \in 1 .. n |-> Bytes(b[k])]
           sum[k \in 0 .. Len(b)] == IF k = 0 THEN 0 ELSE sum[k - 1] + Bytes(b[k])
<1>1. PICK g \in [0 .. n -> Nat] : SummedUpto(g, f, n)
  <2>1. n \in Nat /\ \A k \in 1 .. n : f[k] \in Nat
    OBVIOUS
  <2> HIDE DEF n, f
  <2> QED BY <2>1, SumExists
<1>2. g = [k \in 0 .. n |-> IF k = 0 THEN 0 ELSE g[k - 1] + Bytes(b[k])]
  <2>1. g = [k \in 0 .. n |-> IF k = 0 THEN 0 ELSE g[k - 1] + f[k]]
    <3> HIDE DEF f
    <3> QED BY <1>1 DEF SummedUpto
  <2>2. \A k \in 0 .. n : k # 0 => f[k] = Bytes(b[k])
    OBVIOUS
  <2> HIDE DEF f, n
  <2> QED BY <2>1, <2>2
<1>3. ByteLength(b) = sum[n]
  BY DEF ByteLength
<1>4. sum = [k \in 0 .. n |-> IF k = 0 THEN 0 ELSE sum[k - 1] + Bytes(b[k])]
  BY <1>2
<1> HIDE DEF sum
<1>5. sum[0] = 0
  BY <1>4
<1>6. ASSUME NEW k \in 1 .. n PROVE sum[k] = sum[k - 1] + Bytes(b[k])
  <2>1. k \in 0 .. n /\ k # 0
    OBVIOUS
  <2> HIDE DEF n
  <2> QED BY <1>4, <2>1
<1> QED BY <1>3, <1>5, <1>6

LEMMA HeadBytesUnfolds ==
  ASSUME NEW sdus, Len(sdus) \in Nat
  PROVE  \E sum : /\ HeadBytes(sdus) = sum[Len(sdus)] + 1 /\ sum[0] = 0
                  /\ \A k \in 1 .. Len(sdus) : sum[k] = sum[k - 1] + SubheaderBytes(sdus[k])
<1> DEFINE n == Len(sdus)
           f == [k \in 1 .. n |-> SubheaderBytes(sdus[k])]
           sum[k \in 0 .. Len(sdus)] == IF k = 0 THEN 0 ELSE sum[k - 1] + SubheaderBytes(sdus[k])
<1>1. PICK g \in [0 .. n -> Nat] : SummedUpto(g, f, n)
  <2>1. n \in Nat /\ \A k \in 1 .. n : f[k] \in Nat
    BY DEF SubheaderBytes
  <2> HIDE DEF n, f
  <2> QED BY <2>1, SumExists
<1>2. g = [k \in 0 .. n |-> IF k = 0 THEN 0 ELSE g[k - 1] + SubheaderBytes(sdus[k])]
  <2>1. g = [k \in 0 .. n |-> IF k = 0 THEN 0 ELSE g[k - 1] + f[k]]
    <3> HIDE DEF f
    <3> QED BY <1>1 DEF SummedUpto
  <2>2. \A k \in 0 .. n : k # 0 => f[k] = SubheaderBytes(sdus[k])
    OBVIOUS
  <2> HIDE DEF f, n
  <2> QED BY <2>1, <2>2
<1>3. HeadBytes(sdus) = sum[n] + 1
  BY DEF HeadBytes
<1>4. sum = [k \in 0 .. n |-> IF k = 0 THEN 0 ELSE sum[k - 1] + SubheaderBytes(sdus[k])]
  BY <1>2
<1> HIDE DEF sum
<1>5. sum[0] = 0
  BY <1>4
<1>6. ASSUME NEW k \in 1 .. n PROVE sum[k] = sum[k - 1] + SubheaderBytes(sdus[k])
  <2>1. k \in 0 .. n /\ k # 0
    OBVIOUS
  <2> HIDE DEF n
  <2> QED BY <1>4, <2>1
<1> QED BY <1>3, <1>5, <1>6

\* In a block that is large enough every SDU is complete.
LEMMA BlockTakesAll ==
  ASSUME NEW sdus, Sequence(sdus), NEW size \in Nat,
         HeadBytes(sdus) \in Nat, ByteLength(Bodies(sdus)) \in Nat,
         HeadBytes(sdus) + ByteLength(Bodies(sdus)) <= size
  PROVE  InBlock(sdus, size).body = Bodies(sdus)
<1> DEFINE n == Len(sdus)
           cost(m) == HeadBytes(sdus) + ByteLength(Bodies(SubSeq(sdus, 1, m)))
           fits(m) == m = 0 \/ cost(m) <= size
           OK(m) == fits(m) /\ \A k \in m + 1 .. n : ~ fits(k)
<1>1. n \in Nat
  BY DEF Sequence
<1>2. SubSeq(sdus, 1, n) = sdus
  <2> DEFINE T == {sdus[i] : i \in 1 .. Len(sdus)}
  <2>1. sdus \in Seq(T)
    BY SequenceIsSeq
  <2> HIDE DEF T
  <2> QED BY <2>1
<1>3. fits(n)
  <2> DEFINE x == HeadBytes(sdus)
             y == ByteLength(Bodies(sdus))
  <2>1. cost(n) = x + y
    BY <1>2
  <2>2. x \in Nat /\ y \in Nat /\ x + y <= size
    OBVIOUS
  <2> HIDE DEF x, y, cost
  <2> QED BY <2>1, <2>2
<1>4. Complete(sdus, size) = CHOOSE m \in 0 .. n : OK(m)
  BY DEF Complete
<1> HIDE DEF fits, n
<1>5. OK(n) /\ n \in 0 .. n
  <2>1. n + 1 .. n = {}
    BY <1>1
  <2> QED BY <1>1, <1>3, <2>1
<1>6. ASSUME NEW m \in 0 .. n, OK(m) PROVE m = n
  <2>1. SUFFICES ASSUME m # n PROVE FALSE
    OBVIOUS
  <2>2. n \in m + 1 .. n
    BY <1>1, <2>1
  <2> QED BY <1>3, <1>6, <2>2
<1> HIDE DEF OK
<1>7. Complete(sdus, size) = n
  BY <1>4, <1>5, <1>6
<1> DEFINE body == Bodies(SubSeq(sdus, 1, Complete(sdus, size)))
<1>8. body = Bodies(sdus)
  BY <1>2, <1>7
<1>9. InBlock(sdus, size) = [mac_encode(sdus) EXCEPT !.body = body]
  BY DEF InBlock
<1> HIDE DEF body
<1>10. \E x, y : mac_encode(sdus) = [head |-> x, body |-> y]
  BY DEF mac_encode
<1>11. PICK x, y : mac_encode(sdus) = [head |-> x, body |-> y]
  BY <1>10
<1>12. InBlock(sdus, size) = [head |-> x, body |-> body]
  BY <1>9, <1>11
<1> QED BY <1>8, <1>12

Sub(sdu) == [lcid |-> sdu.lcid, e |-> 1, length |-> Len(sdu.bytes)]

LEMMA HeadOfBlock ==
  ASSUME NEW sdus, Sequence(sdus), NEW size
  PROVE  LET head == InBlock(sdus, size).head
             n == Len(sdus)
         IN  sdus # << >> =>
               /\ Len(head) = n + 1 /\ n \in Nat \ {0}
               /\ \A k \in 1 .. n : head[k] = Sub(sdus[k])
               /\ head[n + 1] = [lcid |-> Padding, e |-> 0, length |-> 0]
<1> SUFFICES ASSUME sdus # << >>
             PROVE  LET h == InBlock(sdus, size).head
                        n == Len(sdus)
                    IN  /\ Len(h) = n + 1 /\ n \in Nat \ {0}
                        /\ \A k \in 1 .. n : h[k] = Sub(sdus[k])
                        /\ h[n + 1] = [lcid |-> Padding, e |-> 0, length |-> 0]
  OBVIOUS
<1> DEFINE sub(k) == Sub(sdus[k])
           head == [k \in 1 .. Len(sdus) |-> sub(k)]
           padding == [lcid |-> Padding, e |-> 0, length |-> 0]
           T == {sub(k) : k \in 1 .. Len(sdus)} \union {padding}
           body == Bodies(SubSeq(sdus, 1, Complete(sdus, size)))
<1>1. Len(sdus) \in Nat \ {0}
  BY TailSequence
<1>2. mac_encode(sdus) = [head |-> head \o << padding >>, body |-> Bodies(sdus)]
  BY DEF mac_encode, Sub
<1>3. InBlock(sdus, size).head = head \o << padding >>
  <2> HIDE DEF head, padding, body
  <2>1. InBlock(sdus, size) = [mac_encode(sdus) EXCEPT !.body = body]
    BY DEF InBlock, body
  <2> QED BY <1>2, <2>1
<1> DEFINE last == << padding >>
<1>4. /\ head \in Seq(T) /\ Len(head) = Len(sdus) /\ \A k \in 1 .. Len(sdus) : head[k] = sub(k)
      /\ last \in Seq(T) /\ Len(last) = 1 /\ last[1] = padding
  <2>1. padding \in T /\ \A k \in 1 .. Len(sdus) : sub(k) \in T
    OBVIOUS
  <2> HIDE DEF T, sub, padding
  <2> QED BY <1>1, <2>1
<1> HIDE DEF head, last, T
<1> DEFINE n == Len(sdus)
           cat == head \o last
<1>5. /\ Len(cat) = n + 1
      /\ \A k \in 1 .. n : cat[k] = sub(k)
      /\ cat[n + 1] = padding
  <2>1. /\ Len(cat) = Len(head) + Len(last)
        /\ \A i \in 1 .. Len(head) + Len(last) :
             cat[i] = IF i <= Len(head) THEN head[i] ELSE last[i - Len(head)]
    BY <1>4, ConcatProperties
  <2>2. n \in Nat /\ Len(head) = n
    BY <1>1, <1>4
  <2> HIDE DEF cat, n, sub, padding
  <2>3. Len(cat) = n + 1
    BY <1>4, <2>1, <2>2
  <2>4. ASSUME NEW k \in 1 .. n PROVE cat[k] = sub(k)
    <3>1. k \in 1 .. n + 1 /\ k <= n
      BY <2>2
    <3>2. cat[k] = head[k]
      BY <1>4, <2>1, <2>2, <3>1
    <3> QED BY <1>4, <3>2 DEF n
  <2>5. cat[n + 1] = last[1]
    <3>1. n + 1 \in 1 .. n + 1 /\ ~ (n + 1 <= n) /\ (n + 1) - n = 1
      BY <2>2
    <3> QED BY <1>4, <2>1, <2>2, <3>1
  <2> QED BY <1>4, <2>3, <2>4, <2>5
<1> HIDE DEF cat
<1> QED BY <1>1, <1>3, <1>5 DEF last, cat

\* The parts of channel 3 lie in the block.
Fits(pdu) ==
  \A k \in 1 .. Len(pdu.head) :
    pdu.head[k].lcid = 3 =>
      Len(pdu.body) >= Starts(pdu.head)[k] + pdu.head[k].length

LEMMA OthersFit ==
  ASSUME NEW sdus, Sequence(sdus), sdus # << >>, \A k \in 1 .. Len(sdus) : sdus[k].lcid # 3,
         NEW size
  PROVE  Fits(InBlock(sdus, size))
<1> DEFINE pdu == InBlock(sdus, size)
           n == Len(sdus)
<1>1. /\ Len(pdu.head) = n + 1 /\ n \in Nat \ {0}
      /\ \A k \in 1 .. n : pdu.head[k] = Sub(sdus[k])
      /\ pdu.head[n + 1] = [lcid |-> Padding, e |-> 0, length |-> 0]
  BY HeadOfBlock
<1> HIDE DEF pdu
<1>2. /\ \A k \in 1 .. n : pdu.head[k].lcid # 3
      /\ pdu.head[n + 1].lcid # 3
  <2>1. pdu.head[n + 1].lcid = 31
    BY <1>1 DEF Padding
  <2>2. ASSUME NEW k \in 1 .. n PROVE pdu.head[k].lcid # 3
    <3>1. pdu.head[k] = Sub(sdus[k])
      BY <1>1
    <3>2. Sub(sdus[k]).lcid = sdus[k].lcid
      BY DEF Sub
    <3> QED BY <3>1, <3>2
  <2> QED BY <2>1, <2>2
<1> HIDE DEF n
<1>3. \A k \in 1 .. Len(pdu.head) : k \in 1 .. n \/ k = n + 1
  BY <1>1
<1> QED BY <1>2, <1>3 DEF Fits, pdu

\* In a block that takes all, the length of every part counts its units.
LEMMA WholeBlockFits ==
  ASSUME NEW S, NEW sdus, Sequence(sdus), sdus # << >>, HoldUnits(sdus, S),
         \A k \in 1 .. Len(sdus) : GivenLength(Sub(sdus[k])) = Len(sdus[k].bytes),
         NEW size, InBlock(sdus, size).body = Bodies(sdus)
  PROVE  Fits(InBlock(sdus, size))
<1> DEFINE pdu == InBlock(sdus, size)
           n == Len(sdus)
           start == Starts(pdu.head)
<1>1. /\ Len(pdu.head) = n + 1 /\ n \in Nat \ {0}
      /\ \A k \in 1 .. n : pdu.head[k] = Sub(sdus[k])
      /\ pdu.head[n + 1] = [lcid |-> Padding, e |-> 0, length |-> 0]
  BY HeadOfBlock
<1>2. PICK cat \in [0 .. n -> Seq(S)] :
        /\ cat[0] = << >> /\ Bodies(sdus) = cat[n]
        /\ \A k \in 1 .. n : /\ Len(cat[k]) = Len(cat[k - 1]) + Len(sdus[k].bytes)
                             /\ Len(cat[k]) <= Len(cat[n])
  <2>1. PICK cat : FoundIn(cat, sdus, S)
    BY BodiesFound
  <2>2. /\ cat \in [0 .. n -> Seq(S)] /\ cat[0] = << >> /\ Bodies(sdus) = cat[n]
        /\ \A k \in 1 .. n : /\ Len(cat[k]) = Len(cat[k - 1]) + Len(sdus[k].bytes)
                             /\ Len(cat[k]) <= Len(cat[n])
    BY <2>1 DEF FoundIn
  <2> QED BY <2>2
<1>3. \A k \in 1 .. n : GivenLength(pdu.head[k]) = Len(sdus[k].bytes)
                        /\ Len(sdus[k].bytes) \in Nat
  <2>1. \A k \in 1 .. n : Len(sdus[k].bytes) \in Nat
    BY DEF HoldUnits
  <2> HIDE DEF pdu
  <2> QED BY <1>1, <2>1
<1>5. pdu.body = cat[n]
  BY <1>2
<1> HIDE DEF pdu
<1>4. pdu.head[n + 1].lcid # 3 /\ \A k \in 1 .. n : pdu.head[k].length = Len(sdus[k].bytes)
  <2>1. pdu.head[n + 1].lcid = 31
    BY <1>1 DEF Padding
  <2>2. ASSUME NEW k \in 1 .. n PROVE pdu.head[k].length = Len(sdus[k].bytes)
    <3>1. pdu.head[k] = Sub(sdus[k])
      BY <1>1
    <3>2. Sub(sdus[k]).length = Len(sdus[k].bytes)
      BY DEF Sub
    <3> QED BY <3>1, <3>2
  <2> QED BY <2>1, <2>2
<1>6. start[1] = 0 /\ \A k \in 1 .. n : start[k + 1] = start[k] + Len(sdus[k].bytes)
  <2>1. Len(pdu.head) \in Nat \ {0} /\ Len(pdu.head) - 1 = n
    BY <1>1
  <2>2. \A k \in 1 .. Len(pdu.head) - 1 : GivenLength(pdu.head[k]) \in Nat
    BY <1>3, <2>1
  <2>3. /\ start[1] = 0
        /\ \A k \in 1 .. Len(pdu.head) - 1 : start[k + 1] = start[k] + GivenLength(pdu.head[k])
    BY <2>1, <2>2, StartsUnfold
  <2> HIDE DEF start, n
  <2> QED BY <1>3, <2>1, <2>3
<1>6a. \A k \in 0 .. n : Len(cat[k]) \in Nat
  BY <1>2
<1>7. \A k \in 0 .. n : start[k + 1] = Len(cat[k])
  <2> DEFINE P == {k \in 0 .. n : start[k + 1] = Len(cat[k])}
  <2>1. 0 \in P
    <3>1. start[0 + 1] = Len(cat[0]) /\ 0 \in 0 .. n
      BY <1>1, <1>2, <1>6
    <3> QED BY <3>1
  <2>2. ASSUME NEW k \in 1 .. n, k - 1 \in P PROVE k \in P
    <3>1. start[(k - 1) + 1] = Len(cat[k - 1]) /\ (k - 1) + 1 = k
      BY <1>1, <2>2
    <3>2. start[k + 1] = start[k] + Len(sdus[k].bytes)
      BY <1>6
    <3>3. Len(cat[k]) = Len(cat[k - 1]) + Len(sdus[k].bytes) /\ k \in 0 .. n
      <4>1. k \in 0 .. n
        BY <1>1
      <4> HIDE DEF n
      <4> QED BY <1>2, <4>1
    <3> HIDE DEF start, n
    <3> QED BY <3>1, <3>2, <3>3
  <2>3. 0 .. n \subseteq P
    <3>1. n \in Nat
      BY <1>1
    <3> HIDE DEF P, n
    <3> QED BY <2>1, <2>2, <3>1, IntervalInduction
  <2> QED BY <2>3
<1>8. ASSUME NEW k \in 1 .. n
      PROVE  Len(pdu.body) >= start[k] + pdu.head[k].length
  <2>1. k - 1 \in 0 .. n /\ (k - 1) + 1 = k
    BY <1>1
  <2>2. start[k] = Len(cat[k - 1])
    <3> HIDE DEF start, n
    <3> QED BY <1>7, <2>1
  <2>3. /\ Len(cat[k]) = Len(cat[k - 1]) + Len(sdus[k].bytes) /\ Len(cat[k]) <= Len(cat[n])
        /\ Len(cat[k - 1]) \in Nat /\ Len(cat[n]) \in Nat /\ Len(sdus[k].bytes) \in Nat
    <3>1. n \in 0 .. n
      BY <1>1
    <3> QED BY <1>2, <1>3, <1>6a, <2>1, <3>1
  <2>4. pdu.head[k].length = Len(sdus[k].bytes)
    BY <1>4
  <2> HIDE DEF start, n
  <2> QED BY <1>5, <2>2, <2>3, <2>4
<1>9. \A k \in 1 .. Len(pdu.head) : k \in 1 .. n \/ k = n + 1
  BY <1>1
<1> HIDE DEF n
<1> QED BY <1>4, <1>8, <1>9 DEF Fits, pdu

----------------------------------------------------------------------------
(* The bytes of what goes down. *)

DataHeader(n) ==
  [kind |-> "rlc", dc |-> "data", p |-> FALSE, e |-> 0, first |-> TRUE, last |-> TRUE,
   sn |-> n]

NetUnit(n) == [kind |-> "net", size |-> n]
MsgUnit(type, id) == [kind |-> "msg", type |-> type, id |-> id, k |-> 1]

\* An SDU of one unit on channel 3, with its headers.
ThreeSdu(n, u) == [lcid |-> 3, bytes |-> << DataHeader(n), PdcpData, u >>]

LEMMA BytesOfUnits ==
  /\ \A n : Bytes(DataHeader(n)) = 1 /\ Bytes(NetUnit(n)) = n
  /\ Bytes(PdcpData) = 1
  /\ \A id : /\ Bytes(MsgUnit("request", id)) = 6 /\ Bytes(MsgUnit("setup", id)) = 8
             /\ Bytes(MsgUnit("reply", id)) = 1
<1>1. \A n : Bytes(DataHeader(n)) = 1
  BY DEF Bytes, DataHeader
<1>2. \A n : Bytes(NetUnit(n)) = n
  BY DEF Bytes, NetUnit
<1>3. Bytes(PdcpData) = 1
  BY DEF Bytes, PdcpData
<1>4. /\ DOMAIN AnswerBytes = {"setup", "identityRequest", "authenticationRequest",
           "nasSecurityCommand", "rrcSecurityCommand", "reconfiguration", "detachAccept", "release"}
      /\ AnswerBytes["setup"] = 8
  BY DEF AnswerBytes
<1>5. ASSUME NEW id
      PROVE  /\ Bytes(MsgUnit("request", id)) = 6 /\ Bytes(MsgUnit("setup", id)) = 8
             /\ Bytes(MsgUnit("reply", id)) = 1
  <2>1. \A type : MsgUnit(type, id).kind = "msg" /\ MsgUnit(type, id).type = type
    BY DEF MsgUnit
  <2>2. Bytes(MsgUnit("setup", id)) = 8
    BY <1>4, <2>1 DEF Bytes
  <2>3. Bytes(MsgUnit("request", id)) = 6
    BY <1>4, <2>1 DEF Bytes
  <2>4. Bytes(MsgUnit("reply", id)) = 1
    BY <1>4, <2>1 DEF Bytes
  <2> QED BY <2>2, <2>3, <2>4
<1> QED BY <1>1, <1>2, <1>3, <1>5

\* Short sequences, one behind the other.
LEMMA OneAndOne ==
  ASSUME NEW a, NEW b
  PROVE  << a >> \o << b >> = << a, b >>
<1> DEFINE S == {a, b}
           u == << a >>
           v == << b >>
           w == << a, b >>
<1>1. /\ u \in Seq(S) /\ Len(u) = 1 /\ u[1] = a
      /\ v \in Seq(S) /\ Len(v) = 1 /\ v[1] = b
      /\ w \in Seq(S) /\ Len(w) = 2 /\ w[1] = a /\ w[2] = b
  OBVIOUS
<1> HIDE DEF S, u, v, w
<1> DEFINE z == u \o v
<1>2. /\ z \in Seq(S) /\ Len(z) = Len(u) + Len(v)
      /\ \A i \in 1 .. Len(u) + Len(v) : z[i] = IF i <= Len(u) THEN u[i] ELSE v[i - Len(u)]
  BY <1>1, ConcatProperties
<1> HIDE DEF z
<1>3. z \in Seq(S) /\ Len(z) = 2 /\ z[1] = u[1] /\ z[2] = v[1]
  <2>1. \A i \in 1 .. 2 : z[i] = IF i <= 1 THEN u[i] ELSE v[i - 1]
    BY <1>1, <1>2
  <2>2. z[1] = u[1] /\ z[2] = v[2 - 1]
    BY <2>1
  <2> QED BY <1>1, <1>2, <2>2
<1>4. \A i \in 1 .. 2 : i = 1 \/ i = 2
  OBVIOUS
<1>5. z = w
  <2>1. \A i \in 1 .. 2 : z[i] = w[i]
    BY <1>1, <1>3, <1>4
  <2> QED BY <1>1, <1>3, <2>1, SeqEqual
<1> QED BY <1>5 DEF u, v, w, z

LEMMA OneAndTwo ==
  ASSUME NEW a, NEW b, NEW c
  PROVE  << a >> \o << b, c >> = << a, b, c >>
<1> DEFINE S == {a, b, c}
           u == << a >>
           v == << b, c >>
           w == << a, b, c >>
<1>1. /\ u \in Seq(S) /\ Len(u) = 1 /\ u[1] = a
      /\ v \in Seq(S) /\ Len(v) = 2 /\ v[1] = b /\ v[2] = c
      /\ w \in Seq(S) /\ Len(w) = 3 /\ w[1] = a /\ w[2] = b /\ w[3] = c
  OBVIOUS
<1> HIDE DEF S, u, v, w
<1>2. /\ u \o v \in Seq(S) /\ Len(u \o v) = Len(u) + Len(v)
      /\ \A i \in 1 .. Len(u) + Len(v) : (u \o v)[i] = IF i <= Len(u) THEN u[i] ELSE v[i - Len(u)]
  BY <1>1, ConcatProperties
<1> DEFINE z == u \o v
<1> HIDE DEF z
<1>2a. z \in Seq(S) /\ Len(z) = 3 /\ z[1] = u[1] /\ z[2] = v[1] /\ z[3] = v[2]
  <2>1. \A i \in 1 .. 3 : z[i] = IF i <= 1 THEN u[i] ELSE v[i - 1]
    BY <1>1, <1>2 DEF z
  <2>2. z[1] = u[1] /\ z[2] = v[2 - 1] /\ z[3] = v[3 - 1]
    BY <2>1
  <2> QED BY <1>1, <1>2, <2>2 DEF z
<1>4. \A i \in 1 .. 3 : i = 1 \/ i = 2 \/ i = 3
  OBVIOUS
<1>5. z = w
  <2>1. \A i \in 1 .. 3 : z[i] = w[i]
    BY <1>1, <1>2a, <1>4
  <2> QED BY <1>1, <1>2a, <2>1, SeqEqual
<1> QED BY <1>5 DEF u, v, w, z

LEMMA ThreeEncoded ==
  ASSUME NEW n, NEW u
  PROVE  rlc_encode(3, n, pdcp_encode(3, << u >>)) = << DataHeader(n), PdcpData, u >>
<1>1. 3 \notin AM /\ 3 # 0 /\ ~ (3 >= 28)
  BY DEF AM
<1> DEFINE d == PdcpData
           h == DataHeader(n)
           t == << d, u >>
<1>2. pdcp_encode(3, << u >>) = << d >> \o << u >>
  BY <1>1 DEF pdcp_encode
<1>3. << d >> \o << u >> = t
  <2> HIDE DEF d
  <2> QED BY OneAndOne
<1>4. rlc_encode(3, n, t) = << h >> \o t
  <2> DEFINE p == 3 \in AM
  <2>1. p = FALSE
    BY <1>1
  <2> HIDE DEF p
  <2>2. h = [kind |-> "rlc", dc |-> "data", p |-> p, e |-> 0, first |-> TRUE, last |-> TRUE,
             sn |-> n]
    BY <2>1 DEF DataHeader
  <2> HIDE DEF h, t
  <2>3. rlc_encode(3, n, t) = << [kind |-> "rlc", dc |-> "data", p |-> p, e |-> 0, first |-> TRUE,
                                  last |-> TRUE, sn |-> n] >> \o t
    BY <1>1 DEF rlc_encode, p
  <2> QED BY <2>2, <2>3
<1> HIDE DEF d, h
<1>5. << h >> \o t = << h, d, u >>
  BY OneAndTwo
<1> HIDE DEF t
<1> QED BY <1>2, <1>3, <1>4, <1>5 DEF h, d

LEMMA SubheaderSmall ==
  ASSUME NEW sdu
  PROVE  SubheaderBytes(sdu) \in 1 .. 3
BY DEF SubheaderBytes

\* A unit with the headers of channel 3, alone in a block.
LEMMA OneThreeFits ==
  ASSUME NEW m, NEW u, NEW n \in Nat, Bytes(u) = n
  PROVE  LET sdus == << ThreeSdu(m, u) >>
             len == HeadBytes(sdus) + ByteLength(Bodies(sdus))
         IN  /\ len \in Nat /\ len <= n + 6
             /\ \A size \in Nat : len <= size => Fits(InBlock(sdus, size))
<1> DEFINE x == ThreeSdu(m, u)
           h == DataHeader(m)
           S == {h, PdcpData, u}
           b == x.bytes
           sdus == << x >>
<1>2. x.lcid = 3 /\ b = << h, PdcpData, u >>
  BY DEF ThreeSdu
<1>3. Bytes(h) = 1 /\ Bytes(PdcpData) = 1
  BY BytesOfUnits
<1> HIDE DEF h
<1>4. b \in Seq(S) /\ Len(b) = 3 /\ b[1] = h /\ b[2] = PdcpData /\ b[3] = u
  <2> DEFINE d == PdcpData
  <2>1. b = << h, d, u >> /\ S = {h, d, u}
    BY <1>2
  <2> HIDE DEF d, b, S
  <2>2. b \in Seq(S) /\ Len(b) = 3 /\ b[1] = h /\ b[2] = d /\ b[3] = u
    BY <2>1
  <2> QED BY <2>2 DEF d
<1> HIDE DEF S
<1>5. Len(sdus) = 1 /\ sdus[1] = x /\ sdus # << >> /\ Sequence(sdus)
  <2> HIDE DEF x
  <2> QED BY OneIsSequence
<1> HIDE DEF sdus, x
<1>6. HoldUnits(sdus, S)
  <2>1. \A k \in 1 .. 1 : k = 1
    OBVIOUS
  <2> QED BY <1>4, <1>5, <2>1 DEF HoldUnits
<1>7. Bodies(sdus) = b
  <2>1. PICK cat \in [0 .. Len(sdus) -> Seq(S)] :
          Concatenated(cat, sdus) /\ Bodies(sdus) = cat[Len(sdus)]
    BY <1>6, BodiesUnfold
  <2>2. cat[1] = cat[1 - 1] \o sdus[1].bytes /\ cat[0] = << >>
    BY <1>5, <2>1 DEF Concatenated
  <2>3. << >> \o b = b
    BY <1>4
  <2>4. cat[1] = << >> \o b
    <3>1. 1 - 1 = 0 /\ sdus[1].bytes = b
      BY <1>5
    <3> HIDE DEF b
    <3> QED BY <2>2, <3>1
  <2> HIDE DEF b
  <2> QED BY <1>5, <2>1, <2>3, <2>4
<1>8. ByteLength(b) = n + 2
  <2>1. \A k \in 1 .. Len(b) : Bytes(b[k]) \in Nat
    <3>1. \A k \in 1 .. 3 : k = 1 \/ k = 2 \/ k = 3
      OBVIOUS
    <3>2. Bytes(b[1]) \in Nat /\ Bytes(b[2]) \in Nat /\ Bytes(b[3]) \in Nat
      BY <1>3, <1>4
    <3> HIDE DEF b
    <3> QED BY <1>4, <3>1, <3>2
  <2> HIDE DEF b
  <2>2. Len(b) \in Nat
    BY <1>4
  <2>2a. PICK sum : /\ ByteLength(b) = sum[Len(b)] /\ sum[0] = 0
                    /\ \A k \in 1 .. Len(b) : sum[k] = sum[k - 1] + Bytes(b[k])
    BY <2>1, <2>2, ByteLengthUnfolds
  <2>3. /\ sum[1] = sum[1 - 1] + Bytes(b[1]) /\ sum[2] = sum[2 - 1] + Bytes(b[2])
        /\ sum[3] = sum[3 - 1] + Bytes(b[3])
    <3>1. 1 \in 1 .. Len(b) /\ 2 \in 1 .. Len(b) /\ 3 \in 1 .. Len(b)
      BY <1>4
    <3> QED BY <2>2a, <3>1
  <2>4. sum[1] = 0 + 1 /\ sum[2] = sum[1] + 1 /\ sum[3] = sum[2] + n
    BY <1>3, <1>4, <2>2a, <2>3
  <2> QED BY <1>4, <2>2a, <2>4
<1>9. HeadBytes(sdus) \in 2 .. 4
  <2>1. PICK sum : /\ HeadBytes(sdus) = sum[Len(sdus)] + 1 /\ sum[0] = 0
                   /\ \A k \in 1 .. Len(sdus) : sum[k] = sum[k - 1] + SubheaderBytes(sdus[k])
    <3>1. Len(sdus) \in Nat
      BY <1>5
    <3> QED BY <3>1, HeadBytesUnfolds
  <2>2. sum[1] = sum[1 - 1] + SubheaderBytes(sdus[1])
    BY <1>5, <2>1
  <2>3. SubheaderBytes(sdus[1]) \in 1 .. 3
    BY SubheaderSmall
  <2> QED BY <1>5, <2>1, <2>2, <2>3
<1> DEFINE len == HeadBytes(sdus) + ByteLength(Bodies(sdus))
<1>9a. HeadBytes(sdus) \in Nat /\ ByteLength(Bodies(sdus)) \in Nat
  BY <1>7, <1>8, <1>9
<1>10. len \in Nat /\ len <= n + 6
  <2> DEFINE y == HeadBytes(sdus)
             z == ByteLength(Bodies(sdus))
  <2>1. y \in 2 .. 4 /\ z = n + 2
    BY <1>7, <1>8, <1>9
  <2> HIDE DEF y, z
  <2>2. y + z \in Nat /\ y + z <= n + 6
    BY <2>1
  <2> QED BY <2>2 DEF y, z
<1>11. ASSUME NEW size \in Nat, len <= size PROVE Fits(InBlock(sdus, size))
  <2>2. InBlock(sdus, size).body = Bodies(sdus)
    BY <1>5, <1>9a, <1>11, BlockTakesAll
  <2>3. \A k \in 1 .. Len(sdus) : GivenLength(Sub(sdus[k])) = Len(sdus[k].bytes)
    <3>1. Sub(x).lcid = 3 /\ Sub(x).length = Len(x.bytes)
      BY <1>2 DEF Sub
    <3>2. GivenLength(Sub(x)) = Len(x.bytes)
      BY <3>1 DEF GivenLength, Padding, lcid_length
    <3>3. \A k \in 1 .. 1 : k = 1
      OBVIOUS
    <3> QED BY <1>5, <3>2, <3>3
  <2> HIDE DEF len
  <2> QED BY <1>5, <1>6, <2>2, <2>3, WholeBlockFits
<1> HIDE DEF len
<1>12. /\ len \in Nat /\ len <= n + 6
       /\ \A size \in Nat : len <= size => Fits(InBlock(sdus, size))
  BY <1>10, <1>11
<1> QED BY <1>12 DEF len, sdus, x

\* What a packet of the network takes.
LEMMA PacketFits ==
  ASSUME NEW n \in Nat
  PROVE  LET sdus == mac_tx_get_IP_packets(n)
             len == HeadBytes(sdus) + ByteLength(Bodies(sdus))
         IN  /\ len \in Nat /\ len <= n + 6
             /\ \A size \in Nat : len <= size => Fits(InBlock(sdus, size))
<1>1. mac_tx_get_IP_packets(n) = << ThreeSdu(rlc_tx_sn[3], NetUnit(n)) >>
  <2>1. mac_tx_get_IP_packets(n)
          = << [lcid |-> 3, bytes |-> rlc_encode(3, rlc_tx_sn[3], pdcp_encode(3, << NetUnit(n) >>))] >>
    BY DEF mac_tx_get_IP_packets, NetUnit
  <2> QED BY <2>1, ThreeEncoded DEF ThreeSdu
<1>2. Bytes(NetUnit(n)) = n
  BY BytesOfUnits
<1> QED BY <1>1, <1>2, OneThreeFits

Echo(id) == [lcid |-> 28, bytes |-> << MsgUnit("request", id) >>]
Setup(id) == [lcid |-> 0, bytes |-> << MsgUnit("setup", id) >>]
Reply(m) == ThreeSdu(m, MsgUnit("reply", 0))

AllAnswers(sdus, id, m) ==
  /\ Sequence(sdus) /\ Len(sdus) = 3
  /\ sdus[1] = Echo(id) /\ sdus[2] = Setup(id) /\ sdus[3] = Reply(m)

\* The answers to a request and to a test packet fit in one block.
LEMMA AnswersFit ==
  ASSUME NEW sdus, NEW id, NEW m, AllAnswers(sdus, id, m), NEW size \in Nat, size >= 27
  PROVE  Fits(InBlock(sdus, size))
<1> DEFINE e == MsgUnit("request", id)
           t == MsgUnit("setup", id)
           h == DataHeader(m)
           d == PdcpData
           r == MsgUnit("reply", 0)
           S == {e, t, h, d, r}
<1>0. Sequence(sdus) /\ Len(sdus) = 3
  BY DEF AllAnswers
<1>1. /\ Bytes(e) = 6 /\ Bytes(t) = 8 /\ Bytes(h) = 1 /\ Bytes(d) = 1 /\ Bytes(r) = 1
  BY BytesOfUnits
<1>2. /\ sdus[1].lcid = 28 /\ sdus[1].bytes = << e >>
      /\ sdus[2].lcid = 0 /\ sdus[2].bytes = << t >>
      /\ sdus[3].lcid = 3 /\ sdus[3].bytes = << h, d, r >>
  BY DEF AllAnswers, Echo, Setup, Reply, ThreeSdu
<1> HIDE DEF e, t, h, d, r
<1>3. /\ << e >> \in Seq(S) /\ Len(<< e >>) = 1 /\ << e >>[1] = e
      /\ << t >> \in Seq(S) /\ Len(<< t >>) = 1 /\ << t >>[1] = t
      /\ << h, d, r >> \in Seq(S) /\ Len(<< h, d, r >>) = 3
      /\ << h, d, r >>[1] = h /\ << h, d, r >>[2] = d /\ << h, d, r >>[3] = r
  OBVIOUS
<1> HIDE DEF S
<1>4. /\ sdus[1].bytes \in Seq(S) /\ Len(sdus[1].bytes) = 1 /\ sdus[1].bytes[1] = e
      /\ sdus[2].bytes \in Seq(S) /\ Len(sdus[2].bytes) = 1 /\ sdus[2].bytes[1] = t
      /\ sdus[3].bytes \in Seq(S) /\ Len(sdus[3].bytes) = 3
      /\ sdus[3].bytes[1] = h /\ sdus[3].bytes[2] = d /\ sdus[3].bytes[3] = r
  BY <1>2, <1>3
<1>5. \A k \in 1 .. 3 : k = 1 \/ k = 2 \/ k = 3
  OBVIOUS
<1>6. HoldUnits(sdus, S)
  <2>1. \A k \in 1 .. 3 : sdus[k].bytes \in Seq(S)
    BY <1>4, <1>5
  <2> QED BY <1>0, <2>1 DEF HoldUnits
<1>7a. PICK cat : FoundIn(cat, sdus, S)
  BY <1>6, BodiesFound
<1>7. /\ cat[0] = << >> /\ Bodies(sdus) = cat[3]
      /\ \A k \in 1 .. 3 :
           /\ Len(cat[k]) = Len(cat[k - 1]) + Len(sdus[k].bytes)
           /\ \A i \in 1 .. Len(sdus[k].bytes) :
                cat[3][Len(cat[k - 1]) + i] = sdus[k].bytes[i]
  <2>1. Len(sdus) = 3
    BY <1>0
  <2> QED BY <1>7a, <2>1 DEF FoundIn
<1>8. Len(cat[0]) = 0 /\ Len(cat[1]) = 1 /\ Len(cat[2]) = 2 /\ Len(cat[3]) = 5
  <2>1. /\ Len(cat[1]) = Len(cat[1 - 1]) + Len(sdus[1].bytes)
        /\ Len(cat[2]) = Len(cat[2 - 1]) + Len(sdus[2].bytes)
        /\ Len(cat[3]) = Len(cat[3 - 1]) + Len(sdus[3].bytes)
    <3>1. 1 \in 1 .. 3 /\ 2 \in 1 .. 3 /\ 3 \in 1 .. 3
      OBVIOUS
    <3> QED BY <1>7, <3>1
  <2>2. Len(cat[0]) = 0
    BY <1>7
  <2> QED BY <1>4, <2>1, <2>2
<1> DEFINE b == Bodies(sdus)
<1>9. /\ Len(b) = 5 /\ b[1] = e /\ b[2] = t /\ b[3] = h /\ b[4] = d /\ b[5] = r
  <2>1. /\ cat[3][Len(cat[1 - 1]) + 1] = sdus[1].bytes[1]
        /\ cat[3][Len(cat[2 - 1]) + 1] = sdus[2].bytes[1]
        /\ cat[3][Len(cat[3 - 1]) + 1] = sdus[3].bytes[1]
        /\ cat[3][Len(cat[3 - 1]) + 2] = sdus[3].bytes[2]
        /\ cat[3][Len(cat[3 - 1]) + 3] = sdus[3].bytes[3]
    <3>1. /\ 1 \in 1 .. Len(sdus[1].bytes) /\ 1 \in 1 .. Len(sdus[2].bytes)
          /\ 1 \in 1 .. Len(sdus[3].bytes) /\ 2 \in 1 .. Len(sdus[3].bytes)
          /\ 3 \in 1 .. Len(sdus[3].bytes)
      BY <1>4
    <3> QED BY <1>7, <3>1
  <2>2. /\ Len(cat[1 - 1]) + 1 = 1 /\ Len(cat[2 - 1]) + 1 = 2 /\ Len(cat[3 - 1]) + 1 = 3
        /\ Len(cat[3 - 1]) + 2 = 4 /\ Len(cat[3 - 1]) + 3 = 5
    <3>1. 1 - 1 = 0 /\ 2 - 1 = 1 /\ 3 - 1 = 2
      OBVIOUS
    <3>2. /\ Len(cat[1 - 1]) = 0 /\ Len(cat[2 - 1]) = 1 /\ Len(cat[3 - 1]) = 2
      BY <1>8, <3>1
    <3> QED BY <3>2
  <2>3. Bodies(sdus) = cat[3]
    BY <1>7
  <2>4. cat[3][1] = e /\ cat[3][2] = t /\ cat[3][3] = h /\ cat[3][4] = d /\ cat[3][5] = r
    BY <1>4, <2>1, <2>2
  <2> QED BY <1>8, <2>3, <2>4, Zenon
<1> HIDE DEF b
<1>10. ByteLength(b) = 17
  <2>1. \A k \in 1 .. Len(b) : Bytes(b[k]) \in Nat
    <3>1. \A k \in 1 .. 5 : k = 1 \/ k = 2 \/ k = 3 \/ k = 4 \/ k = 5
      OBVIOUS
    <3> QED BY <1>1, <1>9, <3>1
  <2>2. Len(b) \in Nat
    BY <1>9
  <2>3. PICK sum : /\ ByteLength(b) = sum[Len(b)] /\ sum[0] = 0
                   /\ \A k \in 1 .. Len(b) : sum[k] = sum[k - 1] + Bytes(b[k])
    BY <2>1, <2>2, ByteLengthUnfolds
  <2>4. /\ sum[1] = sum[1 - 1] + Bytes(b[1]) /\ sum[2] = sum[2 - 1] + Bytes(b[2])
        /\ sum[3] = sum[3 - 1] + Bytes(b[3]) /\ sum[4] = sum[4 - 1] + Bytes(b[4])
        /\ sum[5] = sum[5 - 1] + Bytes(b[5])
    <3>1. 1 \in 1 .. Len(b) /\ 2 \in 1 .. Len(b) /\ 3 \in 1 .. Len(b) /\ 4 \in 1 .. Len(b)
          /\ 5 \in 1 .. Len(b)
      BY <1>9
    <3> QED BY <2>3, <3>1
  <2>5. sum[1] = 0 + 6 /\ sum[2] = sum[1] + 8 /\ sum[3] = sum[2] + 1 /\ sum[4] = sum[3] + 1
        /\ sum[5] = sum[4] + 1
    BY <1>1, <1>9, <2>3, <2>4
  <2> QED BY <1>9, <2>3, <2>5
<1>11. HeadBytes(sdus) \in 4 .. 10
  <2>1. PICK sum : /\ HeadBytes(sdus) = sum[Len(sdus)] + 1 /\ sum[0] = 0
                   /\ \A k \in 1 .. Len(sdus) : sum[k] = sum[k - 1] + SubheaderBytes(sdus[k])
    <3>1. Len(sdus) \in Nat
      BY <1>0
    <3> QED BY <3>1, HeadBytesUnfolds
  <2>2. /\ sum[1] = sum[1 - 1] + SubheaderBytes(sdus[1])
        /\ sum[2] = sum[2 - 1] + SubheaderBytes(sdus[2])
        /\ sum[3] = sum[3 - 1] + SubheaderBytes(sdus[3])
    BY <1>0, <2>1
  <2>3. SubheaderBytes(sdus[1]) \in 1 .. 3 /\ SubheaderBytes(sdus[2]) \in 1 .. 3
        /\ SubheaderBytes(sdus[3]) \in 1 .. 3
    BY SubheaderSmall
  <2>4. HeadBytes(sdus) = sum[3] + 1 /\ sum[0] = 0
    BY <1>0, <2>1
  <2> QED BY <2>2, <2>3, <2>4
<1>12. sdus # << >>
  <2>1. Len(<< >>) = 0 /\ 0 # 3
    OBVIOUS
  <2>2. Len(sdus) = 3
    BY <1>0
  <2> QED BY <2>1, <2>2, Zenon
<1>13. InBlock(sdus, size).body = Bodies(sdus)
  <2> DEFINE y == HeadBytes(sdus)
             z == ByteLength(Bodies(sdus))
  <2>1. y \in 4 .. 10 /\ z = 17
    BY <1>10, <1>11 DEF b
  <2> HIDE DEF y, z
  <2>2. y \in Nat /\ z \in Nat /\ y + z <= size
    BY <2>1
  <2> QED BY <1>0, <2>2, BlockTakesAll DEF y, z
<1>14. \A k \in 1 .. Len(sdus) : GivenLength(Sub(sdus[k])) = Len(sdus[k].bytes)
  <2>1. \A k : Sub(sdus[k]).lcid = sdus[k].lcid /\ Sub(sdus[k]).length = Len(sdus[k].bytes)
    BY DEF Sub
  <2>2. lcid_length(28) = 1 /\ lcid_length(0) = 0 /\ lcid_length(3) = 0
    BY DEF lcid_length
  <2>3. GivenLength(Sub(sdus[1])) = 1
    BY <1>2, <2>1, <2>2 DEF GivenLength, Padding
  <2>2a. ASSUME NEW f, f.lcid # 31, lcid_length(f.lcid) = 0 PROVE GivenLength(f) = f.length
    BY <2>2a DEF GivenLength, Padding
  <2>2b. /\ Sub(sdus[2]).lcid = 0 /\ Sub(sdus[2]).length = 1
         /\ Sub(sdus[3]).lcid = 3 /\ Sub(sdus[3]).length = 3
    BY <1>2, <1>4, <2>1
  <2>4. GivenLength(Sub(sdus[2])) = 1
    BY <2>2, <2>2a, <2>2b
  <2>5. GivenLength(Sub(sdus[3])) = 3
    BY <2>2, <2>2a, <2>2b
  <2> QED BY <1>0, <1>4, <1>5, <2>3, <2>4, <2>5
<1> QED BY <1>0, <1>6, <1>12, <1>13, <1>14, WholeBlockFits

----------------------------------------------------------------------------
(* The answers to an SDU. *)

LEMMA EncodeIs ==
  ASSUME NEW s, Fields(s), NEW plain
  PROVE  LET e == Encode(s, plain)
             c == plain.lcid
             n == IF c \in Channel THEN s.sn[c] ELSE 0
         IN  /\ Fields(e) /\ e.rx = s.rx
             /\ e.answers = Append(s.answers,
                  [lcid |-> c, bytes |-> rlc_encode(c, n, pdcp_encode(c, plain.bytes))])
<1> DEFINE c == plain.lcid
           n == IF c \in Channel THEN s.sn[c] ELSE 0
           sn == IF c \in Channel THEN [s.sn EXCEPT ![c] = nextSn(c, n)] ELSE s.sn
           x == [lcid |-> c, bytes |-> rlc_encode(c, n, pdcp_encode(c, plain.bytes))]
           e == [buffer |-> s.buffer, sn |-> sn, stats |-> s.stats, heard |-> s.heard,
                 delivered |-> s.delivered, answers |-> Append(s.answers, x), rx |-> s.rx]
<1>1. Encode(s, plain) = e
  <2>2. Encode(s, plain) = [s EXCEPT !.sn = sn, !.answers = Append(s.answers, x)]
    <3> HIDE DEF x
    <3> QED BY DEF Encode, x, Fields
  <2> HIDE DEF x, sn
  <2> QED BY <2>2 DEF Fields
<1> HIDE DEF x, sn
<1>2. e.answers = Append(s.answers, x) /\ e.rx = s.rx /\ Fields(e)
  BY DEF Fields
<1> HIDE DEF e
<1> QED BY <1>1, <1>2 DEF x

\* The answers, one after the other: the state behind each of them.
EncodingSteps(after, s, plain) ==
  /\ EncodeAll(s, plain) = after[Len(plain)] /\ after[0] = s
  /\ \A k \in 1 .. Len(plain) : after[k] = Encode(after[k - 1], plain[k])

LEMMA EncodeAllSteps ==
  ASSUME NEW s, NEW plain, Len(plain) \in Nat
  PROVE  \E after : EncodingSteps(after, s, plain)
<1> DEFINE n == Len(plain)
           after[k \in 0 .. Len(plain)] ==
             IF k = 0 THEN s ELSE Encode(after[k - 1], plain[k])
<1>1. EncodeAll(s, plain) = after[n]
  BY DEF EncodeAll
<1>2. EncodedUpto(after, s, plain, n)
  <2>1. PICK g : EncodedUpto(g, s, plain, n)
    BY EncodedExists
  <2>2. g = [k \in 0 .. n |-> IF k = 0 THEN s ELSE Encode(g[k - 1], plain[k])]
    BY <2>1 DEF EncodedUpto
  <2>3. after = CHOOSE h : h = [k \in 0 .. n |-> IF k = 0 THEN s ELSE Encode(h[k - 1], plain[k])]
    BY DEF after
  <2> HIDE DEF after, n
  <2> QED BY <2>2, <2>3 DEF EncodedUpto
<1> HIDE DEF after
<1>3. after[0] = s
  BY <1>2 DEF EncodedUpto
<1>4. ASSUME NEW k \in 1 .. n PROVE after[k] = Encode(after[k - 1], plain[k])
  <2>1. k \in 0 .. n /\ k # 0
    OBVIOUS
  <2> HIDE DEF n
  <2> QED BY <1>2, <2>1 DEF EncodedUpto
<1>5. EncodingSteps(after, s, plain)
  BY <1>1, <1>3, <1>4 DEF EncodingSteps
<1> QED BY <1>5

LEMMA EncodeAllUnfolds ==
  ASSUME NEW s, NEW plain, Len(plain) \in Nat
  PROVE  \E after : /\ EncodeAll(s, plain) = after[Len(plain)] /\ after[0] = s
                    /\ \A k \in 1 .. Len(plain) : after[k] = Encode(after[k - 1], plain[k])
<1>1. PICK after : EncodingSteps(after, s, plain)
  BY EncodeAllSteps
<1> QED BY <1>1 DEF EncodingSteps

\* The comparison with the ideal buffers changes nothing else.
LEMMA JudgeIs ==
  ASSUME NEW t, Fields(t), NEW c, NEW b, NEW o
  PROVE  LET j == Judge(t, c, b, o) IN
         Fields(j) /\ j.answers = t.answers /\ j.rx = t.rx
<1>1. CASE c = 0 \/ Head(b).dc # "data"
  <2>1. Judge(t, c, b, o) = t
    BY <1>1 DEF Judge
  <2> QED BY <2>1
<1>2. CASE ~ (c = 0 \/ Head(b).dc # "data")
  <2> DEFINE h == Head(b)
             ideal == (IF h.first THEN << >> ELSE t.heard[c]) \o Tail(b)
             left == IF h.last THEN << >> ELSE ideal
             D == IF ~ h.last THEN t.delivered ELSE t.delivered \union
                    {[channel |-> c, size |-> Len(h.whole), data |-> h.whole[1] = PdcpData,
                      heard |-> ideal = h.whole, intact |-> o = h.whole,
                      network |-> toNetwork(c, pdcp_decode(c, o))]}
             H == [t.heard EXCEPT ![c] = left]
             j == [buffer |-> t.buffer, sn |-> t.sn, stats |-> t.stats, heard |-> H,
                   delivered |-> D, answers |-> t.answers, rx |-> t.rx]
  <2>1. Judge(t, c, b, o) = [t EXCEPT !.heard[c] = left, !.delivered = D]
    BY <1>2 DEF Judge
  <2> HIDE DEF left, D
  <2>2. Judge(t, c, b, o) = [t EXCEPT !.heard = H, !.delivered = D]
    BY <2>1 DEF Fields
  <2> HIDE DEF H
  <2>2a. Judge(t, c, b, o) = j
    BY <2>2 DEF Fields
  <2>3. Fields(j) /\ j.answers = t.answers /\ j.rx = t.rx
    BY DEF Fields
  <2> QED BY <2>2a, <2>3
<1> QED BY <1>1, <1>2

\* On channels 0 and 3 the poll flag stays.
LEMMA JudgedIs ==
  ASSUME NEW s, StateOK(s), NEW sdu
  PROVE  LET j == Judged(s, sdu) IN
         /\ Fields(j) /\ j.answers = s.answers
         /\ sdu.lcid \in {0, 3} => j.rx.poll = s.rx.poll
<1> DEFINE t == Taken(s, sdu)
           d == Decoded(s, sdu)
<1>1. Fields(t) /\ t.answers = s.answers
  BY TakenIs
<1>2. t.rx = [sn |-> d.rx.sn, poll |-> d.rx.poll]
  <2> DEFINE r == [sn |-> d.rx.sn, poll |-> d.rx.poll]
             bf == [s.buffer EXCEPT ![sdu.lcid] = d.rx.buf]
             st == StatsAfter(s, sdu)
  <2>1. Fields(s)
    BY DEF StateOK
  <2>2. Taken(s, sdu) = [s EXCEPT !.buffer = bf, !.rx = r, !.stats = st]
    BY <2>1 DEF Taken, Fields, StatsAfter
  <2> HIDE DEF bf, r, st
  <2>3. [s EXCEPT !.buffer = bf, !.rx = r, !.stats = st].rx = r
    BY <2>1 DEF Fields
  <2> QED BY <2>2, <2>3 DEF r
<1>3. ASSUME sdu.lcid \in {0, 3} PROVE t.rx.poll = s.rx.poll
  <2> DEFINE c == sdu.lcid
             rx == [buf |-> s.buffer[c], sn |-> s.rx.sn, poll |-> s.rx.poll]
             buf == reassemble(rx.buf, Head(sdu.bytes).first, Tail(sdu.bytes))
  <2>1. \/ d = [rx |-> rx, out |-> sdu.bytes]
        \/ d = [rx |-> rx, out |-> << >>]
        \/ d = [rx |-> [rx EXCEPT !.buf = buf],
                out |-> IF Head(sdu.bytes).last THEN buf ELSE << >>]
    <3>1. d = rlc_decode(c, sdu.bytes, rx)
      BY DEF Decoded
    <3>2. c \notin AM
      BY <1>3 DEF AM
    <3> HIDE DEF d, c, rx
    <3> QED BY <3>1, <3>2 DEF rlc_decode
  <2>2. d.rx = rx \/ d.rx = [rx EXCEPT !.buf = buf]
    <3> HIDE DEF d, c, rx, buf
    <3> QED BY <2>1
  <2>3. d.rx.poll = s.rx.poll
    <3>1. rx.poll = s.rx.poll /\ [rx EXCEPT !.buf = buf].poll = s.rx.poll
      <4> HIDE DEF buf, c
      <4> QED OBVIOUS
    <3> HIDE DEF d, rx, buf
    <3> QED BY <2>2, <3>1
  <2> HIDE DEF d, t
  <2> QED BY <1>2, <2>3
<1> HIDE DEF t
<1>4. LET j == Judged(s, sdu) IN Fields(j) /\ j.answers = t.answers /\ j.rx = t.rx
  <2>1. Judged(s, sdu) = Judge(t, sdu.lcid, sdu.bytes, Decoded(s, sdu).out)
    BY DEF Judged, t
  <2> QED BY <1>1, <2>1, JudgeIs
<1> QED BY <1>1, <1>3, <1>4

Fresh(s, sdu) ==
  IF rrcResets(sdu.lcid, Told(s, sdu))
  THEN [reset_state(Judged(s, sdu)) EXCEPT !.heard = Empty] ELSE Judged(s, sdu)

PlainAnswers(s, sdu) ==
  rrcAnswers(sdu.lcid, Told(s, sdu)) \o TestReply(sdu.lcid, Told(s, sdu))

LEMMA HandleIs ==
  ASSUME NEW s, StateOK(s), NEW sdu
  PROVE  /\ Handle(s, sdu) = Report(EncodeAll(Fresh(s, sdu), PlainAnswers(s, sdu)), sdu.lcid,
                                    PlainAnswers(s, sdu) # << >>)
         /\ Fields(Fresh(s, sdu)) /\ Fresh(s, sdu).answers = s.answers
         /\ sdu.lcid \in {0, 3} => Fresh(s, sdu).rx.poll = s.rx.poll
<1>1. Handle(s, sdu) = Report(EncodeAll(Fresh(s, sdu), PlainAnswers(s, sdu)), sdu.lcid,
                              PlainAnswers(s, sdu) # << >>)
  BY DEF Handle, Judged, Taken, Told, Decoded, Fresh, PlainAnswers
<1> DEFINE j == Judged(s, sdu)
           f == Fresh(s, sdu)
<1>2. Fields(j) /\ j.answers = s.answers /\ (sdu.lcid \in {0, 3} => j.rx.poll = s.rx.poll)
  BY JudgedIs
<1>3. Fields(f) /\ f.answers = j.answers /\ f.rx = j.rx
  <2> HIDE DEF j
  <2>1. CASE ~ rrcResets(sdu.lcid, Told(s, sdu))
    <3>1. f = j
      BY <2>1 DEF Fresh, j
    <3> QED BY <1>2, <3>1
  <2>2. CASE rrcResets(sdu.lcid, Told(s, sdu))
    <3> DEFINE g == [buffer |-> Empty, sn |-> Reset, stats |-> j.stats, heard |-> Empty,
                     delivered |-> j.delivered, answers |-> j.answers, rx |-> j.rx]
    <3>1. f = [reset_state(j) EXCEPT !.heard = Empty]
      BY <2>2 DEF Fresh, j
    <3>2. f = g
      BY <1>2, <3>1 DEF Fields, reset_state
    <3>3. g.answers = j.answers /\ g.rx = j.rx /\ Fields(g)
      BY DEF Fields
    <3> HIDE DEF g
    <3> QED BY <3>2, <3>3
  <2> QED BY <2>1, <2>2
<1> QED BY <1>1, <1>2, <1>3

\* Without a poll flag nothing is reported.
LEMMA NothingReported ==
  ASSUME NEW s, ~ s.rx.poll, NEW c, NEW b
  PROVE  Report(s, c, b) = s
BY DEF Report

\* A request is echoed and answered with a set-up.
LEMMA RequestAnswered ==
  ASSUME NEW s, StateOK(s), s.rx.poll = FALSE, NEW sdu, sdu.lcid = 0, NEW id,
         sdu.bytes = << MsgUnit("request", id) >>
  PROVE  LET r == Handle(s, sdu) IN
         r.rx.poll = FALSE /\ r.answers = Append(Append(s.answers, Echo(id)), Setup(id))
<1> DEFINE u == MsgUnit("request", id)
           f == Fresh(s, sdu)
           plain == PlainAnswers(s, sdu)
<1>1. Told(s, sdu) = << u >>
  <2>1. Decoded(s, sdu).out = sdu.bytes
    BY DEF Decoded, rlc_decode
  <2> QED BY <2>1 DEF Told, pdcp_decode, AM
<1> DEFINE e == [lcid |-> 28, bytes |-> << u >>]
           t == answer(0, "setup", id)
<1>2. rrcAnswers(0, << u >>) = << e, t >>
  <2>1. Head(<< u >>) = u /\ u.id = id /\ << u >> # << >>
    BY DEF MsgUnit
  <2>2. rrcAnswers(0, << u >>) = rrcRequest(<< u >>)
    BY <2>1 DEF rrcAnswers
  <2>3. Head(<< u >>).id = id
    BY <2>1
  <2> QED BY <2>2, <2>3 DEF rrcRequest
<1>3. TestReply(0, << u >>) = << >>
  BY DEF TestReply
<1>4. plain = << e, t >>
  <2>1. plain = << e, t >> \o << >>
    BY <1>1, <1>2, <1>3 DEF PlainAnswers
  <2> HIDE DEF e, t
  <2>2. << e, t >> \o << >> = << e, t >>
    OBVIOUS
  <2> HIDE DEF plain
  <2> QED BY <2>1, <2>2
<1>5. /\ Handle(s, sdu) = Report(EncodeAll(f, plain), sdu.lcid, plain # << >>)
      /\ Fields(f) /\ f.answers = s.answers /\ f.rx.poll = FALSE
  BY HandleIs
<1> HIDE DEF f, plain
<1>6. Len(plain) = 2 /\ plain[1] = e /\ plain[2] = t
  <2> HIDE DEF e, t
  <2> QED BY <1>4
<1>7. EncodeAll(f, plain) = Encode(Encode(f, e), t)
  <2>1. Len(plain) \in Nat
    BY <1>6
  <2>2. PICK after : /\ EncodeAll(f, plain) = after[Len(plain)] /\ after[0] = f
                     /\ \A k \in 1 .. Len(plain) : after[k] = Encode(after[k - 1], plain[k])
    BY <2>1, EncodeAllUnfolds
  <2> HIDE DEF e, t
  <2>3. 1 \in 1 .. Len(plain) /\ 2 \in 1 .. Len(plain) /\ 1 - 1 = 0 /\ 2 - 1 = 1
    BY <1>6
  <2>4. after[1] = Encode(after[1 - 1], plain[1]) /\ after[2] = Encode(after[2 - 1], plain[2])
    BY <2>2, <2>3
  <2>5. after[1] = Encode(f, e) /\ after[2] = Encode(after[1], t)
    BY <1>6, <2>2, <2>3, <2>4
  <2> QED BY <1>6, <2>2, <2>5
<1> DEFINE a == Encode(f, e)
           b == Encode(a, t)
<1>8. Fields(a) /\ a.rx = f.rx /\ a.answers = Append(s.answers, Echo(id))
  <2>1. /\ Fields(a) /\ a.rx = f.rx
        /\ a.answers = Append(f.answers, [lcid |-> e.lcid, bytes |-> rlc_encode(e.lcid,
             IF e.lcid \in Channel THEN f.sn[e.lcid] ELSE 0, pdcp_encode(e.lcid, e.bytes))])
    BY <1>5, EncodeIs
  <2>2. e.lcid = 28 /\ e.bytes = << u >>
    OBVIOUS
  <2> HIDE DEF e, u, a
  <2>3. \A n : rlc_encode(28, n, pdcp_encode(28, << u >>)) = << u >>
    BY DEF rlc_encode, pdcp_encode, AM
  <2>4. a.answers = Append(f.answers, [lcid |-> 28, bytes |-> << u >>])
    BY <2>1, <2>2, <2>3
  <2> QED BY <1>5, <2>1, <2>4 DEF Echo, u
<1> HIDE DEF a
<1>9. Fields(b) /\ b.rx = a.rx /\ b.answers = Append(a.answers, Setup(id))
  <2>1. /\ Fields(b) /\ b.rx = a.rx
        /\ b.answers = Append(a.answers, [lcid |-> t.lcid, bytes |-> rlc_encode(t.lcid,
             IF t.lcid \in Channel THEN a.sn[t.lcid] ELSE 0, pdcp_encode(t.lcid, t.bytes))])
    BY <1>8, EncodeIs
  <2> DEFINE v == MsgUnit("setup", id)
  <2>2. t.lcid = 0 /\ t.bytes = << v >>
    BY DEF answer, MsgUnit
  <2> HIDE DEF t, v, b
  <2>3. \A n : rlc_encode(0, n, pdcp_encode(0, << v >>)) = << v >>
    BY DEF rlc_encode, pdcp_encode, AM
  <2>4. b.answers = Append(a.answers, [lcid |-> 0, bytes |-> << v >>])
    BY <2>1, <2>2, <2>3
  <2> QED BY <2>1, <2>4 DEF Setup, v
<1> HIDE DEF b
<1>10. EncodeAll(f, plain) = b
  BY <1>7 DEF a, b
<1>11. Handle(s, sdu) = b
  <2>1. ~ b.rx.poll
    BY <1>5, <1>8, <1>9
  <2> QED BY <1>5, <1>10, <2>1, NothingReported
<1> QED BY <1>5, <1>8, <1>9, <1>11

\* A test packet is answered with a reply, or not at all.
LEMMA PacketAnswered ==
  ASSUME NEW s, StateOK(s), s.rx.poll = FALSE, NEW sdu, sdu.lcid = 3
  PROVE  LET r == Handle(s, sdu) IN
         r.answers = s.answers \/ \E m : r.answers = Append(s.answers, Reply(m))
<1> DEFINE f == Fresh(s, sdu)
           plain == PlainAnswers(s, sdu)
           t == answer(3, "reply", 0)
           msg == Told(s, sdu)
<1>1. plain = << >> \/ plain = << t >>
  <2>1. rrcAnswers(3, msg) = << >>
    BY DEF rrcAnswers
  <2>2. TestReply(3, msg) = << >> \/ TestReply(3, msg) = << t >>
    <3> HIDE DEF msg
    <3> QED BY DEF TestReply
  <2>3. plain = << >> \o TestReply(3, msg)
    BY <2>1 DEF PlainAnswers
  <2> HIDE DEF t, msg, plain
  <2>4. << >> \o << >> = << >> /\ << >> \o << t >> = << t >>
    <3>1. << t >> \in Seq({t}) /\ << >> \in Seq({t})
      OBVIOUS
    <3> DEFINE x == << t >>
    <3> HIDE DEF x
    <3>2. << >> \o x = x /\ << >> \o << >> = << >>
      BY <3>1 DEF x
    <3> QED BY <3>2 DEF x
  <2> QED BY <2>2, <2>3, <2>4
<1>2. /\ Handle(s, sdu) = Report(EncodeAll(f, plain), sdu.lcid, plain # << >>)
      /\ Fields(f) /\ f.answers = s.answers /\ f.rx.poll = FALSE
  BY HandleIs
<1> HIDE DEF f, plain, msg
<1>3. CASE plain = << >>
  <2>1. Len(plain) = 0
    BY <1>3
  <2>2. PICK after : EncodeAll(f, plain) = after[Len(plain)] /\ after[0] = f
    <3>1. Len(plain) \in Nat
      BY <2>1
    <3> QED BY <3>1, EncodeAllUnfolds
  <2>3. EncodeAll(f, plain) = f
    BY <2>1, <2>2
  <2>4. Handle(s, sdu) = f
    BY <1>2, <2>3, NothingReported
  <2> QED BY <1>2, <2>4
<1>4. CASE plain = << t >>
  <2>1. Len(plain) = 1 /\ plain[1] = t
    <3> HIDE DEF t
    <3> QED BY <1>4
  <2>2. PICK after : /\ EncodeAll(f, plain) = after[Len(plain)] /\ after[0] = f
                     /\ \A k \in 1 .. Len(plain) : after[k] = Encode(after[k - 1], plain[k])
    <3>1. Len(plain) \in Nat
      BY <2>1
    <3> QED BY <3>1, EncodeAllUnfolds
  <2>3. EncodeAll(f, plain) = Encode(f, t)
    <3> HIDE DEF t
    <3>1. 1 \in 1 .. Len(plain) /\ 1 - 1 = 0
      BY <2>1
    <3>2. after[1] = Encode(after[1 - 1], plain[1])
      BY <2>2, <3>1
    <3> QED BY <2>1, <2>2, <3>1, <3>2
  <2> DEFINE a == Encode(f, t)
             n == f.sn[3]
  <2>4. a.rx = f.rx /\ a.answers = Append(f.answers, Reply(n))
    <3>1. /\ Fields(a) /\ a.rx = f.rx
          /\ a.answers = Append(f.answers, [lcid |-> t.lcid, bytes |-> rlc_encode(t.lcid,
               IF t.lcid \in Channel THEN f.sn[t.lcid] ELSE 0, pdcp_encode(t.lcid, t.bytes))])
      BY <1>2, EncodeIs
    <3> DEFINE v == MsgUnit("reply", 0)
    <3>2. t.lcid = 3 /\ t.bytes = << v >> /\ 3 \in Channel
      BY DEF answer, MsgUnit, Channel
    <3> HIDE DEF t, v, a
    <3>3. a.answers = Append(f.answers, [lcid |-> 3,
                                         bytes |-> rlc_encode(3, n, pdcp_encode(3, << v >>))])
      BY <3>1, <3>2
    <3>4. rlc_encode(3, n, pdcp_encode(3, << v >>)) = << DataHeader(n), PdcpData, v >>
      BY ThreeEncoded
    <3> QED BY <3>1, <3>3, <3>4 DEF Reply, ThreeSdu, v
  <2> HIDE DEF a, n
  <2>5. Handle(s, sdu) = a
    <3>1. ~ a.rx.poll
      BY <1>2, <2>4
    <3>2. EncodeAll(f, plain) = a
      BY <2>3 DEF a
    <3> HIDE DEF t
    <3> QED BY <1>2, <3>1, <3>2, NothingReported
  <2> QED BY <1>2, <2>4, <2>5
<1> QED BY <1>1, <1>3, <1>4

NoThree(answers) == \A k \in 1 .. Len(answers) : answers[k].lcid # 3

LEMMA NoThreeAppend ==
  ASSUME NEW a, Sequence(a), NoThree(a), NEW x, x.lcid # 3
  PROVE  Sequence(Append(a, x)) /\ NoThree(Append(a, x))
<1>1. /\ Sequence(Append(a, x)) /\ Len(Append(a, x)) = Len(a) + 1
      /\ Append(a, x)[Len(a) + 1] = x
      /\ \A i \in 1 .. Len(a) : Append(a, x)[i] = a[i]
  BY AppendSequence
<1>2. Len(a) \in Nat
  BY DEF Sequence
<1> DEFINE b == Append(a, x)
<1> HIDE DEF b
<1>3. ASSUME NEW k \in 1 .. Len(b) PROVE b[k].lcid # 3
  <2>1. k \in 1 .. Len(a) \/ k = Len(a) + 1
    BY <1>1, <1>2 DEF b
  <2>2. CASE k = Len(a) + 1
    BY <1>1, <2>2 DEF b
  <2>3. CASE k \in 1 .. Len(a)
    <3>1. b[k] = a[k]
      BY <1>1, <2>3 DEF b
    <3> QED BY <2>3, <3>1 DEF NoThree
  <2> QED BY <2>1, <2>2, <2>3
<1> QED BY <1>1, <1>3 DEF NoThree, b

\* On the other channels nothing is answered on channel 3.
LEMMA PlainOfOthers ==
  ASSUME NEW s, NEW sdu, sdu.lcid \in 0 .. 2
  PROVE  Sequence(PlainAnswers(s, sdu)) /\ NoThree(PlainAnswers(s, sdu))
<1> DEFINE c == sdu.lcid
           msg == Told(s, sdu)
           plain == rrcAnswers(c, msg)
<1> HIDE DEF msg
<1>0. c \in 0 .. 2
  OBVIOUS
<1> HIDE DEF c
<1>1. ASSUME NEW x, x.lcid # 3
      PROVE  Sequence(<< x >>) /\ NoThree(<< x >>)
  <2>1. \A k \in 1 .. Len(<< x >>) : << x >>[k] = x
    OBVIOUS
  <2> QED BY <1>1, <2>1, OneIsSequence DEF NoThree
<1>2. ASSUME NEW x, NEW y, x.lcid # 3, y.lcid # 3
      PROVE  Sequence(<< x, y >>) /\ NoThree(<< x, y >>)
  <2>1. \A k \in 1 .. Len(<< x, y >>) : << x, y >>[k] = x \/ << x, y >>[k] = y
    OBVIOUS
  <2>2. << x, y >> \in Seq({x, y})
    OBVIOUS
  <2> DEFINE z == << x, y >>
  <2> HIDE DEF z
  <2>3. Sequence(z)
    BY <2>2, SeqIsSequence DEF z
  <2>4. NoThree(z)
    BY <1>2, <2>1 DEF NoThree, z
  <2> QED BY <2>3, <2>4 DEF z
<1>3. Sequence(<< >>) /\ NoThree(<< >>)
  <2>1. << >> \in Seq({}) /\ Len(<< >>) = 0
    OBVIOUS
  <2>2. NoThree(<< >>)
    BY <2>1 DEF NoThree
  <2>3. Sequence(<< >>)
    BY <2>1, SeqIsSequence
  <2> QED BY <2>2, <2>3
<1>4. \A d, type, id : answer(d, type, id).lcid = d
  BY DEF answer
<1>5. c # 3 /\ ~ (c > 2)
  BY <1>0
<1>6. Sequence(plain) /\ NoThree(plain)
  <2>0. plain = << >> \/ plain = rrcRequest(msg) \/ plain = rrcSignalling(c, msg)
    BY <1>0 DEF rrcAnswers
  <2>1. CASE plain = << >>
    BY <1>3, <2>1
  <2>2. CASE plain = rrcRequest(msg)
    <3> DEFINE x == [lcid |-> 28, bytes |-> msg]
               y == answer(0, "setup", Head(msg).id)
    <3>1. plain = << x, y >>
      BY <2>2 DEF rrcRequest
    <3>2. x.lcid # 3 /\ y.lcid # 3
      BY <1>4
    <3> HIDE DEF x, y, plain
    <3> QED BY <1>2, <3>1, <3>2
  <2>3. CASE plain = rrcSignalling(c, msg)
    <3> HIDE DEF plain
    <3> DEFINE type == typeOf(msg)
               id == Head(msg).id
    <3>2. CASE type \in DOMAIN NextCommand
      <4>0. type # "detachRequest"
        BY <3>2 DEF NextCommand
      <4> DEFINE x == answer(1, NextCommand[type], id)
      <4>1. plain = << x >>
        BY <2>3, <3>2, <4>0 DEF rrcSignalling
      <4>2. x.lcid # 3
        BY <1>4
      <4> HIDE DEF x
      <4> QED BY <1>1, <4>1, <4>2
    <3>3. CASE type \notin DOMAIN NextCommand /\ type = "detachRequest"
      <4> DEFINE x == answer(c, "detachAccept", id)
                 y == answer(1, "release", id)
      <4>1. plain = << x, y >>
        BY <2>3, <3>3 DEF rrcSignalling
      <4>2. x.lcid # 3 /\ y.lcid # 3
        BY <1>4, <1>5
      <4> HIDE DEF x, y
      <4> QED BY <1>2, <4>1, <4>2
    <3>4. CASE type \notin DOMAIN NextCommand /\ type # "detachRequest"
      <4>1. plain = << >>
        BY <2>3, <3>4 DEF rrcSignalling
      <4> QED BY <1>3, <4>1
    <3> QED BY <3>2, <3>3, <3>4
  <2> QED BY <2>0, <2>1, <2>2, <2>3
<1>7. PlainAnswers(s, sdu) = plain \o << >>
  <2>1. TestReply(c, msg) = << >>
    BY <1>5 DEF TestReply
  <2> QED BY <2>1 DEF PlainAnswers, msg, c
<1> HIDE DEF plain
<1>8. plain \o << >> = plain
  <2> DEFINE T == {plain[i] : i \in 1 .. Len(plain)}
  <2>1. plain \in Seq(T)
    BY <1>6, SequenceIsSeq
  <2> HIDE DEF T
  <2> QED BY <2>1
<1> QED BY <1>6, <1>7, <1>8

LEMMA OthersAnswered ==
  ASSUME NEW s, StateOK(s), NoThree(s.answers), NEW sdu, sdu.lcid \in 0 .. 2
  PROVE  NoThree(Handle(s, sdu).answers)
<1> DEFINE f == Fresh(s, sdu)
           plain == PlainAnswers(s, sdu)
           Q(x) == Fields(x) /\ Sequence(x.answers) /\ NoThree(x.answers)
           e == EncodeAll(f, plain)
<1>1. /\ Handle(s, sdu) = Report(e, sdu.lcid, plain # << >>)
      /\ Fields(f) /\ f.answers = s.answers
  BY HandleIs
<1>2. Sequence(plain) /\ NoThree(plain) /\ Len(plain) \in Nat
  BY PlainOfOthers DEF Sequence
<1> HIDE DEF f, plain
<1>3. Q(f)
  BY <1>1 DEF StateOK
<1>4. ASSUME NEW x, Q(x), NEW p, p.lcid # 3 PROVE Q(Encode(x, p))
  <2> DEFINE a == [lcid |-> p.lcid, bytes |-> rlc_encode(p.lcid,
                     IF p.lcid \in Channel THEN x.sn[p.lcid] ELSE 0, pdcp_encode(p.lcid, p.bytes))]
  <2>1. Fields(Encode(x, p)) /\ Encode(x, p).answers = Append(x.answers, a)
    BY <1>4, EncodeIs
  <2>2. a.lcid # 3
    BY <1>4
  <2> HIDE DEF a
  <2> QED BY <1>4, <2>1, <2>2, NoThreeAppend
<1>5. PICK after : /\ e = after[Len(plain)] /\ after[0] = f
                   /\ \A k \in 1 .. Len(plain) : after[k] = Encode(after[k - 1], plain[k])
  BY <1>2, EncodeAllUnfolds
<1>6. Q(e)
  <2> DEFINE n == Len(plain)
             P == {m \in 0 .. n : Q(after[m])}
  <2>1. 0 \in P
    BY <1>2, <1>3, <1>5
  <2>2. ASSUME NEW k \in 1 .. n, k - 1 \in P PROVE k \in P
    <3>1. Q(after[k - 1]) /\ k \in 0 .. n
      BY <1>2, <2>2
    <3>2. plain[k].lcid # 3 /\ after[k] = Encode(after[k - 1], plain[k])
      BY <1>2, <1>5 DEF NoThree
    <3> HIDE DEF Q
    <3> QED BY <1>4, <3>1, <3>2
  <2>3. n \in P
    <3> HIDE DEF P, n
    <3>1. n \in Nat
      BY <1>2 DEF n
    <3>2. 0 .. n \subseteq P
      BY <2>1, <2>2, <3>1, IntervalInduction
    <3> QED BY <3>1, <3>2
  <2> QED BY <1>5, <2>3
<1> HIDE DEF e
<1>7. CASE ~ e.rx.poll
  BY <1>1, <1>6, <1>7, NothingReported
<1>8. CASE e.rx.poll
  <2> DEFINE x == [lcid |-> sdu.lcid, bytes |-> StatusReport(e.rx.sn)]
  <2>1. Handle(s, sdu) = [e EXCEPT !.answers = Append(e.answers, x)]
    BY <1>1, <1>8 DEF Report
  <2>2. x.lcid # 3
    OBVIOUS
  <2> HIDE DEF x
  <2>3. Handle(s, sdu).answers = Append(e.answers, x)
    BY <1>6, <2>1 DEF Fields
  <2> QED BY <1>6, <2>2, <2>3, NoThreeAppend
<1> QED BY <1>7, <1>8

----------------------------------------------------------------------------
(* A whole block, and its answer. *)

IsRequest(b) == \E id : b = << MsgUnit("request", id) >>

OnlyThree(sdus) ==
  \/ Len(sdus) = 1 /\ sdus[1].lcid = 3
  \/ Len(sdus) = 2 /\ sdus[1].lcid = 0 /\ IsRequest(sdus[1].bytes) /\ sdus[2].lcid = 3

\* A block with a packet holds nothing else but, in front of it, a request.
ThreeAlone(sdus) == (\E k \in 1 .. Len(sdus) : sdus[k].lcid = 3) => OnlyThree(sdus)

AnswerFits(a) == a # << >> => Fits(InBlock(a, RrcBlock))

LEMMA NoThreeFits ==
  ASSUME NEW a, Sequence(a), NoThree(a)
  PROVE  AnswerFits(a)
BY OthersFit DEF AnswerFits, NoThree

LEMMA ReplyFits ==
  ASSUME NEW m, RrcBlock >= 27
  PROVE  AnswerFits(<< Reply(m) >>)
<1>1. Bytes(MsgUnit("reply", 0)) = 1
  BY BytesOfUnits
<1> DEFINE sdus == << ThreeSdu(m, MsgUnit("reply", 0)) >>
           len == HeadBytes(sdus) + ByteLength(Bodies(sdus))
<1>2. /\ len \in Nat /\ len <= 1 + 6
      /\ \A size \in Nat : len <= size => Fits(InBlock(sdus, size))
  BY <1>1, OneThreeFits
<1>3. sdus = << Reply(m) >>
  BY DEF Reply
<1> HIDE DEF sdus, len
<1>4. RrcBlock \in Nat /\ len <= RrcBlock
  BY <1>2, EndToEndAssumption
<1> QED BY <1>2, <1>3, <1>4 DEF AnswerFits

\* Two answers, and a third.
LEMMA TwoAnswers ==
  ASSUME NEW id, RrcBlock >= 27
  PROVE  LET a == Append(Append(<< >>, Echo(id)), Setup(id)) IN
         /\ Sequence(a) /\ AnswerFits(a)
         /\ \A m : AnswerFits(Append(a, Reply(m)))
<1> DEFINE e == Echo(id)
           t == Setup(id)
           b == Append(<< >>, e)
           a == Append(b, t)
<1>1. Sequence(<< >>) /\ Len(<< >>) = 0
  BY SeqIsSequence, << >> \in Seq({})
<1>2. e.lcid # 3 /\ t.lcid # 3
  BY DEF Echo, Setup
<1>3. NoThree(<< >>)
  BY <1>1 DEF NoThree
<1> HIDE DEF e, t
<1>4. Sequence(b) /\ Len(b) = 0 + 1 /\ b[0 + 1] = e
  BY <1>1, AppendSequence
<1>4a. b[1] = e /\ Len(b) = 1
  BY <1>4
<1>5. NoThree(b)
  BY <1>1, <1>2, <1>3, NoThreeAppend
<1> HIDE DEF b
<1>6. Sequence(a) /\ NoThree(a)
  BY <1>2, <1>4, <1>5, NoThreeAppend
<1>7. Len(a) = 2 /\ a[1] = e /\ a[2] = t
  <2>1. /\ Len(a) = Len(b) + 1 /\ a[Len(b) + 1] = t
        /\ \A i \in 1 .. Len(b) : a[i] = b[i]
    BY <1>4, AppendSequence
  <2>2. 1 \in 1 .. Len(b) /\ Len(b) + 1 = 2
    BY <1>4a
  <2> QED BY <1>4a, <2>1, <2>2
<1> HIDE DEF a
<1>8. AnswerFits(a)
  BY <1>6, NoThreeFits
<1>9. ASSUME NEW m PROVE AnswerFits(Append(a, Reply(m)))
  <2> DEFINE r == Reply(m)
             x == Append(a, r)
  <2> HIDE DEF r
  <2>1. /\ Sequence(x) /\ Len(x) = Len(a) + 1 /\ x[Len(a) + 1] = r
        /\ \A i \in 1 .. Len(a) : x[i] = a[i]
    BY <1>6, AppendSequence
  <2> HIDE DEF x
  <2>2. Len(a) + 1 = 3 /\ 1 \in 1 .. Len(a) /\ 2 \in 1 .. Len(a)
    BY <1>7
  <2>3. Len(x) = 3 /\ x[1] = e /\ x[2] = t /\ x[3] = r
    BY <1>7, <2>1, <2>2
  <2>4. AllAnswers(x, id, m)
    BY <2>1, <2>3 DEF AllAnswers, e, t, r
  <2>5. Fits(InBlock(x, RrcBlock))
    BY <2>4, AnswersFit, EndToEndAssumption
  <2> QED BY <2>5 DEF AnswerFits, x, r
<1> QED BY <1>6, <1>8, <1>9 DEF a, b, e, t

\* Whatever a block holds, the parts of channel 3 in its answer are whole.
LEMMA AnswersWhole ==
  ASSUME ProtocolInv, up # << >>, ThreeAlone(Head(up).sdus), RrcBlock >= 27
  PROVE  AnswerFits(Result(Head(up).pdu).answers)
<1> DEFINE block == Head(up)
           sdus == block.sdus
<1>1. block \in Block(test_IP)
  BY HeadTailProperties DEF ProtocolInv, UpOK
<1>2. sdus \in Seq(PhoneSdu(test_IP)) /\ sdus # << >> /\ mac_decode(block.pdu) = sdus
  <2> HIDE DEF block
  <2> QED BY <1>1, BlockDecodes
<1>3. ThreeAlone(sdus)
  OBVIOUS
<1> HIDE DEF block, sdus
<1> DEFINE n == Len(sdus)
<1>4. n \in Nat \ {0}
  BY <1>2
<1>5. PICK after : HandledUpto(after, Begin, sdus, n) /\ Result(block.pdu) = after[n]
  BY <1>2, <1>4, ResultUnfolds
<1>6. \A k \in 0 .. n : StateOK(after[k])
  BY <1>2, <1>5, BeginOK, HandledKeeps
<1>7. after[0] = Begin /\ \A k \in 1 .. n : after[k] = Handle(after[k - 1], sdus[k])
  <2>1. \A k \in 0 .. n : after[k] = IF k = 0 THEN Begin ELSE Handle(after[k - 1], sdus[k])
    BY <1>5 DEF HandledUpto
  <2> QED BY <1>4, <2>1
<1>8. Begin.answers = << >> /\ Begin.rx.poll = FALSE /\ StateOK(Begin)
  BY BeginOK DEF Begin
<1>9. Sequence(<< >>) /\ NoThree(<< >>) /\ AnswerFits(<< >>)
  <2>1. Sequence(<< >>) /\ Len(<< >>) = 0
    BY SeqIsSequence, << >> \in Seq({})
  <2> QED BY <2>1 DEF NoThree, AnswerFits
<1>10. CASE ~ \E k \in 1 .. n : sdus[k].lcid = 3
  <2> DEFINE P == {k \in 0 .. n : NoThree(after[k].answers)}
  <2>1. 0 \in P
    BY <1>4, <1>7, <1>8, <1>9
  <2>2. ASSUME NEW k \in 1 .. n, k - 1 \in P PROVE k \in P
    <3>1. sdus[k] \in PhoneSdu(test_IP)
      BY <1>2, ElementOfSeq
    <3>2. sdus[k].lcid \in Channel
      BY <3>1, SduCases
    <3>3. sdus[k].lcid \in 0 .. 2
      BY <1>10, <3>2 DEF Channel
    <3>4. k - 1 \in 0 .. n /\ k \in 0 .. n /\ NoThree(after[k - 1].answers)
      BY <1>4, <2>2
    <3>5. NoThree(Handle(after[k - 1], sdus[k]).answers)
      BY <1>6, <3>3, <3>4, OthersAnswered
    <3> QED BY <1>7, <3>4, <3>5
  <2>3. n \in P
    <3> HIDE DEF P, n
    <3>1. 0 .. n \subseteq P
      BY <1>4, <2>1, <2>2, IntervalInduction
    <3> QED BY <1>4, <3>1
  <2>4. Sequence(after[n].answers)
    BY <1>4, <1>6 DEF StateOK
  <2> QED BY <1>5, <2>3, <2>4, NoThreeFits DEF block
<1>11. CASE n = 1 /\ sdus[1].lcid = 3
  <2> DEFINE r == after[1]
  <2>1. r = Handle(Begin, sdus[1])
    <3>1. 1 \in 1 .. n /\ 1 - 1 = 0
      BY <1>11
    <3> QED BY <1>7, <3>1
  <2>2. Handle(Begin, sdus[1]).answers = << >>
          \/ \E m : Handle(Begin, sdus[1]).answers = Append(<< >>, Reply(m))
    <3> DEFINE d == sdus[1]
               h == Handle(Begin, d)
    <3>1. d.lcid = 3
      BY <1>11
    <3> HIDE DEF d
    <3>2. h.answers = Begin.answers \/ \E m : h.answers = Append(Begin.answers, Reply(m))
      BY <1>8, <3>1, PacketAnswered
    <3> HIDE DEF h
    <3>3. h.answers = << >> \/ \E m : h.answers = Append(<< >>, Reply(m))
      BY <1>8, <3>2
    <3> QED BY <3>3 DEF h, d
  <2>3. \A m : Append(<< >>, Reply(m)) = << Reply(m) >>
    <3> TAKE m
    <3> DEFINE x == Reply(m)
    <3> HIDE DEF x
    <3>1. Append(<< >>, x) = << x >>
      OBVIOUS
    <3> QED BY <3>1 DEF x
  <2>4. AnswerFits(Handle(Begin, sdus[1]).answers)
    BY <1>9, <2>2, <2>3, ReplyFits
  <2> QED BY <1>5, <1>11, <2>1, <2>4 DEF block
<1>12. CASE n = 2 /\ sdus[1].lcid = 0 /\ IsRequest(sdus[1].bytes) /\ sdus[2].lcid = 3
  <2>1. PICK id : sdus[1].bytes = << MsgUnit("request", id) >>
    BY <1>12 DEF IsRequest
  <2> DEFINE a == Append(Append(<< >>, Echo(id)), Setup(id))
  <2>2. after[1] = Handle(Begin, sdus[1]) /\ after[2] = Handle(after[1], sdus[2])
    <3>1. 1 \in 1 .. n /\ 1 - 1 = 0 /\ 2 \in 1 .. n /\ 2 - 1 = 1
      BY <1>12
    <3> QED BY <1>7, <3>1
  <2>3. after[1].rx.poll = FALSE /\ after[1].answers = a
    <3> DEFINE d == sdus[1]
               h == Handle(Begin, d)
    <3>1. d.lcid = 0 /\ d.bytes = << MsgUnit("request", id) >>
      BY <1>12, <2>1
    <3> HIDE DEF d
    <3>2. h.rx.poll = FALSE /\ h.answers = Append(Append(Begin.answers, Echo(id)), Setup(id))
      BY <1>8, <3>1, RequestAnswered
    <3>3. h = after[1]
      BY <2>2 DEF d
    <3> HIDE DEF h
    <3> QED BY <1>8, <3>2, <3>3
  <2>4. StateOK(after[1])
    BY <1>6, <1>12
  <2>5. after[2].answers = a \/ \E m : after[2].answers = Append(a, Reply(m))
    <3> HIDE DEF a
    <3> DEFINE d == sdus[2]
               s == after[1]
               h == Handle(s, d)
    <3>1. d.lcid = 3 /\ StateOK(s) /\ s.rx.poll = FALSE
      BY <1>12, <2>3, <2>4
    <3> HIDE DEF d, s
    <3>2. h.answers = s.answers \/ \E m : h.answers = Append(s.answers, Reply(m))
      BY <3>1, PacketAnswered
    <3>3. h = after[2] /\ s.answers = a
      BY <2>2, <2>3 DEF d, s
    <3> HIDE DEF h
    <3> QED BY <3>2, <3>3
  <2>6. AnswerFits(a) /\ \A m : AnswerFits(Append(a, Reply(m)))
    BY TwoAnswers
  <2> HIDE DEF a
  <2>7. AnswerFits(after[2].answers)
    BY <2>5, <2>6
  <2> QED BY <1>5, <1>12, <2>7 DEF block
<1> QED BY <1>3, <1>10, <1>11, <1>12 DEF ThreeAlone, OnlyThree, n

----------------------------------------------------------------------------
(***************************************************************************)
(* What every step keeps: the shape of what the phone sends, so that no    *)
(* block holds a packet next to a message whose answer is long.            *)
(***************************************************************************)
\* Packets are sent by a phone that is attached, and such a phone has nothing
\* else to send but, perhaps, the request it began with.
SendingShape ==
  /\ sending[3] # << >> => phase = "attached"
  /\ phase = "attached" => sending[1] = << >>
  /\ sending[2] = << >>
  /\ \A i \in 1 .. Len(sending[0]) : IsRequest(sending[0][i])

UpShape == \A i \in 1 .. Len(up) : ThreeAlone(up[i].sdus)

DownWhole == rate.mcs >= 0 \/ rate.nrb >= 0 => \A i \in 1 .. Len(down) : Fits(down[i])

WholeInv == SendingShape /\ UpShape /\ DownWhole

LEMMA UpTailShape ==
  ASSUME ProtocolInv, UpShape, up # << >>, up' = Tail(up)
  PROVE  UpShape' /\ ThreeAlone(Head(up).sdus)
<1>1. Sequence(up)
  BY SeqIsSequence DEF ProtocolInv, UpOK
<1>2. /\ Len(Tail(up)) = Len(up) - 1 /\ Len(up) \in Nat \ {0}
      /\ \A i \in 1 .. Len(Tail(up)) : Tail(up)[i] = up[i + 1]
  BY <1>1, TailSequence
<1>3. ASSUME NEW i \in 1 .. Len(Tail(up)) PROVE ThreeAlone(Tail(up)[i].sdus)
  <2>1. i + 1 \in 1 .. Len(up)
    BY <1>2
  <2>2. ThreeAlone(up[i + 1].sdus)
    BY <2>1 DEF UpShape
  <2> QED BY <1>2, <2>2
<1>4. Head(up) = up[1] /\ 1 \in 1 .. Len(up)
  BY <1>2
<1>5. ThreeAlone(Head(up).sdus)
  BY <1>4 DEF UpShape
<1> QED BY <1>3, <1>5 DEF UpShape

LEMMA DownTailWhole ==
  ASSUME ProtocolInv, DownWhole, down # << >>, down' = Tail(down), rate' = rate
  PROVE  DownWhole'
<1>1. Sequence(down)
  BY DEF ProtocolInv, DownOK, Headed
<1>2. /\ Len(Tail(down)) = Len(down) - 1 /\ Len(down) \in Nat \ {0}
      /\ \A i \in 1 .. Len(Tail(down)) : Tail(down)[i] = down[i + 1]
  BY <1>1, TailSequence
<1>3. ASSUME rate.mcs >= 0 \/ rate.nrb >= 0, NEW i \in 1 .. Len(Tail(down))
      PROVE  Fits(Tail(down)[i])
  <2>1. i + 1 \in 1 .. Len(down)
    BY <1>2
  <2>2. Fits(down[i + 1])
    BY <1>3, <2>1 DEF DownWhole
  <2> QED BY <1>2, <2>2
<1> QED BY <1>3 DEF DownWhole

LEMMA DownAppendWhole ==
  ASSUME ProtocolInv, DownWhole, rate' = rate, NEW block, down' = Append(down, block),
         rate.mcs >= 0 \/ rate.nrb >= 0 => Fits(block)
  PROVE  DownWhole'
<1>1. Sequence(down) /\ Len(down) \in Nat
  BY DEF ProtocolInv, DownOK, Headed, Sequence
<1>2. /\ Len(down') = Len(down) + 1 /\ down'[Len(down) + 1] = block
      /\ \A i \in 1 .. Len(down) : down'[i] = down[i]
  BY <1>1, AppendSequence
<1>3. ASSUME rate.mcs >= 0 \/ rate.nrb >= 0, NEW i \in 1 .. Len(down')
      PROVE  Fits(down'[i])
  <2>1. i \in 1 .. Len(down) \/ i = Len(down) + 1
    BY <1>1, <1>2
  <2>2. CASE i = Len(down) + 1
    BY <1>2, <1>3, <2>2
  <2>3. CASE i \in 1 .. Len(down)
    <3>1. Fits(down[i])
      BY <1>3, <2>3 DEF DownWhole
    <3> QED BY <1>2, <2>3, <3>1
  <2> QED BY <2>1, <2>2, <2>3
<1> QED BY <1>3 DEF DownWhole

LEMMA ServeWhole ==
  ASSUME ProtocolInv, WholeInv, RrcBlock >= 27, Serve
  PROVE  WholeInv'
<1>1. PICK result \in {Result(Head(up).pdu)} :
         IF result.answers = <<>> THEN UNCHANGED <<down, trouble>>
         ELSE \/ Queue(InBlock(result.answers, RrcBlock)) /\ UNCHANGED trouble
              \/ Hit /\ UNCHANGED down
  BY DEF Serve
<1>2. up # << >> /\ up' = Tail(up) /\ UNCHANGED <<rate, phoneVars>>
  BY DEF Serve
<1>3. UpShape' /\ ThreeAlone(Head(up).sdus)
  BY <1>2, UpTailShape DEF WholeInv
<1>4. AnswerFits(result.answers)
  BY <1>1, <1>2, <1>3, AnswersWhole
<1>5. DownWhole'
  <2>1. CASE down' = down
    BY <1>2, <2>1 DEF WholeInv, DownWhole
  <2>2. CASE result.answers # << >> /\ Queue(InBlock(result.answers, RrcBlock))
    <3> DEFINE block == InBlock(result.answers, RrcBlock)
    <3>1. Fits(block) /\ down' = Append(down, block)
      BY <1>4, <2>2 DEF AnswerFits, Queue
    <3> HIDE DEF block
    <3> QED BY <1>2, <3>1, DownAppendWhole DEF WholeInv
  <2> QED BY <1>1, <2>1, <2>2
<1>6. SendingShape'
  BY <1>2 DEF WholeInv, SendingShape, phoneVars
<1> QED BY <1>3, <1>5, <1>6 DEF WholeInv

\* The chosen block has room for the packet and its headers.
LEMMA ScheduleWhole ==
  ASSUME ProtocolInv, WholeInv, RatesInTables, \A n \in NetLengths : n + 6 <= MaxAnswer,
         mac_tx_schedule_IP
  PROVE  WholeInv'
<1>1. PICK n \in NetLengths :
       LET sdus == mac_tx_get_IP_packets(n)
           len == Smaller(HeadBytes(sdus) + ByteLength(Bodies(sdus)), MaxAnswer)
           size == blockSize(rate, 8 * len)
       IN  IF size > 0 THEN Queue(InBlock(sdus, Smaller(size \div 8, MaxAnswer)))
           ELSE UNCHANGED down
  BY DEF mac_tx_schedule_IP
<1>2. UNCHANGED <<rate, phoneVars, up>>
  BY DEF mac_tx_schedule_IP
<1> DEFINE sdus == mac_tx_get_IP_packets(n)
           need == HeadBytes(sdus) + ByteLength(Bodies(sdus))
           len == Smaller(need, MaxAnswer)
           size == blockSize(rate, 8 * len)
           room == Smaller(size \div 8, MaxAnswer)
           block == InBlock(sdus, room)
<1>3. n \in Nat /\ n + 6 <= MaxAnswer /\ MaxAnswer \in Nat
  BY EndToEndAssumption, MacPduAssumption
<1>4. /\ need \in Nat /\ need <= n + 6
      /\ \A s \in Nat : need <= s => Fits(InBlock(sdus, s))
  BY <1>3, PacketFits
<1>5. size > 0 => down' = Append(down, block)
  BY <1>1 DEF Queue
<1>6. ~ (size > 0) => down' = down
  BY <1>1
<1> HIDE DEF sdus, need
<1>7. len = need
  BY <1>3, <1>4 DEF Smaller
<1> HIDE DEF len
<1>8. ASSUME rate.mcs >= 0 \/ rate.nrb >= 0, size > 0 PROVE Fits(block)
  <2>1. size \in Nat /\ size >= 8 * len
    <3>1. rate \in Rates /\ 8 * len \in Nat
      BY <1>4, <1>7 DEF ProtocolInv, PhoneOK
    <3> QED BY <1>8, <3>1, BlockLargeEnough
  <2> HIDE DEF size
  <2>2. size \div 8 \in Nat /\ size \div 8 >= need
    BY <1>4, <1>7, <2>1
  <2>3. room \in Nat /\ need <= room
    <3> DEFINE x == size \div 8
    <3>1. x \in Nat /\ need <= x
      BY <1>4, <2>2
    <3> HIDE DEF x
    <3>2. Smaller(x, MaxAnswer) \in Nat /\ need <= Smaller(x, MaxAnswer)
      BY <1>3, <1>4, <3>1 DEF Smaller
    <3> QED BY <3>2 DEF x
  <2> HIDE DEF room
  <2> QED BY <1>4, <2>3
<1> HIDE DEF size, block
<1>9. DownWhole'
  <2>1. CASE size > 0
    BY <1>2, <1>5, <1>8, <2>1, DownAppendWhole DEF WholeInv
  <2>2. CASE ~ (size > 0)
    BY <1>2, <1>6, <2>2 DEF WholeInv, DownWhole
  <2> QED BY <2>1, <2>2
<1>10. SendingShape' /\ UpShape'
  BY <1>2 DEF WholeInv, SendingShape, UpShape, phoneVars
<1> QED BY <1>9, <1>10 DEF WholeInv

\* Actions of the phone that leave the air alone.
LEMMA AirSame ==
  ASSUME WholeInv, SendingShape', UNCHANGED <<up, down, rate>>
  PROVE  WholeInv'
BY DEF WholeInv, UpShape, DownWhole

LEMMA FourChannels ==
  ASSUME ProtocolInv
  PROVE  /\ sending = [c \in Channel |-> sending[c]]
         /\ 0 \in Channel /\ 1 \in Channel /\ 2 \in Channel /\ 3 \in Channel
BY DEF ProtocolInv, PhoneOK, Channel

LEMMA RequestWhole ==
  ASSUME ProtocolInv, WholeInv, NEW c, Request(c)
  PROVE  WholeInv'
<1> DEFINE unit == MsgUnit("request", c)
           f == << unit >>
           parts == << f >>
<1>1. /\ phase' = "request" /\ sending' = [Empty EXCEPT ![0] = parts]
      /\ UNCHANGED <<stationVars, up, down>>
  BY DEF Request, MsgUnit
<1>2. IsRequest(f)
  BY DEF IsRequest
<1> HIDE DEF f
<1>3. Len(parts) = 1 /\ parts[1] = f
  OBVIOUS
<1> HIDE DEF parts
<1>4. /\ sending'[0] = parts /\ sending'[1] = << >> /\ sending'[2] = << >>
      /\ sending'[3] = << >>
  BY <1>1 DEF Empty, Channel
<1>5. \A i \in 1 .. 1 : i = 1
  OBVIOUS
<1>6. SendingShape'
  BY <1>1, <1>2, <1>3, <1>4, <1>5 DEF SendingShape
<1> QED BY <1>1, <1>6, AirSame DEF stationVars

\* Nothing but channel 1 changes, of a phone that does not become attached.
LEMMA SignallingShape ==
  ASSUME ProtocolInv, SendingShape, sending[3] = << >>, NEW parts,
         sending' = [sending EXCEPT ![1] = parts], phase' # "attached"
  PROVE  SendingShape'
<1>1. sending'[0] = sending[0] /\ sending'[2] = sending[2] /\ sending'[3] = sending[3]
  BY FourChannels
<1> QED BY <1>1 DEF SendingShape

LEMMA PacketShape ==
  ASSUME ProtocolInv, SendingShape, phase = "attached", phase' = phase, NEW parts,
         sending' = [sending EXCEPT ![3] = parts]
  PROVE  SendingShape'
<1>1. sending'[0] = sending[0] /\ sending'[1] = sending[1] /\ sending'[2] = sending[2]
  BY FourChannels
<1> QED BY <1>1 DEF SendingShape

LEMMA RetransmitWhole ==
  ASSUME ProtocolInv, WholeInv, Retransmit
  PROVE  WholeInv'
<1>1. /\ phase # "attached" /\ phase' = phase /\ UNCHANGED <<stationVars, up, down>>
      /\ sending' = [sending EXCEPT ![1] = << unacked >>]
  BY DEF Retransmit, Waiting
<1>2. sending[3] = << >>
  BY <1>1 DEF WholeInv, SendingShape
<1>3. SendingShape'
  BY <1>1, <1>2, SignallingShape DEF WholeInv
<1> QED BY <1>1, <1>3, AirSame DEF stationVars

LEMMA PacketWhole ==
  ASSUME ProtocolInv, WholeInv, SendPacket \/ SendStream \/ SendOther
  PROVE  WholeInv'
<1>1. /\ phase = "attached" /\ UNCHANGED <<stationVars, phase, up, down>>
      /\ \E parts : sending' = [sending EXCEPT ![3] = parts]
  BY DEF SendPacket, SendStream, SendOther, SendTest
<1>2. SendingShape'
  BY <1>1, PacketShape DEF WholeInv
<1> QED BY <1>1, <1>2, AirSame DEF stationVars

LEMMA DetachWhole ==
  ASSUME ProtocolInv, WholeInv, Detach
  PROVE  WholeInv'
<1>1. /\ sending = Empty /\ phase' = "detachRequest" /\ UNCHANGED <<stationVars, up, down>>
      /\ \E parts : sending' = [sending EXCEPT ![1] = parts]
  BY DEF Detach, Enqueue
<1>2. sending[3] = << >>
  BY <1>1 DEF Empty, Channel
<1>3. SendingShape'
  BY <1>1, <1>2, SignallingShape DEF WholeInv
<1> QED BY <1>1, <1>3, AirSame DEF stationVars

LEMMA ReceiveWhole ==
  ASSUME ProtocolInv, WholeInv, Receive
  PROVE  WholeInv'
<1>1. down # << >> /\ down' = Tail(down) /\ UNCHANGED <<stationVars, up>>
  BY DEF Receive
<1>2. DownWhole' /\ UpShape'
  BY <1>1, DownTailWhole DEF WholeInv, UpShape, stationVars
<1> DEFINE sdus == PhoneSdus(Head(down))
           echoed == \E k \in 1 .. Len(sdus) :
                       sdus[k].lcid = 28 /\ Head(sdus[k].bytes).id = conn
           commands == Commands(sdus)
           type == pdcp_decode(1, Tail(commands[1].bytes))[1].type
           established == phase \notin {"off", "request"}
           acked == Acknowledges(sdus)
<1>3. SendingShape
  BY DEF WholeInv
<1>4. ASSUME phase # "attached", NEW t, NEW next, next # "attached", Enqueue(t, next)
      PROVE  SendingShape'
  <2>1. sending[3] = << >>
    BY <1>3, <1>4 DEF SendingShape
  <2>2. phase' # "attached" /\ \E parts : sending' = [sending EXCEPT ![1] = parts]
    BY <1>4 DEF Enqueue
  <2> QED BY <1>3, <2>1, <2>2, SignallingShape
<1>5. CASE phase = "request" /\ echoed
  <2>1. Enqueue("setupComplete", "setupComplete")
    BY <1>5 DEF Receive
  <2>2. SendingShape'
    BY <1>4, <1>5, <2>1
  <2> QED BY <1>2, <2>2 DEF WholeInv
<1>6. CASE phase # "request" /\ established /\ commands # << >>
  <2>1. IF phase \in DOMAIN NextCommand /\ type = NextCommand[phase]
        THEN IF Response[type] = "completing" THEN EnqueueCompletes
             ELSE Enqueue(Response[type], Response[type])
        ELSE /\ phase' = IF phase = "detachRequest" THEN "off" ELSE phase
             /\ UNCHANGED <<vt, sending>>
    BY <1>6 DEF Receive
  <2> HIDE DEF sdus, type, commands, established, echoed, acked
  <2>2. CASE phase \in DOMAIN NextCommand /\ type = NextCommand[phase]
    <3>1. phase # "attached"
      BY <2>2 DEF NextCommand
    <3>2. type \in {"identityRequest", "authenticationRequest", "nasSecurityCommand",
                    "rrcSecurityCommand", "reconfiguration"}
      BY <2>2 DEF NextCommand
    <3>3. CASE Response[type] = "completing"
      <4>1. EnqueueCompletes
        BY <2>1, <2>2, <3>3
      <4>2. phase' # "attached" /\ \E parts : sending' = [sending EXCEPT ![1] = parts]
        BY <4>1 DEF EnqueueCompletes
      <4>3. sending[3] = << >>
        BY <1>3, <3>1 DEF SendingShape
      <4> QED BY <1>2, <1>3, <4>2, <4>3, SignallingShape DEF WholeInv
    <3>4. CASE Response[type] # "completing"
      <4>1. Enqueue(Response[type], Response[type])
        BY <2>1, <2>2, <3>4
      <4>2. Response[type] # "attached"
        BY <3>2 DEF Response
      <4>3. SendingShape'
        BY <1>4, <3>1, <4>1, <4>2
      <4> QED BY <1>2, <4>3 DEF WholeInv
    <3> QED BY <3>3, <3>4
  <2>3. CASE ~ (phase \in DOMAIN NextCommand /\ type = NextCommand[phase])
    <3>1. /\ phase' = IF phase = "detachRequest" THEN "off" ELSE phase
          /\ sending' = sending
      BY <2>1, <2>3
    <3>2. SendingShape'
      BY <1>3, <3>1 DEF SendingShape
    <3> QED BY <1>2, <3>2 DEF WholeInv
  <2> QED BY <2>2, <2>3
<1>7. CASE phase # "request" /\ established /\ commands = << >> /\ acked
  <2>1. /\ phase' = IF phase = "completing" /\ sending[1] = <<>> THEN "attached" ELSE phase
        /\ sending' = sending
    BY <1>7 DEF Receive
  <2>2. SendingShape'
    BY <1>3, <2>1 DEF SendingShape
  <2> QED BY <1>2, <2>2 DEF WholeInv
<1>8. CASE ~ \/ phase = "request" /\ echoed
             \/ established /\ commands # << >>
             \/ established /\ commands = << >> /\ acked
  <2>1. UNCHANGED <<phase, sending>>
    BY <1>8 DEF Receive
  <2>2. SendingShape'
    BY <1>3, <2>1 DEF SendingShape
  <2> QED BY <1>2, <2>2 DEF WholeInv
<1>9. established => phase # "request"
  OBVIOUS
<1> HIDE DEF echoed, acked, commands, established
<1> QED BY <1>5, <1>6, <1>7, <1>8, <1>9

\* What goes on the air with a packet, from a phone with nothing else to send
\* than a request.
LEMMA SentWithThree ==
  ASSUME NEW C \in SUBSET {0, 3}, 3 \in C
  PROVE  LET t == SentOn(C) IN
         \/ Len(t) = 1 /\ t[1] = 3
         \/ Len(t) = 2 /\ t[1] = 0 /\ t[2] = 3 /\ 0 \in C
<1> DEFINE s == << 0, 1, 2, 3 >>
           K == {c + 1 : c \in C}
<1>1a. s \in Seq(Channel)
  BY DEF Channel
<1>1. /\ Len(s) = 4
      /\ s[1] = 0 /\ s[2] = 1 /\ s[3] = 2 /\ s[4] = 3
  OBVIOUS
<1>2. 4 \in K /\ 2 \notin K /\ 3 \notin K /\ (1 \in K <=> 0 \in C)
  OBVIOUS
<1>3. SentOn(C) = Selected(s, K)
  BY DEF SentOn
<1> HIDE DEF s, K
<1>4. PICK kept : /\ Selected(s, K) = kept[Len(s)]
                  /\ kept[0] = << >>
                  /\ \A k \in 1 .. Len(s) :
                       kept[k] = IF k \in K THEN Append(kept[k - 1], s[k]) ELSE kept[k - 1]
  BY <1>1a, SelectedUnfolds
<1>5. /\ kept[1] = IF 1 \in K THEN Append(kept[1 - 1], s[1]) ELSE kept[1 - 1]
      /\ kept[2] = IF 2 \in K THEN Append(kept[2 - 1], s[2]) ELSE kept[2 - 1]
      /\ kept[3] = IF 3 \in K THEN Append(kept[3 - 1], s[3]) ELSE kept[3 - 1]
      /\ kept[4] = IF 4 \in K THEN Append(kept[4 - 1], s[4]) ELSE kept[4 - 1]
  <2>1. 1 \in 1 .. Len(s) /\ 2 \in 1 .. Len(s) /\ 3 \in 1 .. Len(s) /\ 4 \in 1 .. Len(s)
    BY <1>1
  <2> QED BY <1>4, <2>1
<1>6. 1 - 1 = 0 /\ 2 - 1 = 1 /\ 3 - 1 = 2 /\ 4 - 1 = 3
  OBVIOUS
<1>7. kept[1] = (IF 0 \in C THEN Append(<< >>, 0) ELSE << >>) /\ kept[3] = kept[1]
      /\ kept[4] = Append(kept[3], 3)
  <2>1. kept[1] = IF 0 \in C THEN Append(kept[0], 0) ELSE kept[0]
    BY <1>1, <1>2, <1>5, <1>6
  <2>2. kept[2] = kept[1] /\ kept[3] = kept[2] /\ kept[4] = Append(kept[3], 3)
    BY <1>1, <1>2, <1>5, <1>6
  <2> QED BY <1>4, <2>1, <2>2
<1> DEFINE t == kept[4]
<1>8. SentOn(C) = t
  BY <1>1, <1>3, <1>4
<1>9. CASE 0 \notin C
  <2>1. t = Append(<< >>, 3)
    BY <1>7, <1>9
  <2>2. Len(Append(<< >>, 3)) = 1 /\ Append(<< >>, 3)[1] = 3
    OBVIOUS
  <2> QED BY <1>8, <2>1, <2>2
<1>10. CASE 0 \in C
  <2>1. t = Append(Append(<< >>, 0), 3)
    BY <1>7, <1>10
  <2>2. /\ Len(Append(Append(<< >>, 0), 3)) = 2 /\ Append(Append(<< >>, 0), 3)[1] = 0
        /\ Append(Append(<< >>, 0), 3)[2] = 3
    OBVIOUS
  <2> QED BY <1>8, <1>10, <2>1, <2>2
<1> QED BY <1>9, <1>10

LEMMA SentShape ==
  ASSUME ProtocolInv, SendingShape, NEW C \in (SUBSET Busy) \ {{}}, NEW status \in BOOLEAN,
         status => 1 \in C
  PROVE  ThreeAlone(SentSdus(C, status))
<1> DEFINE sdus == SentSdus(C, status)
<1>1. C \in SUBSET Channel /\ C # {}
  BY DEF Busy
<1>2. \A k \in 1 .. Len(sdus) : sdus[k].lcid = 3 => 3 \in C
  BY <1>1, SentOnThree
<1>3. ASSUME 3 \in C PROVE OnlyThree(sdus)
  <2>1. sending[1] = << >> /\ sending[2] = << >>
    <3>1. sending[3] # << >>
      BY <1>3 DEF Busy
    <3> QED BY <3>1 DEF SendingShape
  <2>2. C \in SUBSET {0, 3} /\ ~ status
    <3>1. 1 \notin C /\ 2 \notin C
      BY <2>1 DEF Busy
    <3> QED BY <1>1, <3>1 DEF Channel
  <2> DEFINE t == SentOn(C)
             sub(k) == [lcid |-> t[k], bytes |-> Head(sending[t[k]])]
             fragments == [k \in 1 .. Len(t) |-> sub(k)]
             T == {sub(k) : k \in 1 .. Len(t)}
  <2>3. sdus = << >> \o fragments
    BY <2>2 DEF SentSdus
  <2>4. \/ Len(t) = 1 /\ t[1] = 3
        \/ Len(t) = 2 /\ t[1] = 0 /\ t[2] = 3 /\ 0 \in C
    BY <1>3, <2>2, SentWithThree
  <2>5. \A k : sub(k).lcid = t[k] /\ sub(k).bytes = Head(sending[t[k]])
    OBVIOUS
  <2> HIDE DEF t, sdus
  <2>6. Len(t) \in Nat
    BY <2>4
  <2>7. fragments \in Seq(T) /\ Len(fragments) = Len(t)
        /\ \A k \in 1 .. Len(t) : fragments[k] = sub(k)
    <3>1. \A k \in 1 .. Len(t) : sub(k) \in T
      OBVIOUS
    <3> HIDE DEF sub, T
    <3> QED BY <2>6, <3>1
  <2> HIDE DEF sub, fragments, T
  <2>8. << >> \o fragments = fragments
    BY <2>7
  <2>9. Len(sdus) = Len(t) /\ \A k \in 1 .. Len(t) : sdus[k] = sub(k)
    BY <2>3, <2>7, <2>8
  <2>10. CASE Len(t) = 1 /\ t[1] = 3
    <3>1. sdus[1] = sub(1)
      BY <2>9, <2>10
    <3>2. sdus[1].lcid = 3 /\ Len(sdus) = 1
      BY <2>5, <2>9, <2>10, <3>1
    <3> QED BY <3>2 DEF OnlyThree
  <2>11. CASE Len(t) = 2 /\ t[1] = 0 /\ t[2] = 3 /\ 0 \in C
    <3>1. sdus[1] = sub(1) /\ sdus[2] = sub(2)
      BY <2>9, <2>11
    <3>2. /\ sdus[1].lcid = 0 /\ sdus[1].bytes = Head(sending[0]) /\ sdus[2].lcid = 3
          /\ Len(sdus) = 2
      BY <2>5, <2>9, <2>11, <3>1
    <3>3. IsRequest(Head(sending[0]))
      <4> DEFINE old == sending[0]
      <4>1. old # << >> /\ old \in Seq(Fragment(test_IP, 0))
        BY <2>11, FourChannels DEF Busy, ProtocolInv, PhoneOK
      <4>2. \A i \in 1 .. Len(old) : IsRequest(old[i])
        BY DEF SendingShape
      <4> HIDE DEF old
      <4>3. Head(old) = old[1] /\ 1 \in 1 .. Len(old)
        BY <4>1
      <4> QED BY <4>2, <4>3 DEF old
    <3>4. IsRequest(sdus[1].bytes)
      BY <3>2, <3>3
    <3> QED BY <3>2, <3>4 DEF OnlyThree
  <2> QED BY <2>4, <2>10, <2>11
<1> QED BY <1>2, <1>3 DEF ThreeAlone

LEMMA SendWhole ==
  ASSUME ProtocolInv, WholeInv, Send
  PROVE  WholeInv'
<1>1. UNCHANGED <<stationVars, phase, down>>
  BY DEF Send
<1>2. PICK C \in (SUBSET Busy) \ {{}}, status \in BOOLEAN :
        /\ status => 1 \in C
        /\ up' = Append(up, [pdu |-> PhonePdu(status, SentSdus(C, status)),
                             sdus |-> SentSdus(C, status)])
        /\ sending' = Without(C)
  BY DEF Send, SentSdus, SentOn
<1> DEFINE s == SentSdus(C, status)
           block == [pdu |-> PhonePdu(status, s), sdus |-> s]
<1>3. ThreeAlone(s)
  BY <1>2, SentShape DEF WholeInv
<1> HIDE DEF s
<1>4. block.sdus = s /\ up' = Append(up, block)
  BY <1>2 DEF s
<1> HIDE DEF block
<1>5. /\ Len(up) \in Nat /\ Len(up') = Len(up) + 1 /\ up'[Len(up) + 1] = block
      /\ \A i \in 1 .. Len(up) : up'[i] = up[i]
  <2>1. Sequence(up)
    BY SeqIsSequence DEF ProtocolInv, UpOK
  <2> QED BY <1>4, <2>1, AppendSequence DEF Sequence
<1>6. UpShape'
  <2>1. ASSUME NEW i \in 1 .. Len(up') PROVE ThreeAlone(up'[i].sdus)
    <3>1. i \in 1 .. Len(up) \/ i = Len(up) + 1
      BY <1>5
    <3>2. CASE i = Len(up) + 1
      BY <1>3, <1>4, <1>5, <3>2
    <3>3. CASE i \in 1 .. Len(up)
      BY <1>5, <3>3 DEF WholeInv, UpShape
    <3> QED BY <3>1, <3>2, <3>3
  <2> QED BY <2>1 DEF UpShape
<1>7. \A c \in Channel : sending'[c] = IF c \in C THEN Tail(sending[c]) ELSE sending[c]
  BY <1>2 DEF Without
<1>8. \A c \in C : sending[c] # << >>
  BY <1>2 DEF Busy
<1>9. \A i \in 1 .. Len(sending'[0]) : IsRequest(sending'[0][i])
  <2> DEFINE old == sending[0]
             new == sending'[0]
  <2>1. new = IF 0 \in C THEN Tail(old) ELSE old
    BY <1>7, FourChannels
  <2>2. \A i \in 1 .. Len(old) : IsRequest(old[i])
    BY DEF WholeInv, SendingShape
  <2>3. Sequence(old)
    BY FourChannels, SeqIsSequence DEF ProtocolInv, PhoneOK
  <2>4. 0 \in C => old # << >>
    BY <1>8
  <2> HIDE DEF old, new
  <2>5. CASE 0 \in C
    <3>1. /\ Len(Tail(old)) = Len(old) - 1 /\ Len(old) \in Nat \ {0}
          /\ \A i \in 1 .. Len(Tail(old)) : Tail(old)[i] = old[i + 1]
      BY <2>3, <2>4, <2>5, TailSequence
    <3>2. ASSUME NEW i \in 1 .. Len(Tail(old)) PROVE IsRequest(Tail(old)[i])
      <4>1. i + 1 \in 1 .. Len(old)
        BY <3>1
      <4> QED BY <2>2, <3>1, <4>1
    <3> QED BY <2>1, <2>5, <3>2 DEF new
  <2>6. CASE 0 \notin C
    BY <2>1, <2>2, <2>6 DEF new
  <2> QED BY <2>5, <2>6
<1>10. SendingShape'
  <2>1. sending[2] = << >> /\ (phase = "attached" => sending[1] = << >>)
        /\ (sending[3] # << >> => phase = "attached")
    BY DEF WholeInv, SendingShape
  <2>2. sending'[2] = << >>
    BY <1>7, <1>8, <2>1, FourChannels
  <2>3. phase' = "attached" => sending'[1] = << >>
    BY <1>1, <1>7, <1>8, <2>1, FourChannels
  <2>4. sending'[3] # << >> => phase' = "attached"
    BY <1>1, <1>7, <1>8, <2>1, FourChannels
  <2> QED BY <1>9, <2>2, <2>3, <2>4 DEF SendingShape
<1>11. DownWhole'
  BY <1>1 DEF WholeInv, DownWhole, stationVars
<1> QED BY <1>6, <1>10, <1>11 DEF WholeInv

LEMMA LossWhole ==
  ASSUME ProtocolInv, WholeInv, LoseUp \/ LoseDown
  PROVE  WholeInv'
<1>1. UNCHANGED <<stationVars, phoneVars>>
  BY DEF LoseUp, LoseDown
<1>2. SendingShape'
  BY <1>1 DEF WholeInv, SendingShape, phoneVars
<1>3. CASE LoseUp
  <2>1. up # << >> /\ up' = Tail(up) /\ down' = down
    BY <1>3 DEF LoseUp
  <2>2. UpShape' /\ DownWhole'
    BY <1>1, <2>1, UpTailShape DEF WholeInv, DownWhole, stationVars
  <2> QED BY <1>2, <2>2 DEF WholeInv
<1>4. CASE LoseDown
  <2>1. down # << >> /\ down' = Tail(down) /\ up' = up
    BY <1>4 DEF LoseDown
  <2>2. UpShape' /\ DownWhole'
    BY <1>1, <2>1, DownTailWhole DEF WholeInv, UpShape, stationVars
  <2> QED BY <1>2, <2>2 DEF WholeInv
<1> QED BY <1>3, <1>4

LEMMA WholeBegins == Init => WholeInv
<1> SUFFICES ASSUME Init PROVE WholeInv
  OBVIOUS
<1>1. Len(<< >>) = 0 /\ 1 .. 0 = {}
  OBVIOUS
<1>2. /\ up = << >> /\ down = << >> /\ phase = "off" /\ sending[0] = << >>
      /\ sending[1] = << >> /\ sending[2] = << >> /\ sending[3] = << >>
  BY DEF Init, Empty, Channel
<1>3. UpShape
  BY <1>1, <1>2 DEF UpShape
<1>4. DownWhole
  BY <1>1, <1>2 DEF DownWhole
<1>5. SendingShape
  BY <1>1, <1>2 DEF SendingShape
<1> QED BY <1>3, <1>4, <1>5 DEF WholeInv

LEMMA WholePreserved ==
  ASSUME ProtocolInv, WholeInv, RrcBlock >= 27, RatesInTables,
         \A n \in NetLengths : n + 6 <= MaxAnswer, [Next]_vars
  PROVE  WholeInv'
<1>1. CASE UNCHANGED vars
  BY <1>1 DEF vars, stationVars, phoneVars, WholeInv, SendingShape, UpShape, DownWhole
<1>2. CASE clearStats
  BY <1>2 DEF clearStats, phoneVars, WholeInv, SendingShape, UpShape, DownWhole
<1>3. CASE Connect
  BY <1>3, RequestWhole DEF Connect
<1>4. CASE Timeout
  BY <1>4, RequestWhole DEF Timeout
<1> QED BY <1>1, <1>2, <1>3, <1>4, ServeWhole, ScheduleWhole, RetransmitWhole, SendWhole,
           ReceiveWhole, PacketWhole, DetachWhole, LossWhole DEF Next

----------------------------------------------------------------------------
(***************************************************************************)
(* The numbers of a list of SDUs.                                          *)
(***************************************************************************)
IsDataOn(c, x) == x.lcid = c /\ Head(x.bytes).dc = "data"

Ahead(c, a, k) == Cardinality({j \in DataOn(c, a) : j < k})

\* The messages on channel c are numbered from base on; n is next.
Numbered(c, a, base, n) ==
  /\ \A k \in DataOn(c, a) : Head(a[k].bytes).sn = (base + Ahead(c, a, k)) % SnMod
  /\ n = (base + Ahead(c, a, Len(a) + 1)) % SnMod

LEMMA AheadCounted ==
  ASSUME NEW a, Sequence(a), NEW c, NEW k
  PROVE  Ahead(c, a, k) \in Nat
<1>1. {j \in DataOn(c, a) : j < k} \subseteq 1 .. Len(a)
  BY DEF DataOn
<1>2. IsFiniteSet(1 .. Len(a))
  <2>1. 1 \in Int /\ Len(a) \in Int
    BY DEF Sequence
  <2> QED BY <2>1, FS_Interval
<1>3. IsFiniteSet({j \in DataOn(c, a) : j < k})
  BY <1>1, <1>2, FS_Subset
<1> QED BY <1>3, FS_CardinalityType DEF Ahead

\* One more SDU does not change what is ahead of the others.
LEMMA AheadOfOthers ==
  ASSUME NEW a, Sequence(a), NEW x, NEW c
  PROVE  LET b == Append(a, x) IN
         /\ Sequence(b) /\ Len(b) = Len(a) + 1 /\ b[Len(a) + 1] = x
         /\ \A k \in 1 .. Len(a) : b[k] = a[k]
         /\ \A k \in 1 .. Len(a) : k \in DataOn(c, b) <=> k \in DataOn(c, a)
         /\ \A k \in 1 .. Len(a) + 1 : Ahead(c, b, k) = Ahead(c, a, k)
         /\ Len(a) + 1 \in DataOn(c, b) <=> IsDataOn(c, x)
<1> DEFINE b == Append(a, x)
           n == Len(a)
<1>1. n \in Nat /\ Sequence(b) /\ Len(b) = n + 1 /\ b[n + 1] = x
      /\ \A i \in 1 .. n : b[i] = a[i]
  <2>1. n \in Nat
    BY DEF Sequence
  <2> QED BY <2>1, AppendSequence
<1> HIDE DEF b
<1>2. \A k \in 1 .. n : k \in DataOn(c, b) <=> k \in DataOn(c, a)
  BY <1>1 DEF DataOn
<1>3. ASSUME NEW k \in 1 .. n + 1 PROVE Ahead(c, b, k) = Ahead(c, a, k)
  <2>1. DataOn(c, a) \subseteq 1 .. n /\ DataOn(c, b) \subseteq 1 .. n + 1
    BY <1>1 DEF DataOn
  <2>2. \A j \in 1 .. n + 1 : j < k => j \in 1 .. n
    BY <1>1
  <2> HIDE DEF n
  <2>3. {j \in DataOn(c, b) : j < k} = {j \in DataOn(c, a) : j < k}
    <3>1. ASSUME NEW j \in DataOn(c, b), j < k PROVE j \in DataOn(c, a)
      BY <1>2, <2>1, <2>2, <3>1
    <3>2. ASSUME NEW j \in DataOn(c, a), j < k PROVE j \in DataOn(c, b)
      BY <1>2, <2>1, <3>2
    <3> QED BY <3>1, <3>2
  <2> QED BY <2>3 DEF Ahead
<1>4. n + 1 \in DataOn(c, b) <=> IsDataOn(c, x)
  <2>1. n + 1 \in 1 .. Len(b)
    BY <1>1
  <2> QED BY <1>1, <2>1 DEF DataOn, IsDataOn
<1> QED BY <1>1, <1>2, <1>3, <1>4 DEF b

\* An SDU that is no message of the channel takes no number.
LEMMA OtherNumbered ==
  ASSUME NEW a, Sequence(a), NEW c, NEW base, NEW n, Numbered(c, a, base, n),
         NEW x, ~ IsDataOn(c, x)
  PROVE  Numbered(c, Append(a, x), base, n)
<1> DEFINE b == Append(a, x)
           l == Len(a)
<1>1. /\ l \in Nat /\ Len(b) = l + 1
      /\ \A k \in 1 .. l : b[k] = a[k]
      /\ \A k \in 1 .. l : k \in DataOn(c, b) <=> k \in DataOn(c, a)
      /\ \A k \in 1 .. l + 1 : Ahead(c, b, k) = Ahead(c, a, k)
      /\ l + 1 \notin DataOn(c, b)
  <2>1. Len(a) \in Nat
    BY DEF Sequence
  <2> QED BY <2>1, AheadOfOthers
<1> HIDE DEF b
<1>2. DataOn(c, b) \subseteq 1 .. l + 1 /\ DataOn(c, a) \subseteq 1 .. l
  BY <1>1 DEF DataOn
<1> HIDE DEF l
<1>3. \A k \in DataOn(c, b) : k \in 1 .. l /\ k \in 1 .. l + 1 /\ k \in DataOn(c, a)
  <2> TAKE k \in DataOn(c, b)
  <2>1. k \in 1 .. l + 1 /\ k # l + 1
    BY <1>1, <1>2
  <2>2. k \in 1 .. l
    BY <1>1, <2>1
  <2> QED BY <1>1, <2>1, <2>2
<1>4. \A k \in DataOn(c, b) : Head(b[k].bytes).sn = (base + Ahead(c, b, k)) % SnMod
  <2> TAKE k \in DataOn(c, b)
  <2>1. b[k] = a[k] /\ Ahead(c, b, k) = Ahead(c, a, k) /\ k \in DataOn(c, a)
    BY <1>1, <1>3
  <2> QED BY <2>1 DEF Numbered
<1>5. Ahead(c, b, l + 2) = Ahead(c, a, l + 1)
  <2>1. \A k \in DataOn(c, b) : k < l + 1 /\ k < l + 2
    BY <1>1, <1>3
  <2>2. {j \in DataOn(c, b) : j < l + 2} = {j \in DataOn(c, b) : j < l + 1}
    BY <2>1
  <2>3. Ahead(c, b, l + 2) = Ahead(c, b, l + 1)
    BY <2>2 DEF Ahead
  <2>4. l + 1 \in 1 .. l + 1
    BY <1>1
  <2> QED BY <1>1, <2>3, <2>4
<1>6. Len(b) + 1 = l + 2
  BY <1>1
<1> QED BY <1>4, <1>5, <1>6 DEF Numbered, b, l

\* A message takes the next number.
LEMMA MessageNumbered ==
  ASSUME NEW a, Sequence(a), NEW c, NEW base \in Nat, NEW n, Numbered(c, a, base, n),
         NEW x, IsDataOn(c, x), Head(x.bytes).sn = n
  PROVE  Numbered(c, Append(a, x), base, (n + 1) % SnMod)
<1> DEFINE b == Append(a, x)
           l == Len(a)
<1>1. /\ l \in Nat /\ Len(b) = l + 1 /\ b[l + 1] = x /\ Sequence(b)
      /\ \A k \in 1 .. l : b[k] = a[k]
      /\ \A k \in 1 .. l : k \in DataOn(c, b) <=> k \in DataOn(c, a)
      /\ \A k \in 1 .. l + 1 : Ahead(c, b, k) = Ahead(c, a, k)
      /\ l + 1 \in DataOn(c, b)
  <2>1. Len(a) \in Nat
    BY DEF Sequence
  <2> QED BY <2>1, AheadOfOthers
<1> HIDE DEF b
<1>2. DataOn(c, b) \subseteq 1 .. l + 1 /\ DataOn(c, a) \subseteq 1 .. l
  BY <1>1 DEF DataOn
<1> HIDE DEF l
<1>3. \A k \in DataOn(c, b) : Head(b[k].bytes).sn = (base + Ahead(c, b, k)) % SnMod
  <2> TAKE k \in DataOn(c, b)
  <2>1. k \in 1 .. l + 1 /\ (k = l + 1 \/ k \in 1 .. l)
    BY <1>1, <1>2
  <2>2. CASE k = l + 1
    <3>1. Ahead(c, b, k) = Ahead(c, a, l + 1) /\ b[k] = x
      BY <1>1, <2>1, <2>2
    <3> QED BY <3>1 DEF Numbered, l
  <2>3. CASE k \in 1 .. l
    <3>1. b[k] = a[k] /\ Ahead(c, b, k) = Ahead(c, a, k) /\ k \in DataOn(c, a)
      BY <1>1, <2>1, <2>3
    <3> QED BY <3>1 DEF Numbered
  <2> QED BY <2>1, <2>2, <2>3
<1>4. Ahead(c, b, l + 2) = Ahead(c, a, l + 1) + 1
  <2> DEFINE D == {j \in DataOn(c, b) : j < l + 1}
  <2>1. {j \in DataOn(c, b) : j < l + 2} = D \union {l + 1}
    <3>1. \A j \in 1 .. l + 1 : j < l + 2 /\ (j < l + 1 \/ j = l + 1)
      BY <1>1
    <3>2. \A j \in DataOn(c, b) : j < l + 2 /\ (j < l + 1 \/ j = l + 1)
      BY <1>2, <3>1
    <3> QED BY <1>1, <3>2
  <2>2. l + 1 \notin D
    BY <1>1
  <2>3. IsFiniteSet(D)
    <3>1. IsFiniteSet(1 .. l + 1)
      BY <1>1, FS_Interval
    <3> QED BY <1>2, <3>1, FS_Subset
  <2>4. Cardinality(D \union {l + 1}) = Cardinality(D) + 1
    BY <2>2, <2>3, FS_AddElement
  <2>5. Ahead(c, b, l + 2) = Ahead(c, b, l + 1) + 1
    BY <2>1, <2>4 DEF Ahead
  <2>6. l + 1 \in 1 .. l + 1
    BY <1>1
  <2> QED BY <1>1, <2>5, <2>6
<1>5. (n + 1) % SnMod = (base + Ahead(c, b, Len(b) + 1)) % SnMod
  <2> DEFINE m == Ahead(c, a, l + 1)
  <2>1. m \in Nat
    BY AheadCounted
  <2>2. n = (base + m) % SnMod
    BY DEF Numbered, l
  <2>3. Len(b) + 1 = l + 2
    BY <1>1
  <2>4. Ahead(c, b, Len(b) + 1) = m + 1
    BY <1>4, <2>3
  <2> HIDE DEF m
  <2>5. base + m \in Int /\ 1 \in Int /\ SnMod \in Nat \ {0}
    BY <2>1, RlcAssumption
  <2>6. (((base + m) % SnMod) + 1) % SnMod = ((base + m) + 1) % SnMod
    BY <2>5, ResidueTakenEarly
  <2>7. base + (m + 1) = (base + m) + 1
    BY <2>1
  <2> QED BY <2>2, <2>4, <2>6, <2>7
<1> QED BY <1>3, <1>5 DEF Numbered, b

LEMMA NoneNumbered ==
  ASSUME NEW c, NEW base \in 0 .. SnMod - 1
  PROVE  Numbered(c, << >>, base, base)
<1>1. DataOn(c, << >>) = {}
  <2>1. Len(<< >>) = 0
    OBVIOUS
  <2> QED BY <2>1 DEF DataOn
<1>2. Ahead(c, << >>, Len(<< >>) + 1) = 0
  <2>1. {j \in DataOn(c, << >>) : j < Len(<< >>) + 1} = {}
    BY <1>1
  <2> QED BY <2>1, FS_EmptySet DEF Ahead
<1>3. (base + 0) % SnMod = base
  <2>1. base + 0 = base
    OBVIOUS
  <2> QED BY <2>1, SmallRemainder, RlcAssumption
<1> QED BY <1>1, <1>2, <1>3 DEF Numbered

\* SDUs with bytes; the echo of a request has one unit.
Speakable(x) ==
  /\ x.lcid \in Channel \union {28} /\ Sequence(x.bytes) /\ x.bytes # << >>
  /\ x.lcid = 28 => Len(x.bytes) = 1

Bytefull(a) == Sequence(a) /\ \A k \in 1 .. Len(a) : Speakable(a[k])

Opens(a) == \E k \in 1 .. Len(a) : a[k].lcid = 28

LEMMA BytefullAppend ==
  ASSUME NEW a, Bytefull(a), NEW x, Speakable(x)
  PROVE  /\ Bytefull(Append(a, x))
         /\ Opens(Append(a, x)) <=> Opens(a) \/ x.lcid = 28
<1> DEFINE b == Append(a, x)
           n == Len(a)
<1>1. n \in Nat /\ Sequence(a)
  BY DEF Bytefull, Sequence
<1>2. /\ Sequence(b) /\ Len(b) = n + 1 /\ b[n + 1] = x
      /\ \A i \in 1 .. n : b[i] = a[i]
  BY <1>1, AppendSequence
<1> HIDE DEF b
<1>3. /\ \A k \in 1 .. Len(b) : k \in 1 .. n \/ k = n + 1
      /\ \A k \in 1 .. n : k \in 1 .. Len(b)
      /\ n + 1 \in 1 .. Len(b)
  BY <1>1, <1>2
<1>4. Bytefull(b)
  <2>1. ASSUME NEW k \in 1 .. Len(b) PROVE Speakable(b[k])
    <3>1. CASE k = n + 1
      BY <1>2, <3>1
    <3>2. CASE k \in 1 .. n
      <4>1. b[k] = a[k]
        BY <1>2, <3>2
      <4> QED BY <3>2, <4>1 DEF Bytefull
    <3> QED BY <1>3, <3>1, <3>2
  <2> QED BY <1>2, <2>1 DEF Bytefull
<1>5. ASSUME Opens(b) PROVE Opens(a) \/ x.lcid = 28
  <2>1. PICK k \in 1 .. Len(b) : b[k].lcid = 28
    BY <1>5 DEF Opens
  <2>2. CASE k = n + 1
    BY <1>2, <2>1, <2>2
  <2>3. CASE k \in 1 .. n
    BY <1>2, <2>1, <2>3 DEF Opens
  <2> QED BY <1>3, <2>2, <2>3
<1>6. ASSUME Opens(a) PROVE Opens(b)
  <2>1. PICK k \in 1 .. n : a[k].lcid = 28
    BY <1>6 DEF Opens
  <2>2. k \in 1 .. Len(b) /\ b[k] = a[k]
    BY <1>2, <1>3
  <2> QED BY <2>1, <2>2 DEF Opens
<1>7. ASSUME x.lcid = 28 PROVE Opens(b)
  BY <1>2, <1>3, <1>7 DEF Opens
<1> QED BY <1>4, <1>5, <1>6, <1>7 DEF b

\* The headers of an answer.
LEMMA EncodedBytes ==
  ASSUME NEW c \in Channel \union {28}, NEW n, NEW bytes, Sequence(bytes), bytes # << >>
  PROVE  LET r == rlc_encode(c, n, pdcp_encode(c, bytes)) IN
         /\ Sequence(r) /\ r # << >>
         /\ c \in 1 .. 3 => Head(r).dc = "data" /\ Head(r).sn = n
         /\ c = 28 => r = bytes
<1> DEFINE p == pdcp_encode(c, bytes)
           r == rlc_encode(c, n, p)
<1>1. c \in {0, 28} \/ c \in 1 .. 3
  BY DEF Channel
<1>2. CASE c \in {0, 28}
  <2>1. p = bytes
    BY <1>2 DEF pdcp_encode, AM
  <2>2. r = bytes /\ c \notin 1 .. 3
    BY <1>2, <2>1 DEF rlc_encode
  <2> HIDE DEF r
  <2> QED BY <2>2 DEF r, p
<1>3. CASE c \in 1 .. 3
  <2>0. ~ (c = 0 \/ c >= 28)
    BY <1>3
  <2>1. Sequence(p)
    <3>1. Sequence(<< PdcpData >>) /\ Sequence(<< MacI >>)
      BY OneIsSequence
    <3>2. Sequence(<< PdcpData >> \o bytes)
      BY <3>1, ConcatSequence
    <3>3. Sequence((<< PdcpData >> \o bytes) \o << MacI >>)
      BY <3>1, <3>2, ConcatSequence
    <3>4. CASE c \in AM
      <4>1. p = (<< PdcpData >> \o bytes) \o << MacI >>
        BY <2>0, <3>4 DEF pdcp_encode
      <4> QED BY <3>3, <4>1
    <3>5. CASE c \notin AM
      <4>1. p = << PdcpData >> \o bytes
        BY <2>0, <3>5 DEF pdcp_encode
      <4> QED BY <3>2, <4>1
    <3> QED BY <3>4, <3>5
  <2> DEFINE h == [kind |-> "rlc", dc |-> "data", p |-> c \in AM, e |-> 0,
                   first |-> TRUE, last |-> TRUE, sn |-> n]
             T == {p[i] : i \in 1 .. Len(p)}
  <2>2. r = << h >> \o p
    BY <2>0 DEF rlc_encode
  <2>3. h.dc = "data" /\ h.sn = n
    OBVIOUS
  <2> HIDE DEF h, p
  <2>4. p \in Seq(T)
    BY <2>1, SequenceIsSeq
  <2> HIDE DEF T
  <2>5. Head(<< h >> \o p) = h /\ << h >> \o p # << >>
    BY <2>4, FirstAndRest
  <2>6. Sequence(<< h >> \o p)
    BY <2>1, OneIsSequence, ConcatSequence
  <2> HIDE DEF r
  <2>7. Sequence(r) /\ r # << >> /\ Head(r).dc = "data" /\ Head(r).sn = n
    BY <2>2, <2>3, <2>5, <2>6
  <2>8. c # 28
    BY <1>3
  <2> QED BY <2>7, <2>8 DEF r, p
<1> QED BY <1>1, <1>2, <1>3

\* The counters while a block is handled, each begun at base.
Counting(s, base) ==
  /\ Fields(s) /\ Bytefull(s.answers)
  /\ s.sn \in [Channel -> 0 .. SnMod - 1]
  /\ base \in [1 .. 3 -> Nat]
  /\ \A c \in 1 .. 3 : Numbered(c, s.answers, base[c], s.sn[c])

LEMMA EncodeNumbers ==
  ASSUME NEW s, NEW base, Counting(s, base), NEW plain, Speakable(plain)
  PROVE  LET e == Encode(s, plain) IN
         /\ Counting(e, base) /\ e.rx = s.rx
         /\ Opens(e.answers) <=> Opens(s.answers) \/ plain.lcid = 28
<1> DEFINE d == plain.lcid
           n == IF d \in Channel THEN s.sn[d] ELSE 0
           sn == IF d \in Channel THEN [s.sn EXCEPT ![d] = nextSn(d, n)] ELSE s.sn
           x == [lcid |-> d, bytes |-> rlc_encode(d, n, pdcp_encode(d, plain.bytes))]
           e == [buffer |-> s.buffer, sn |-> sn, stats |-> s.stats, heard |-> s.heard,
                 delivered |-> s.delivered, answers |-> Append(s.answers, x), rx |-> s.rx]
<1>0. Fields(s)
  BY DEF Counting
<1>1. Encode(s, plain) = e
  <2>2. Encode(s, plain) = [s EXCEPT !.sn = sn, !.answers = Append(s.answers, x)]
    <3> HIDE DEF x
    <3> QED BY <1>0 DEF Encode, x, Fields
  <2> HIDE DEF x, sn
  <2> QED BY <1>0, <2>2 DEF Fields
<1>2. x.lcid = d /\ Speakable(x)
      /\ (d \in 1 .. 3 => Head(x.bytes).dc = "data" /\ Head(x.bytes).sn = n)
  <2> DEFINE r == rlc_encode(d, n, pdcp_encode(d, plain.bytes))
  <2>1. /\ Sequence(r) /\ r # << >>
        /\ d \in 1 .. 3 => Head(r).dc = "data" /\ Head(r).sn = n
        /\ d = 28 => r = plain.bytes
    <3> HIDE DEF n
    <3> QED BY EncodedBytes DEF Speakable
  <2> HIDE DEF r, n
  <2>2. x.lcid = d /\ x.bytes = r
    BY DEF r
  <2> HIDE DEF x
  <2>3. d \in Channel \union {28} /\ (d = 28 => Len(plain.bytes) = 1)
    BY DEF Speakable
  <2> QED BY <2>1, <2>2, <2>3 DEF Speakable
<1> HIDE DEF x
<1>3. sn \in [Channel -> 0 .. SnMod - 1]
  BY NextSnInRange DEF Counting
<1>4. ASSUME NEW c \in 1 .. 3
      PROVE  Numbered(c, Append(s.answers, x), base[c], sn[c])
  <2>0. c \in Channel /\ Sequence(s.answers) /\ s.sn \in [Channel -> 0 .. SnMod - 1]
        /\ base[c] \in Nat
    BY DEF Channel, Counting, Bytefull
  <2>1. Numbered(c, s.answers, base[c], s.sn[c])
    BY DEF Counting
  <2>2. CASE d = c
    <3>1. IsDataOn(c, x) /\ Head(x.bytes).sn = s.sn[c]
      BY <1>2, <2>0, <2>2 DEF IsDataOn
    <3>2. sn[c] = (s.sn[c] + 1) % SnMod
      <4>1. ~ (c = 0 \/ c >= 28)
        OBVIOUS
      <4>2. nextSn(c, s.sn[c]) = (s.sn[c] + 1) % SnMod
        BY <4>1 DEF nextSn
      <4> QED BY <2>0, <2>2, <4>2
    <3> QED BY <2>0, <2>1, <3>1, <3>2, MessageNumbered
  <2>3. CASE d # c
    <3>1. ~ IsDataOn(c, x)
      BY <1>2, <2>3 DEF IsDataOn
    <3>2. sn[c] = s.sn[c]
      BY <2>0, <2>3
    <3> QED BY <2>0, <2>1, <3>1, <3>2, OtherNumbered
  <2> QED BY <2>2, <2>3
<1>5. /\ Bytefull(Append(s.answers, x))
      /\ Opens(Append(s.answers, x)) <=> Opens(s.answers) \/ d = 28
  BY <1>2, BytefullAppend DEF Counting
<1> HIDE DEF sn
<1>6. /\ Fields(e) /\ e.rx = s.rx /\ e.answers = Append(s.answers, x) /\ e.sn = sn
  BY DEF Fields
<1>7. base \in [1 .. 3 -> Nat]
  BY DEF Counting
<1> HIDE DEF e
<1>8. Counting(e, base)
  BY <1>3, <1>4, <1>5, <1>6, <1>7 DEF Counting
<1> QED BY <1>1, <1>5, <1>6, <1>8

LEMMA EncodeAllNumbers ==
  ASSUME NEW s, NEW base, Counting(s, base), NEW plain, Sequence(plain),
         \A k \in 1 .. Len(plain) : Speakable(plain[k])
  PROVE  LET e == EncodeAll(s, plain) IN
         /\ Counting(e, base) /\ e.rx = s.rx
         /\ Opens(e.answers) <=> Opens(s.answers) \/ Opens(plain)
<1>0. Len(plain) \in Nat
  BY DEF Sequence
<1>1a. \E after : /\ EncodeAll(s, plain) = after[Len(plain)] /\ after[0] = s
                  /\ \A k \in 1 .. Len(plain) : after[k] = Encode(after[k - 1], plain[k])
  <2>1. PICK after : EncodingSteps(after, s, plain)
    BY ONLY <1>0, EncodeAllSteps
  <2> QED BY ONLY <2>1 DEF EncodingSteps
<1> DEFINE n == Len(plain)
           e == EncodeAll(s, plain)
<1>1. n \in Nat
  BY <1>0
<1>2. PICK after : /\ e = after[n] /\ after[0] = s
                   /\ \A k \in 1 .. n : after[k] = Encode(after[k - 1], plain[k])
  BY ONLY <1>1a
<1> DEFINE Q(m) == /\ Counting(after[m], base) /\ after[m].rx = s.rx
                   /\ Opens(after[m].answers)
                        <=> Opens(s.answers) \/ \E k \in 1 .. m : plain[k].lcid = 28
           P == {m \in 0 .. n : Q(m)}
<1>3. 0 \in P
  <2>1. ~ \E k \in 1 .. 0 : plain[k].lcid = 28
    OBVIOUS
  <2> QED BY <1>1, <1>2, <2>1
<1>4. ASSUME NEW k \in 1 .. n, k - 1 \in P PROVE k \in P
  <2>1. Q(k - 1) /\ k \in 0 .. n
    BY <1>1, <1>4
  <2>2. LET r == after[k] IN
        /\ Counting(r, base) /\ r.rx = after[k - 1].rx
        /\ Opens(r.answers) <=> Opens(after[k - 1].answers) \/ plain[k].lcid = 28
    <3>1. Counting(after[k - 1], base) /\ Speakable(plain[k])
      BY <2>1
    <3>2. after[k] = Encode(after[k - 1], plain[k])
      BY <1>2
    <3> QED BY <3>1, <3>2, EncodeNumbers
  <2>3. (\E i \in 1 .. k : plain[i].lcid = 28)
          <=> (\E i \in 1 .. k - 1 : plain[i].lcid = 28) \/ plain[k].lcid = 28
    <3>1. \A i \in 1 .. k : i \in 1 .. k - 1 \/ i = k
      BY <1>1
    <3>2. k \in 1 .. k /\ \A i \in 1 .. k - 1 : i \in 1 .. k
      BY <1>1
    <3> QED BY <3>1, <3>2
  <2>4. Q(k)
    BY <2>1, <2>2, <2>3
  <2> HIDE DEF Q
  <2> QED BY <2>1, <2>4
<1>5. Q(n)
  <2> HIDE DEF P, n
  <2>1. 0 .. n \subseteq P
    BY <1>1, <1>3, <1>4, IntervalInduction
  <2>2. n \in P
    BY <1>1, <2>1
  <2> HIDE DEF Q
  <2> QED BY <2>2 DEF P
<1> QED BY <1>2, <1>5 DEF Opens

\* A status report takes no number.
LEMMA ReportNumbers ==
  ASSUME NEW s, NEW base, Counting(s, base), NEW c \in Channel, NEW b
  PROVE  LET e == Report(s, c, b) IN
         Counting(e, base) /\ (Opens(e.answers) <=> Opens(s.answers))
<1> DEFINE x == [lcid |-> c, bytes |-> StatusReport(s.rx.sn)]
           e == [buffer |-> s.buffer, sn |-> s.sn, stats |-> s.stats, heard |-> s.heard,
                 delivered |-> s.delivered, answers |-> Append(s.answers, x), rx |-> s.rx]
<1>0. Fields(s)
  BY DEF Counting
<1>1. CASE ~ s.rx.poll
  <2>1. Report(s, c, b) = s
    BY <1>1 DEF Report
  <2> QED BY <2>1
<1>2. CASE s.rx.poll
  <2>1. Report(s, c, b) = e
    <3>1. Report(s, c, b) = [s EXCEPT !.answers = Append(s.answers, x)]
      BY <1>2 DEF Report
    <3> HIDE DEF x
    <3> QED BY <1>0, <3>1 DEF Fields
  <2> DEFINE u == [kind |-> "rlc", dc |-> "status", p |-> FALSE, e |-> 0,
                   first |-> TRUE, last |-> TRUE, sn |-> (s.rx.sn + 1) % SnMod]
  <2>2. x.lcid = c /\ c # 28 /\ Speakable(x) /\ Head(x.bytes).dc = "status"
    <3>1. x.lcid = c /\ x.bytes = << u >> /\ u.dc = "status"
      BY DEF StatusReport
    <3> HIDE DEF x, u
    <3>2. Head(<< u >>) = u
      OBVIOUS
    <3>3. c # 28
      BY DEF Channel
    <3> QED BY <3>1, <3>2, <3>3, OneIsSequence DEF Speakable
  <2> HIDE DEF x
  <2>3. \A d \in 1 .. 3 : Numbered(d, Append(s.answers, x), base[d], s.sn[d])
    <3> TAKE d \in 1 .. 3
    <3>1. ~ IsDataOn(d, x)
      BY <2>2 DEF IsDataOn
    <3>2. Sequence(s.answers) /\ Numbered(d, s.answers, base[d], s.sn[d])
      BY DEF Counting, Bytefull
    <3> QED BY <3>1, <3>2, OtherNumbered
  <2>4. /\ Bytefull(Append(s.answers, x))
        /\ Opens(Append(s.answers, x)) <=> Opens(s.answers)
    BY <2>2, BytefullAppend DEF Counting
  <2>5. Fields(e) /\ e.answers = Append(s.answers, x) /\ e.sn = s.sn
    BY DEF Fields
  <2> HIDE DEF e
  <2>6. Counting(e, base)
    BY <2>3, <2>4, <2>5 DEF Counting
  <2> QED BY <2>1, <2>4, <2>5, <2>6
<1> QED BY <1>1, <1>2

\* Answers that can be encoded; open tells whether a set-up is among them.
Spoken(a, open) ==
  /\ Sequence(a) /\ \A k \in 1 .. Len(a) : Speakable(a[k])
  /\ Opens(a) <=> open

LEMMA NothingSpoken == Spoken(<< >>, FALSE)
<1>1. Sequence(<< >>) /\ Len(<< >>) = 0
  BY SeqIsSequence, << >> \in Seq({})
<1> QED BY <1>1 DEF Spoken, Opens

LEMMA OneSpoken ==
  ASSUME NEW x, Speakable(x), x.lcid # 28
  PROVE  Spoken(<< x >>, FALSE)
<1>1. Sequence(<< x >>) /\ Len(<< x >>) = 1 /\ << x >>[1] = x
  BY OneIsSequence
<1> DEFINE a == << x >>
<1> HIDE DEF a
<1>2. \A k \in 1 .. Len(a) : a[k] = x
  BY <1>1 DEF a
<1> QED BY <1>1, <1>2 DEF Spoken, Opens, a

LEMMA TwoSpoken ==
  ASSUME NEW x, NEW y, Speakable(x), Speakable(y), y.lcid # 28
  PROVE  Spoken(<< x, y >>, x.lcid = 28)
<1> DEFINE a == << x, y >>
<1>1. a \in Seq({x, y}) /\ Len(a) = 2 /\ a[1] = x /\ a[2] = y
  OBVIOUS
<1> HIDE DEF a
<1>2. Sequence(a)
  BY <1>1, SeqIsSequence
<1>3. \A k \in 1 .. Len(a) : k = 1 \/ k = 2
  BY <1>1
<1>4. \A k \in 1 .. Len(a) : Speakable(a[k])
  BY <1>1, <1>3
<1>5. Opens(a) <=> x.lcid = 28
  <2>1. 1 \in 1 .. Len(a)
    BY <1>1
  <2>2. Opens(a) => x.lcid = 28
    <3>1. ASSUME NEW k \in 1 .. Len(a), a[k].lcid = 28 PROVE x.lcid = 28
      BY <1>1, <1>3, <3>1
    <3> QED BY <3>1 DEF Opens
  <2>3. x.lcid = 28 => Opens(a)
    BY <1>1, <2>1 DEF Opens
  <2> QED BY <2>2, <2>3
<1> QED BY <1>2, <1>4, <1>5 DEF Spoken, a

LEMMA MoreSpoken ==
  ASSUME NEW a, NEW open, Spoken(a, open), NEW t, Spoken(t, FALSE)
  PROVE  Spoken(a \o t, open)
<1> DEFINE R == {a[i] : i \in 1 .. Len(a)}
           T == {t[i] : i \in 1 .. Len(t)}
           b == a \o t
<1>1. Sequence(a) /\ Sequence(t) /\ Len(a) \in Nat /\ Len(t) \in Nat
  BY DEF Spoken, Sequence
<1>2. a \in Seq(R \union T) /\ t \in Seq(R \union T)
  <2>1. a \in Seq(R) /\ t \in Seq(T)
    BY <1>1, SequenceIsSeq
  <2> HIDE DEF R, T
  <2> QED BY <2>1, SeqMonotonic
<1> HIDE DEF R, T
<1>3. /\ Sequence(b) /\ Len(b) = Len(a) + Len(t)
      /\ \A i \in 1 .. Len(a) + Len(t) : b[i] = IF i <= Len(a) THEN a[i] ELSE t[i - Len(a)]
  <2>1. Sequence(b)
    BY <1>1, ConcatSequence
  <2> QED BY <1>2, <2>1, ConcatProperties
<1> HIDE DEF b
<1>4. ASSUME NEW i \in 1 .. Len(b)
      PROVE  \/ i \in 1 .. Len(a) /\ b[i] = a[i]
             \/ \E j \in 1 .. Len(t) : b[i] = t[j]
  <2>1. CASE i <= Len(a)
    <3>1. i \in 1 .. Len(a) /\ b[i] = a[i]
      BY <1>1, <1>3, <2>1
    <3> QED BY <3>1
  <2>2. CASE ~ (i <= Len(a))
    <3>1. i - Len(a) \in 1 .. Len(t) /\ b[i] = t[i - Len(a)]
      BY <1>1, <1>3, <2>2
    <3> QED BY <3>1
  <2> QED BY <2>1, <2>2
<1>5. \A k \in 1 .. Len(b) : Speakable(b[k])
  BY <1>4 DEF Spoken
<1>6. ASSUME Opens(b) PROVE Opens(a)
  <2>1. PICK k \in 1 .. Len(b) : b[k].lcid = 28
    BY <1>6 DEF Opens
  <2>2. \A j \in 1 .. Len(t) : t[j].lcid # 28
    BY DEF Spoken, Opens
  <2> QED BY <1>4, <2>1, <2>2 DEF Opens
<1>7. ASSUME Opens(a) PROVE Opens(b)
  <2>1. PICK k \in 1 .. Len(a) : a[k].lcid = 28
    BY <1>7 DEF Opens
  <2>2. k \in 1 .. Len(b) /\ b[k] = a[k]
    BY <1>1, <1>3
  <2> QED BY <2>1, <2>2 DEF Opens
<1> QED BY <1>3, <1>5, <1>6, <1>7 DEF Spoken, b

LEMMA AnswerSpeakable ==
  ASSUME NEW c \in Channel, NEW type, NEW id
  PROVE  Speakable(answer(c, type, id)) /\ answer(c, type, id).lcid = c /\ c # 28
<1> DEFINE u == [kind |-> "msg", type |-> type, id |-> id, k |-> 1]
<1>1. answer(c, type, id) = [lcid |-> c, bytes |-> << u >>]
  BY DEF answer
<1> HIDE DEF u
<1>2. Sequence(<< u >>) /\ << u >> # << >>
  BY OneIsSequence
<1>3. c # 28
  BY DEF Channel
<1> QED BY <1>1, <1>2, <1>3 DEF Speakable

\* What end_to_end has to say to an SDU; a set-up is for a request.
LEMMA PlainSpoken ==
  ASSUME NEW s, NEW sdu, sdu.lcid \in Channel,
         sdu.lcid = 0 => Sequence(sdu.bytes) /\ Len(sdu.bytes) = 1
  PROVE  Spoken(PlainAnswers(s, sdu), sdu.lcid = 0)
<1> DEFINE c == sdu.lcid
           msg == Told(s, sdu)
           r == rrcAnswers(c, msg)
           t == TestReply(c, msg)
<1>0. c \in Channel /\ 0 \in Channel /\ 1 \in Channel
  BY DEF Channel
<1>1. Spoken(t, FALSE)
  <2>1. Speakable(answer(c, "reply", 0)) /\ answer(c, "reply", 0).lcid # 28
    BY <1>0, AnswerSpeakable
  <2>2. t = << >> \/ t = << answer(c, "reply", 0) >>
    <3> HIDE DEF msg, c
    <3> QED BY DEF TestReply
  <2> DEFINE x == answer(c, "reply", 0)
  <2>3. Speakable(x) /\ x.lcid # 28 /\ (t = << >> \/ t = << x >>)
    BY <2>1, <2>2
  <2> HIDE DEF x, t
  <2> QED BY <2>3, NothingSpoken, OneSpoken
<1>2. Spoken(r, c = 0)
  <2>1. CASE c = 0
    <3>1. msg = sdu.bytes
      <4>1. Decoded(s, sdu).out = sdu.bytes
        BY <2>1 DEF Decoded, rlc_decode
      <4> QED BY <2>1, <4>1 DEF Told, pdcp_decode, AM
    <3> DEFINE e == [lcid |-> 28, bytes |-> msg]
               y == answer(0, "setup", Head(msg).id)
    <3>2. r = << e, y >>
      <4>1. msg # << >>
        <5>1. Len(sdu.bytes) = 1
          BY <2>1
        <5> HIDE DEF msg
        <5> QED BY <3>1, <5>1
      <4> HIDE DEF msg
      <4>2. rrcAnswers(0, msg) = rrcRequest(msg)
        BY <4>1 DEF rrcAnswers
      <4> QED BY <2>1, <4>2 DEF rrcRequest
    <3>3. Speakable(e) /\ e.lcid = 28
      <4>1. e.lcid = 28 /\ e.bytes = sdu.bytes /\ Sequence(sdu.bytes) /\ Len(sdu.bytes) = 1
        BY <2>1, <3>1
      <4> HIDE DEF e
      <4>2. sdu.bytes # << >>
        BY <4>1
      <4> QED BY <4>1, <4>2 DEF Speakable
    <3>4. Speakable(y) /\ y.lcid # 28
      BY <1>0, AnswerSpeakable
    <3> HIDE DEF e, y
    <3>5. Spoken(<< e, y >>, e.lcid = 28)
      BY <3>3, <3>4, TwoSpoken
    <3>6. Spoken(<< e, y >>, TRUE)
      BY <3>3, <3>5 DEF Spoken
    <3> HIDE DEF r
    <3>7. Spoken(r, TRUE)
      BY <3>2, <3>6
    <3> QED BY <2>1, <3>7 DEF Spoken, r
  <2>2. CASE c # 0
    <3> HIDE DEF msg
    <3>1. r = << >> \/ r = rrcSignalling(c, msg)
      <4> HIDE DEF c
      <4>1. \/ msg = << >> \/ c \in {1, 2} \/ c \notin {0, 1, 2}
        BY <2>2
      <4> QED BY <2>2, <4>1 DEF rrcAnswers
    <3> DEFINE type == typeOf(msg)
               id == Head(msg).id
    <3>2. CASE type \in DOMAIN NextCommand
      <4>0. type # "detachRequest"
        BY <3>2 DEF NextCommand
      <4> DEFINE x == answer(1, NextCommand[type], id)
      <4>1. rrcSignalling(c, msg) = << x >>
        BY <3>2, <4>0 DEF rrcSignalling
      <4>2. Speakable(x) /\ x.lcid # 28
        BY <1>0, AnswerSpeakable
      <4> HIDE DEF x, r
      <4>3. Spoken(<< x >>, FALSE)
        BY <4>2, OneSpoken
      <4>4. Spoken(r, FALSE)
        BY <3>1, <4>1, <4>3, NothingSpoken
      <4> QED BY <2>2, <4>4 DEF Spoken, r
    <3>3. CASE type \notin DOMAIN NextCommand /\ type = "detachRequest"
      <4> DEFINE x == answer(c, "detachAccept", id)
                 y == answer(1, "release", id)
      <4>1. rrcSignalling(c, msg) = << x, y >>
        BY <3>3 DEF rrcSignalling
      <4>2. Speakable(x) /\ x.lcid # 28 /\ Speakable(y) /\ y.lcid # 28
        BY <1>0, AnswerSpeakable
      <4> HIDE DEF x, y, r
      <4>3. Spoken(<< x, y >>, x.lcid = 28)
        BY <4>2, TwoSpoken
      <4>4. Spoken(<< x, y >>, FALSE)
        BY <4>2, <4>3 DEF Spoken
      <4>5. Spoken(r, FALSE)
        BY <3>1, <4>1, <4>4, NothingSpoken
      <4> QED BY <2>2, <4>5 DEF Spoken, r
    <3>4. CASE type \notin DOMAIN NextCommand /\ type # "detachRequest"
      <4>1. rrcSignalling(c, msg) = << >>
        BY <3>4 DEF rrcSignalling
      <4> HIDE DEF r
      <4>2. Spoken(r, FALSE)
        BY <3>1, <4>1, NothingSpoken
      <4> QED BY <2>2, <4>2 DEF Spoken, r
    <3> QED BY <3>2, <3>3, <3>4
  <2> QED BY <2>1, <2>2
<1> HIDE DEF r, t
<1>3. Spoken(r \o t, c = 0)
  BY <1>1, <1>2, MoreSpoken
<1> QED BY <1>3 DEF PlainAnswers, r, t

LEMMA JudgeKeepsSn ==
  ASSUME NEW t, Fields(t), NEW c, NEW b, NEW o
  PROVE  Judge(t, c, b, o).sn = t.sn
<1>1. CASE c = 0 \/ Head(b).dc # "data"
  <2>1. Judge(t, c, b, o) = t
    BY <1>1 DEF Judge
  <2> QED BY <2>1
<1>2. CASE ~ (c = 0 \/ Head(b).dc # "data")
  <2> DEFINE h == Head(b)
             ideal == (IF h.first THEN << >> ELSE t.heard[c]) \o Tail(b)
             left == IF h.last THEN << >> ELSE ideal
             D == IF ~ h.last THEN t.delivered ELSE t.delivered \union
                    {[channel |-> c, size |-> Len(h.whole), data |-> h.whole[1] = PdcpData,
                      heard |-> ideal = h.whole, intact |-> o = h.whole,
                      network |-> toNetwork(c, pdcp_decode(c, o))]}
             H == [t.heard EXCEPT ![c] = left]
  <2>1. Judge(t, c, b, o) = [t EXCEPT !.heard[c] = left, !.delivered = D]
    BY <1>2 DEF Judge
  <2> HIDE DEF left, D
  <2>2. Judge(t, c, b, o) = [t EXCEPT !.heard = H, !.delivered = D]
    BY <2>1 DEF Fields
  <2> HIDE DEF H
  <2> QED BY <2>2 DEF Fields
<1> QED BY <1>1, <1>2

\* A request resets the numbers; other SDUs leave them to the answers.
LEMMA FreshIs ==
  ASSUME NEW s, StateOK(s), NEW sdu
  PROVE  LET f == Fresh(s, sdu) IN
         /\ Fields(f) /\ f.answers = s.answers
         /\ f.sn = IF rrcResets(sdu.lcid, Told(s, sdu)) THEN Reset ELSE s.sn
<1> DEFINE f == Fresh(s, sdu)
           j == Judged(s, sdu)
           t == Taken(s, sdu)
<1>1. Fields(f) /\ f.answers = s.answers
  BY HandleIs
<1>2. Fields(j) /\ j.sn = s.sn
  <2>1. Fields(t) /\ t.sn = s.sn
    BY TakenIs
  <2> HIDE DEF t
  <2>2. Judge(t, sdu.lcid, sdu.bytes, Decoded(s, sdu).out).sn = s.sn
    BY <2>1, JudgeKeepsSn
  <2>3. Fields(j)
    BY JudgedIs
  <2> QED BY <2>2, <2>3 DEF Judged, t
<1> HIDE DEF j
<1>3. CASE ~ rrcResets(sdu.lcid, Told(s, sdu))
  <2>1. f = j
    BY <1>3 DEF Fresh, j
  <2> QED BY <1>1, <1>2, <1>3, <2>1
<1>4. CASE rrcResets(sdu.lcid, Told(s, sdu))
  <2>1. f = [reset_state(j) EXCEPT !.heard = Empty]
    BY <1>4 DEF Fresh, j
  <2>2. f.sn = Reset
    BY <1>2, <2>1 DEF Fields, reset_state
  <2> HIDE DEF f
  <2> QED BY <1>1, <1>4, <2>2 DEF f
<1> QED BY <1>3, <1>4

\* What a message to the base station changes in the numbers: what it is
\* answered goes on counting.
LEMMA HandleNumbers ==
  ASSUME NEW s, StateOK(s), NEW base, Counting(s, base),
         NEW sdu, sdu.lcid \in Channel \ {0}
  PROVE  LET r == Handle(s, sdu) IN
         Counting(r, base) /\ (Opens(r.answers) <=> Opens(s.answers))
<1> DEFINE f == Fresh(s, sdu)
           plain == PlainAnswers(s, sdu)
           e == EncodeAll(f, plain)
<1>1. Handle(s, sdu) = Report(e, sdu.lcid, plain # << >>)
  BY HandleIs
<1>2. Fields(f) /\ f.answers = s.answers /\ f.sn = s.sn
  <2>1. ~ rrcResets(sdu.lcid, Told(s, sdu))
    BY DEF rrcResets
  <2> QED BY <2>1, FreshIs
<1>3. Spoken(plain, sdu.lcid = 0)
  BY PlainSpoken
<1> HIDE DEF f, plain
<1>4. Counting(f, base)
  BY <1>2 DEF Counting
<1>5. Sequence(plain) /\ (\A k \in 1 .. Len(plain) : Speakable(plain[k])) /\ ~ Opens(plain)
  BY <1>3 DEF Spoken
<1>6. Counting(e, base) /\ (Opens(e.answers) <=> Opens(s.answers))
  BY <1>2, <1>4, <1>5, EncodeAllNumbers
<1> HIDE DEF e
<1>7. sdu.lcid \in Channel
  OBVIOUS
<1> QED BY <1>1, <1>6, <1>7, ReportNumbers

Zeros == [c \in 1 .. 3 |-> 0]

\* A request starts the numbers again; nothing was answered before it.
LEMMA RequestNumbers ==
  ASSUME NEW s, StateOK(s), s.answers = << >>,
         NEW sdu, sdu.lcid = 0, Sequence(sdu.bytes), Len(sdu.bytes) = 1
  PROVE  LET r == Handle(s, sdu) IN
         Counting(r, Zeros) /\ Opens(r.answers)
<1> DEFINE f == Fresh(s, sdu)
           plain == PlainAnswers(s, sdu)
           e == EncodeAll(f, plain)
<1>0. sdu.lcid \in Channel
  BY DEF Channel
<1>1. Handle(s, sdu) = Report(e, sdu.lcid, plain # << >>)
  BY HandleIs
<1>2. Fields(f) /\ f.answers = << >> /\ f.sn = Reset
  <2>1. Told(s, sdu) = sdu.bytes
    <3>1. Decoded(s, sdu).out = sdu.bytes
      BY DEF Decoded, rlc_decode
    <3> QED BY <3>1 DEF Told, pdcp_decode, AM
  <2> DEFINE b == sdu.bytes
  <2>2. b # << >>
    <3>1. Len(b) = 1 /\ Len(<< >>) = 0
      OBVIOUS
    <3> HIDE DEF b
    <3> QED BY ONLY <3>1
  <2>3. rrcResets(sdu.lcid, Told(s, sdu))
    BY <2>1, <2>2 DEF rrcResets
  <2>4. /\ Fields(f) /\ f.answers = s.answers
        /\ f.sn = IF rrcResets(sdu.lcid, Told(s, sdu)) THEN Reset ELSE s.sn
    BY ONLY StateOK(s), FreshIs
  <2> HIDE DEF f
  <2> QED BY <2>3, <2>4
<1>3. Spoken(plain, TRUE)
  <2>1. Spoken(plain, sdu.lcid = 0)
    BY <1>0, PlainSpoken
  <2> HIDE DEF plain
  <2> QED BY <2>1 DEF Spoken
<1> HIDE DEF f, plain
<1>4. Counting(f, Zeros)
  <2>1. Bytefull(<< >>)
    BY NothingSpoken DEF Spoken, Bytefull
  <2>2. Zeros \in [1 .. 3 -> Nat] /\ \A c \in 1 .. 3 : Zeros[c] = 0
    BY DEF Zeros
  <2>3. \A c \in 1 .. 3 : Reset[c] = 0
    BY DEF Reset, Channel
  <2>4. \A c \in 1 .. 3 : Numbered(c, << >>, Zeros[c], Reset[c])
    <3> TAKE c \in 1 .. 3
    <3>1. Numbered(c, << >>, 0, 0)
      BY NoneNumbered, RlcAssumption
    <3> QED BY <2>2, <2>3, <3>1
  <2> QED BY <1>2, <2>1, <2>2, <2>4, ResetSn DEF Counting
<1>5. Sequence(plain) /\ (\A k \in 1 .. Len(plain) : Speakable(plain[k])) /\ Opens(plain)
  BY <1>3 DEF Spoken
<1>6. Counting(e, Zeros) /\ Opens(e.answers)
  BY <1>4, <1>5, EncodeAllNumbers
<1> HIDE DEF e
<1> QED BY <1>0, <1>1, <1>6, ReportNumbers

StatusOnly(x) == x.lcid = 1 /\ Head(x.bytes).dc = "status"

\* A status report from the phone changes nothing here.
LEMMA StatusIgnored ==
  ASSUME NEW s, StateOK(s), ~ s.rx.poll, NEW sdu, StatusOnly(sdu)
  PROVE  LET r == Handle(s, sdu) IN
         r.answers = s.answers /\ r.sn = s.sn /\ ~ r.rx.poll
<1> DEFINE f == Fresh(s, sdu)
           plain == PlainAnswers(s, sdu)
           rx == [buf |-> s.buffer[sdu.lcid], sn |-> s.rx.sn, poll |-> s.rx.poll]
           t == Taken(s, sdu)
<1>0. sdu.lcid = 1 /\ Head(sdu.bytes).dc = "status"
  BY DEF StatusOnly
<1>1. Handle(s, sdu) = Report(EncodeAll(f, plain), sdu.lcid, plain # << >>)
  BY HandleIs
<1>2. Decoded(s, sdu) = [rx |-> rx, out |-> << >>]
  BY <1>0 DEF Decoded, rlc_decode
<1>3. Told(s, sdu) = << >>
  <2>1. Decoded(s, sdu).out = << >>
    BY <1>2
  <2> QED BY <2>1 DEF Told, pdcp_decode
<1>4. plain = << >>
  <2>1. rrcAnswers(sdu.lcid, << >>) = << >>
    BY DEF rrcAnswers
  <2>2. TestReply(sdu.lcid, << >>) = << >>
    BY DEF TestReply
  <2>3. plain = << >> \o << >>
    BY <1>3, <2>1, <2>2 DEF PlainAnswers
  <2> HIDE DEF plain
  <2> QED BY <2>3
<1>5. f = t
  <2>1. ~ rrcResets(sdu.lcid, Told(s, sdu))
    BY <1>0 DEF rrcResets
  <2>2. Judged(s, sdu) = t
    BY <1>0 DEF Judged, Judge
  <2> QED BY <2>1, <2>2 DEF Fresh
<1>6. /\ t.answers = s.answers /\ t.sn = s.sn
      /\ t.rx = [sn |-> s.rx.sn, poll |-> s.rx.poll]
  <2>1. t.answers = s.answers /\ t.sn = s.sn
    BY TakenIs
  <2>2. Fields(s)
    BY DEF StateOK
  <2> DEFINE r == [sn |-> s.rx.sn, poll |-> s.rx.poll]
             b == [s.buffer EXCEPT ![sdu.lcid] = Decoded(s, sdu).rx.buf]
             st == StatsAfter(s, sdu)
  <2>3. r = [sn |-> Decoded(s, sdu).rx.sn, poll |-> Decoded(s, sdu).rx.poll]
    <3>1. Decoded(s, sdu).rx.sn = s.rx.sn /\ Decoded(s, sdu).rx.poll = s.rx.poll
      BY <1>2
    <3> QED BY <3>1
  <2>4. t = [s EXCEPT !.buffer = b, !.rx = r, !.stats = st]
    BY <2>2, <2>3 DEF Taken, Fields, StatsAfter
  <2> HIDE DEF b, r, st, t
  <2>5. t.rx = r
    BY <2>2, <2>4 DEF Fields
  <2> QED BY <2>1, <2>5 DEF r, t
<1> HIDE DEF t, plain, f
<1>7. EncodeAll(f, plain) = f
  <2>1. Len(plain) \in Nat /\ Len(plain) = 0
    BY <1>4
  <2>2. PICK after : EncodeAll(f, plain) = after[Len(plain)] /\ after[0] = f
    BY <2>1, EncodeAllUnfolds
  <2> QED BY <2>1, <2>2
<1>8. ~ f.rx.poll
  BY <1>5, <1>6
<1>9. Report(f, sdu.lcid, plain # << >>) = f
  BY <1>8, NothingReported
<1> QED BY <1>1, <1>5, <1>6, <1>7, <1>8, <1>9

----------------------------------------------------------------------------
(* A block is answered in one numbering. *)

\* A request comes first in its block, but for status reports.
Opening(sdus) ==
  \A k \in 1 .. Len(sdus) :
    sdus[k].lcid = 0 =>
      IsRequest(sdus[k].bytes) /\ \A j \in 1 .. k - 1 : StatusOnly(sdus[j])

\* Where the numbers of the answers begin.
BaseOf(a) == [c \in 1 .. 3 |-> IF Opens(a) THEN 0 ELSE rlc_tx_sn[c]]

LEMMA ResultNumbers ==
  ASSUME ProtocolInv, up # << >>, Opening(Head(up).sdus)
  PROVE  LET r == Result(Head(up).pdu) IN Counting(r, BaseOf(r.answers))
<1> DEFINE block == Head(up)
           sdus == block.sdus
           n == Len(sdus)
           base == [c \in 1 .. 3 |-> rlc_tx_sn[c]]
<1>1. block \in Block(test_IP)
  BY HeadTailProperties DEF ProtocolInv, UpOK
<1>2. sdus \in Seq(PhoneSdu(test_IP)) /\ mac_decode(block.pdu) = sdus
  <2> HIDE DEF block
  <2> QED BY <1>1, BlockDecodes
<1>3. StateOK(Begin)
  BY BeginOK
<1>4. Opening(sdus) /\ rlc_tx_sn \in [Channel -> 0 .. SnMod - 1]
  BY DEF ProtocolInv, StationOK
<1> HIDE DEF block, sdus
<1>5. n \in Nat
  BY <1>2
<1>6. PICK after : HandledUpto(after, Begin, sdus, n) /\ Result(block.pdu) = after[n]
  BY <1>2, <1>5, ResultUnfolds
<1>7. \A k \in 0 .. n : StateOK(after[k])
  BY <1>2, <1>3, <1>6, HandledKeeps
<1>8. after[0] = Begin /\ \A k \in 1 .. n : after[k] = Handle(after[k - 1], sdus[k])
  <2>1. \A k \in 0 .. n : after[k] = IF k = 0 THEN Begin ELSE Handle(after[k - 1], sdus[k])
    BY <1>6 DEF HandledUpto
  <2> QED BY <1>5, <2>1
<1>9. base \in [1 .. 3 -> Nat] /\ base \in [1 .. 3 -> 0 .. SnMod - 1]
  BY <1>4, RlcAssumption DEF Channel
<1>10. \A k \in 1 .. n : sdus[k].lcid \in Channel
  <2> TAKE k \in 1 .. n
  <2>1. sdus[k] \in PhoneSdu(test_IP)
    BY <1>2
  <2> QED BY <2>1, SduCases
<1> DEFINE Plainly(s) == s.answers = << >> /\ s.sn = rlc_tx_sn /\ ~ s.rx.poll
           Begun(s) == \/ Counting(s, Zeros) /\ Opens(s.answers)
                       \/ Counting(s, base) /\ ~ Opens(s.answers)
           Q(m) == \/ Plainly(after[m]) /\ \A j \in 1 .. m : StatusOnly(sdus[j])
                   \/ Begun(after[m]) /\ \E j \in 1 .. m : ~ StatusOnly(sdus[j])
           P == {m \in 0 .. n : Q(m)}
\* A block of status reports takes no number.
<1>11. ASSUME NEW s, StateOK(s), Plainly(s) PROVE Counting(s, base) /\ ~ Opens(s.answers)
  <2>1. Bytefull(<< >>) /\ ~ Opens(<< >>)
    BY NothingSpoken DEF Spoken, Bytefull
  <2>2. \A c \in 1 .. 3 : Numbered(c, << >>, base[c], s.sn[c])
    <3> TAKE c \in 1 .. 3
    <3>1. base[c] \in 0 .. SnMod - 1 /\ s.sn[c] = base[c]
      BY <1>9, <1>11
    <3> HIDE DEF base
    <3> QED BY <3>1, NoneNumbered
  <2>3. Fields(s)
    BY <1>11 DEF StateOK
  <2> HIDE DEF base
  <2> QED BY <1>4, <1>9, <1>11, <2>1, <2>2, <2>3 DEF Counting
<1>12. 0 \in P
  <2>1. Plainly(after[0])
    <3>1. Begin.answers = << >> /\ Begin.sn = rlc_tx_sn /\ Begin.rx.poll = FALSE
      BY DEF Begin
    <3> QED BY <1>8, <3>1
  <2>2. \A j \in 1 .. 0 : StatusOnly(sdus[j])
    OBVIOUS
  <2> HIDE DEF Plainly, Begun
  <2> QED BY <1>5, <2>1, <2>2
<1>13. ASSUME NEW k \in 1 .. n, k - 1 \in P PROVE k \in P
  <2> DEFINE s == after[k - 1]
             r == after[k]
             x == sdus[k]
  <2>1. Q(k - 1) /\ k \in 0 .. n
    BY <1>5, <1>13
  <2>2. StateOK(s) /\ r = Handle(s, x) /\ x.lcid \in Channel
    <3>1. k - 1 \in 0 .. n
      BY <1>5
    <3> QED BY <1>7, <1>8, <1>10, <3>1
  <2>3. /\ \A j \in 1 .. k : j \in 1 .. k - 1 \/ j = k
        /\ \A j \in 1 .. k - 1 : j \in 1 .. k
        /\ k \in 1 .. k
    BY <1>5
  <2>4. ASSUME StatusOnly(x), Plainly(s), \A j \in 1 .. k - 1 : StatusOnly(sdus[j])
        PROVE  Q(k)
    <3>1. Plainly(r)
      <4>1. /\ r.answers = s.answers /\ r.sn = s.sn /\ ~ r.rx.poll
        BY <2>2, <2>4, StatusIgnored
      <4> HIDE DEF s, r
      <4> QED BY <2>4, <4>1
    <3>2. \A j \in 1 .. k : StatusOnly(sdus[j])
      BY <2>3, <2>4
    <3> HIDE DEF Plainly, Begun
    <3> QED BY <3>1, <3>2
  <2>5. ASSUME ~ StatusOnly(x), x.lcid = 0 PROVE Q(k)
    <3>1. IsRequest(x.bytes) /\ \A j \in 1 .. k - 1 : StatusOnly(sdus[j])
      BY <1>4, <2>5 DEF Opening
    <3>2. Plainly(s)
      <4> HIDE DEF Plainly, Begun
      <4> QED BY <2>1, <3>1
    <3>3. Sequence(x.bytes) /\ Len(x.bytes) = 1
      <4>1. PICK id : x.bytes = << MsgUnit("request", id) >>
        BY <3>1 DEF IsRequest
      <4> HIDE DEF x
      <4> QED BY <4>1, OneIsSequence
    <3>4. Counting(r, Zeros) /\ Opens(r.answers)
      <4>1. s.answers = << >>
        BY <3>2
      <4> HIDE DEF s, r, x
      <4> QED BY <2>2, <2>5, <3>3, <4>1, RequestNumbers
    <3>5. \E j \in 1 .. k : ~ StatusOnly(sdus[j])
      BY <2>3, <2>5
    <3> HIDE DEF Plainly
    <3> QED BY <3>4, <3>5
  <2>6. ASSUME x.lcid # 0, Counting(s, base), ~ Opens(s.answers)
        PROVE  Counting(r, base) /\ ~ Opens(r.answers)
    <3> HIDE DEF s, r, x, base
    <3> QED BY <2>2, <2>6, HandleNumbers
  <2>7. ASSUME x.lcid # 0, Counting(s, Zeros), Opens(s.answers)
        PROVE  Counting(r, Zeros) /\ Opens(r.answers)
    <3> HIDE DEF s, r, x, base
    <3> QED BY <2>2, <2>7, HandleNumbers
  <2>8. ASSUME ~ StatusOnly(x), x.lcid # 0, Plainly(s) PROVE Q(k)
    <3>1. Counting(s, base) /\ ~ Opens(s.answers)
      BY <1>11, <2>2, <2>8
    <3>2. Counting(r, base) /\ ~ Opens(r.answers)
      BY <2>6, <2>8, <3>1
    <3>3. \E j \in 1 .. k : ~ StatusOnly(sdus[j])
      BY <2>3, <2>8
    <3> HIDE DEF Plainly
    <3> QED BY <3>2, <3>3
  <2>9. ASSUME Begun(s), \E j \in 1 .. k - 1 : ~ StatusOnly(sdus[j]) PROVE Q(k)
    <3>1. x.lcid # 0
      BY <1>4, <2>9 DEF Opening
    <3>2. Begun(r)
      BY <2>6, <2>7, <2>9, <3>1
    <3>3. \E j \in 1 .. k : ~ StatusOnly(sdus[j])
      BY <2>3, <2>9
    <3> HIDE DEF Plainly, Begun
    <3> QED BY <3>2, <3>3
  <2>10. Q(k)
    <3>1. CASE Plainly(s) /\ \A j \in 1 .. k - 1 : StatusOnly(sdus[j])
      <4> HIDE DEF Plainly, Begun, Q
      <4> QED BY <2>4, <2>5, <2>8, <3>1
    <3>2. CASE Begun(s) /\ \E j \in 1 .. k - 1 : ~ StatusOnly(sdus[j])
      <4> HIDE DEF Plainly, Begun, Q
      <4> QED BY <2>9, <3>2
    <3> HIDE DEF Plainly, Begun
    <3> QED BY <2>1, <3>1, <3>2
  <2> HIDE DEF Q
  <2> QED BY <2>1, <2>10
<1>14. Q(n)
  <2> HIDE DEF P, n
  <2>1. 0 .. n \subseteq P
    BY <1>5, <1>12, <1>13, IntervalInduction
  <2>2. n \in P
    BY <1>5, <2>1
  <2> HIDE DEF Q
  <2> QED BY <2>2 DEF P
<1> DEFINE r == after[n]
<1>15. Begun(r)
  <2>1. StateOK(r)
    BY <1>5, <1>7
  <2>2. Plainly(r) => Begun(r)
    BY <1>11, <2>1
  <2> HIDE DEF Plainly, Begun
  <2> QED BY <1>14, <2>2
<1> HIDE DEF r
<1>16. Counting(r, BaseOf(r.answers))
  <2>1. CASE Opens(r.answers)
    <3>1. BaseOf(r.answers) = Zeros
      BY <2>1 DEF BaseOf, Zeros
    <3> QED BY <1>15, <2>1, <3>1
  <2>2. CASE ~ Opens(r.answers)
    <3>1. BaseOf(r.answers) = base
      BY <2>2 DEF BaseOf
    <3> QED BY <1>15, <2>2, <3>1
  <2> QED BY <2>1, <2>2
<1> QED BY <1>6, <1>16 DEF r, block

----------------------------------------------------------------------------
(* What of a list of SDUs fits in a block. *)

\* The first o elements.
LEMMA SelectedFront ==
  ASSUME NEW S, NEW s \in Seq(S), NEW o \in 0 .. Len(s), NEW K,
         \A k \in 1 .. Len(s) : k \in K <=> k <= o
  PROVE  Selected(s, K) = SubSeq(s, 1, o)
<1>1. PICK kept : /\ Selected(s, K) = kept[Len(s)]
                  /\ kept[0] = << >>
                  /\ \A k \in 1 .. Len(s) :
                       kept[k] = IF k \in K THEN Append(kept[k - 1], s[k]) ELSE kept[k - 1]
  BY SelectedUnfolds
<1> DEFINE n == Len(s)
           least(k) == IF k <= o THEN k ELSE o
           P == {m \in 0 .. n : kept[m] = SubSeq(s, 1, least(m))}
<1>2. n \in Nat /\ o \in Nat /\ o <= n
  OBVIOUS
<1>3. 0 \in P
  <2>1. SubSeq(s, 1, 0) = << >>
    BY <1>2, SubSeqEmpty
  <2>2. 0 \in 0 .. n /\ least(0) = 0
    BY <1>2
  <2> QED BY <1>1, <2>1, <2>2
<1>4. ASSUME NEW k \in 1 .. n, k - 1 \in P PROVE k \in P
  <2>1. kept[k - 1] = SubSeq(s, 1, least(k - 1)) /\ k \in 0 .. n /\ k \in Int
    BY <1>2, <1>4
  <2>2. CASE k > o
    <3>1. k \notin K /\ least(k) = o /\ least(k - 1) = o
      BY <1>2, <2>1, <2>2
    <3>2. kept[k] = kept[k - 1]
      BY <1>1, <3>1
    <3> QED BY <2>1, <3>1, <3>2
  <2>3. CASE k <= o
    <3>0. k \in K /\ least(k) = k /\ least(k - 1) = k - 1
      BY <1>2, <2>1, <2>3
    <3>1. 1 \in 1 .. Len(s) /\ k \in 1 .. Len(s)
      BY <1>2, <2>1
    <3>2. SubSeq(s, 1, k) = SubSeq(s, 1, k - 1) \o << s[k] >>
      BY <3>1, SubSeqRecursiveSecond
    <3>3. \A i \in 1 .. k - 1 : s[i] \in S
      BY <1>2, <2>1
    <3>4. SubSeq(s, 1, k - 1) \in Seq(S) /\ s[k] \in S
      BY <1>2, <2>1, <3>3, SubSeqProperties
    <3> DEFINE t == SubSeq(s, 1, k - 1)
    <3> HIDE DEF t
    <3>5. t \o << s[k] >> = Append(t, s[k])
      BY <3>4, AppendIsConcat DEF t
    <3>6. kept[k] = Append(kept[k - 1], s[k])
      BY <1>1, <3>0
    <3>7. kept[k] = SubSeq(s, 1, least(k))
      BY <2>1, <3>0, <3>2, <3>5, <3>6 DEF t
    <3> HIDE DEF least
    <3> QED BY <2>1, <3>7
  <2> QED BY <1>2, <2>1, <2>2, <2>3
<1>5. 0 .. n \subseteq P
  <2> HIDE DEF P, n
  <2> QED BY <1>2, <1>3, <1>4, IntervalInduction
<1>6. kept[n] = SubSeq(s, 1, least(n)) /\ least(n) = o
  BY <1>2, <1>5
<1> QED BY <1>1, <1>6

\* There is a number of SDUs that are complete.
LEMMA CompleteIs ==
  ASSUME NEW sdus, Sequence(sdus), NEW size
  PROVE  Complete(sdus, size) \in 0 .. Len(sdus)
<1> DEFINE n == Len(sdus)
           fits(m) == m = 0 \/ HeadBytes(sdus) + ByteLength(Bodies(SubSeq(sdus, 1, m))) <= size
           OK(m) == fits(m) /\ \A k \in m + 1 .. n : ~ fits(k)
           T == {n - m : m \in {k \in 0 .. n : fits(k)}}
<1>1. n \in Nat
  BY DEF Sequence
<1>2. Complete(sdus, size) = CHOOSE m \in 0 .. n : OK(m)
  BY DEF Complete
<1>3. fits(0)
  OBVIOUS
<1> HIDE DEF fits, n
<1>4. T \in SUBSET Nat /\ T # {}
  <2>1. 0 \in 0 .. n
    BY <1>1
  <2>2. n - 0 \in T
    BY <1>3, <2>1
  <2>3. \A m \in 0 .. n : n - m \in Nat
    BY <1>1
  <2> QED BY <2>2, <2>3
<1>5. PICK d \in T : \A e \in T : d <= e
  BY <1>4, LeastElement
<1>6. PICK m \in 0 .. n : fits(m) /\ d = n - m
  BY <1>5
<1>7. \A k \in m + 1 .. n : ~ fits(k)
  <2> SUFFICES ASSUME NEW k \in m + 1 .. n, fits(k) PROVE FALSE
    OBVIOUS
  <2>1. k \in 0 .. n /\ n - k < n - m
    BY <1>1, <1>6
  <2>2. n - k \in T
    BY <2>1
  <2>3. d <= n - k
    BY <1>5, <2>2
  <2> QED BY <1>1, <1>6, <2>1, <2>3
<1>8. OK(m)
  BY <1>6, <1>7
<1> HIDE DEF OK
<1> QED BY <1>2, <1>6, <1>8 DEF n

\* The units of some SDUs.
UnitsOf(a) == UNION {{a[k].bytes[i] : i \in 1 .. Len(a[k].bytes)} : k \in 1 .. Len(a)}

LEMMA BytefullHold ==
  ASSUME NEW a, Bytefull(a)
  PROVE  HoldUnits(a, UnitsOf(a))
<1>1. Len(a) \in Nat
  BY DEF Bytefull, Sequence
<1>2. ASSUME NEW k \in 1 .. Len(a) PROVE a[k].bytes \in Seq(UnitsOf(a))
  <2> DEFINE b == a[k].bytes
             R == {b[i] : i \in 1 .. Len(b)}
  <2>1. Sequence(b)
    BY DEF Bytefull, Speakable
  <2>2. R \subseteq UnitsOf(a)
    BY DEF UnitsOf
  <2> HIDE DEF b
  <2>3. b \in Seq(R)
    BY <2>1, SequenceIsSeq
  <2> HIDE DEF R
  <2>4. b \in Seq(UnitsOf(a))
    BY <2>2, <2>3, SeqMonotonic
  <2> QED BY <2>4 DEF b
<1> QED BY <1>1, <1>2 DEF HoldUnits

LEMMA FrontIs ==
  ASSUME NEW a, Sequence(a), NEW n \in 0 .. Len(a)
  PROVE  LET b == SubSeq(a, 1, n) IN
         Sequence(b) /\ Len(b) = n /\ \A k \in 1 .. n : b[k] = a[k]
<1> DEFINE T == {a[i] : i \in 1 .. Len(a)}
<1>1. a \in Seq(T) /\ Len(a) \in Nat /\ n \in Nat
  BY SequenceIsSeq DEF Sequence
<1>2. \A i \in 1 .. n : a[i] \in T
  BY <1>1
<1> HIDE DEF T
<1> DEFINE b == SubSeq(a, 1, n)
<1>3. b \in Seq(T) /\ Len(b) = n /\ \A i \in 1 .. n : b[i] = a[i]
  <2>1. /\ b \in Seq(T)
        /\ Len(b) = IF 1 <= n THEN n - 1 + 1 ELSE 0
        /\ \A i \in 1 .. n - 1 + 1 : b[i] = a[1 + i - 1]
    BY <1>1, <1>2, SubSeqProperties
  <2> HIDE DEF b
  <2>2. Len(b) = n
    BY <1>1, <2>1
  <2>3. \A i \in 1 .. n : i \in 1 .. n - 1 + 1 /\ 1 + i - 1 = i
    BY <1>1
  <2> QED BY <2>1, <2>2, <2>3
<1> HIDE DEF b
<1> QED BY <1>3, SeqIsSequence DEF b

\* In a block that holds the first m SDUs the parts of these are where the
\* subheaders say, and those of the others behind its end.
LEMMA PlacesInBlock ==
  ASSUME NEW a, Bytefull(a), a # << >>, NEW size
  PROVE  LET pdu == InBlock(a, size)
             m == Complete(a, size)
             start == Starts(pdu.head)
         IN  /\ m \in 0 .. Len(a)
             /\ Len(pdu.head) = Len(a) + 1
             /\ \A k \in 1 .. Len(a) :
                  /\ start[k] \in Nat /\ pdu.head[k] = Sub(a[k])
                  /\ k <= m =>
                       /\ start[k] + Len(a[k].bytes) <= Len(pdu.body)
                       /\ \A i \in 1 .. Len(a[k].bytes) : pdu.body[start[k] + i] = a[k].bytes[i]
                  /\ k > m => start[k] + Len(a[k].bytes) > Len(pdu.body)
             /\ pdu.body \in Seq(UnitsOf(a)) /\ Len(pdu.body) \in Nat
<1> DEFINE pdu == InBlock(a, size)
           m == Complete(a, size)
           n == Len(a)
           start == Starts(pdu.head)
           b == SubSeq(a, 1, m)
           S == UnitsOf(a)
           l(k) == Len(a[k].bytes)
<1>1. Sequence(a) /\ HoldUnits(a, S)
  BY BytefullHold DEF Bytefull
<1>2. /\ Len(pdu.head) = n + 1 /\ n \in Nat \ {0}
      /\ \A k \in 1 .. n : pdu.head[k] = Sub(a[k])
  BY <1>1, HeadOfBlock
<1>3. m \in 0 .. n /\ Sequence(b) /\ Len(b) = m /\ \A k \in 1 .. m : b[k] = a[k]
  BY <1>1, CompleteIs, FrontIs
<1>4. pdu.body = Bodies(b)
  <2>1. \E x, y : mac_encode(a) = [head |-> x, body |-> y]
    BY DEF mac_encode
  <2>2. PICK x, y : mac_encode(a) = [head |-> x, body |-> y]
    BY <2>1
  <2> DEFINE c == Bodies(b)
  <2>3. InBlock(a, size) = [mac_encode(a) EXCEPT !.body = c]
    BY DEF InBlock
  <2> HIDE DEF c
  <2> QED BY <2>2, <2>3 DEF c
<1> HIDE DEF pdu, m, b, S
<1>5. HoldUnits(b, S)
  <2>1. \A k \in 1 .. m : k \in 1 .. n
    BY <1>2, <1>3
  <2> HIDE DEF n
  <2> QED BY <1>1, <1>3, <2>1 DEF HoldUnits, n
<1>6. PICK cat : FoundIn(cat, b, S)
  BY <1>5, BodiesFound
<1>7. /\ cat \in [0 .. m -> Seq(S)] /\ cat[0] = << >> /\ pdu.body = cat[m]
      /\ \A k \in 1 .. m :
           /\ Len(cat[k]) = Len(cat[k - 1]) + l(k)
           /\ Len(cat[k]) <= Len(cat[m])
           /\ \A i \in 1 .. l(k) : cat[m][Len(cat[k - 1]) + i] = a[k].bytes[i]
  <2>1. /\ cat \in [0 .. m -> Seq(S)] /\ cat[0] = << >> /\ Bodies(b) = cat[m]
        /\ \A k \in 1 .. m :
             /\ Len(cat[k]) = Len(cat[k - 1]) + Len(b[k].bytes)
             /\ Len(cat[k]) <= Len(cat[m])
             /\ \A i \in 1 .. Len(b[k].bytes) : cat[m][Len(cat[k - 1]) + i] = b[k].bytes[i]
    BY <1>3, <1>6 DEF FoundIn
  <2>2. \A k \in 1 .. m : b[k] = a[k]
    BY <1>3
  <2> QED BY <1>4, <2>1, <2>2
<1>8. \A k \in 0 .. m : Len(cat[k]) \in Nat
  BY ONLY <1>7
<1>9. \A k \in 1 .. n : l(k) \in Nat \ {0}
  <2> TAKE k \in 1 .. n
  <2> DEFINE x == a[k].bytes
  <2>1. Sequence(x) /\ x # << >>
    BY DEF Bytefull, Speakable
  <2> HIDE DEF x
  <2>2. Len(x) \in Nat \ {0}
    BY <2>1, TailSequence
  <2> QED BY <2>2 DEF x
<1>10. ASSUME NEW k \in 1 .. n PROVE GivenLength(pdu.head[k]) = l(k)
  <2>1. pdu.head[k] = Sub(a[k])
    BY <1>2
  <2>2. GivenLength(Sub(a[k])) = l(k)
    <3>1. Speakable(a[k])
      BY DEF Bytefull
    <3> DEFINE x == a[k]
    <3> HIDE DEF x
    <3>2. GivenLength(Sub(x)) = Len(x.bytes)
      <4>1. Sub(x).lcid = x.lcid /\ Sub(x).length = Len(x.bytes)
        BY DEF Sub
      <4>2. CASE x.lcid = 28
        BY <3>1, <4>1, <4>2 DEF x, GivenLength, lcid_length, Padding, Speakable
      <4>3. CASE x.lcid \in Channel
        <5>1. x.lcid \in 0 .. 10
          BY <4>3 DEF Channel
        <5>2. lcid_length(x.lcid) = 0 /\ x.lcid # Padding
          BY <5>1, SduLength
        <5> QED BY <4>1, <5>2 DEF GivenLength
      <4> QED BY <3>1, <4>2, <4>3 DEF x, Speakable
    <3> QED BY <3>2 DEF x
  <2> QED BY <2>1, <2>2
<1>11. /\ \A k \in 1 .. n + 1 : start[k] \in Nat
       /\ start[1] = 0 /\ \A k \in 1 .. n : start[k + 1] = start[k] + l(k)
  <2>1. Len(pdu.head) \in Nat \ {0} /\ Len(pdu.head) - 1 = n
    BY <1>2
  <2>2. \A k \in 1 .. Len(pdu.head) - 1 : GivenLength(pdu.head[k]) \in Nat
    BY <1>9, <1>10, <2>1
  <2>3. /\ \A k \in 1 .. Len(pdu.head) : start[k] \in Nat
        /\ start[1] = 0
        /\ \A k \in 1 .. Len(pdu.head) - 1 : start[k + 1] = start[k] + GivenLength(pdu.head[k])
    BY <2>1, <2>2, StartsUnfold
  <2> HIDE DEF start, n, l
  <2> QED BY <1>2, <1>10, <2>1, <2>3
<1> HIDE DEF start, l
<1>12. \A k \in 0 .. m : start[k + 1] = Len(cat[k])
  <2> DEFINE P == {k \in 0 .. m : start[k + 1] = Len(cat[k])}
  <2>1. 0 \in P
    <3>1. start[0 + 1] = Len(cat[0]) /\ 0 \in 0 .. m
      BY <1>2, <1>3, <1>7, <1>11
    <3> QED BY <3>1
  <2>2. ASSUME NEW k \in 1 .. m, k - 1 \in P PROVE k \in P
    <3>1. start[(k - 1) + 1] = Len(cat[k - 1]) /\ (k - 1) + 1 = k
      BY <1>2, <1>3, <2>2
    <3>2. k \in 1 .. n /\ k \in 0 .. m
      BY <1>2, <1>3
    <3>3. start[k + 1] = start[k] + l(k)
      BY <1>11, <3>2
    <3>4. Len(cat[k]) = Len(cat[k - 1]) + l(k)
      BY <1>7
    <3> HIDE DEF n
    <3> QED BY <3>1, <3>2, <3>3, <3>4
  <2>3. 0 .. m \subseteq P
    <3>1. m \in Nat
      BY <1>2, <1>3
    <3> HIDE DEF P, n
    <3> QED BY <2>1, <2>2, <3>1, IntervalInduction
  <2> QED BY <2>3
\* The parts behind the last complete SDU begin no earlier.
<1>13. \A k \in m .. n : start[k + 1] >= Len(cat[m])
  <2> DEFINE P == {k \in 0 .. n : k >= m => start[k + 1] >= Len(cat[m])}
  <2>0. Len(cat[m]) \in Nat /\ start[m + 1] = Len(cat[m]) /\ m \in Nat
    <3>1. m \in 0 .. m /\ m \in Nat
      BY <1>2, <1>3
    <3> QED BY <1>8, <1>12, <3>1
  <2>1. 0 \in P
    <3>1. 0 \in 0 .. n
      BY <1>2
    <3>2. 0 >= m => m = 0
      BY <2>0
    <3> HIDE DEF n
    <3> QED BY <2>0, <3>1, <3>2
  <2>2. ASSUME NEW k \in 1 .. n, k - 1 \in P PROVE k \in P
    <3>1. k \in 0 .. n /\ k \in Nat /\ k \in 1 .. n + 1 /\ (k - 1) + 1 = k
      BY <1>2
    <3>2. start[k + 1] = start[k] + l(k) /\ start[k] \in Nat /\ l(k) \in Nat
      BY <1>9, <1>11, <3>1 DEF l
    <3>3. ASSUME k >= m PROVE start[k + 1] >= Len(cat[m])
      <4>1. CASE k = m
        <5>1. start[k + 1] = Len(cat[m])
          BY <2>0, <4>1
        <5> QED BY <2>0, <5>1
      <4>2. CASE k # m
        <5>1. k - 1 >= m
          BY <2>0, <3>1, <3>3, <4>2
        <5>2. start[k] >= Len(cat[m])
          BY <2>2, <3>1, <5>1
        <5> HIDE DEF n
        <5> QED BY <2>0, <3>2, <5>2
      <4> QED BY <4>1, <4>2
    <3> HIDE DEF n
    <3> QED BY <3>1, <3>3
  <2>3. 0 .. n \subseteq P
    <3>1. n \in Nat
      BY <1>2
    <3> HIDE DEF P, n
    <3> QED BY <2>1, <2>2, <3>1, IntervalInduction
  <2>4. \A k \in m .. n : k \in 0 .. n /\ k >= m
    BY <1>2, <2>0
  <2> HIDE DEF n
  <2> QED BY <2>3, <2>4
<1>14. ASSUME NEW k \in 1 .. n
       PROVE  /\ start[k] \in Nat /\ pdu.head[k] = Sub(a[k])
              /\ k <= m => /\ start[k] + l(k) <= Len(pdu.body)
                           /\ \A i \in 1 .. l(k) : pdu.body[start[k] + i] = a[k].bytes[i]
              /\ k > m => start[k] + l(k) > Len(pdu.body)
  <2>1. start[k] \in Nat /\ l(k) \in Nat \ {0} /\ pdu.head[k] = Sub(a[k])
    <3>1. k \in 1 .. n + 1
      BY <1>2
    <3> QED BY <1>2, <1>9, <1>11, <3>1 DEF l
  <2>2. m \in Nat /\ m \in 0 .. m /\ Len(cat[m]) \in Nat /\ k \in Nat /\ (k - 1) + 1 = k
    <3>1. m \in Nat /\ m \in 0 .. m
      BY <1>2, <1>3
    <3> QED BY <1>2, <1>8, <3>1
  <2>3. ASSUME k <= m
        PROVE  /\ start[k] + l(k) <= Len(pdu.body)
               /\ \A i \in 1 .. l(k) : pdu.body[start[k] + i] = a[k].bytes[i]
    <3>1. k \in 1 .. m /\ k - 1 \in 0 .. m
      BY <2>2, <2>3
    <3>2. start[k] = Len(cat[k - 1])
      BY <1>12, <2>2, <3>1
    <3> HIDE DEF n
    <3> QED BY <1>7, <3>1, <3>2
  <2>4. ASSUME k > m PROVE start[k] + l(k) > Len(pdu.body)
    <3>1. k - 1 \in m .. n
      BY <1>2, <2>2, <2>4
    <3>2. start[k] >= Len(cat[m])
      BY <1>13, <2>2, <3>1
    <3>3. Len(pdu.body) = Len(cat[m])
      BY <1>7
    <3> DEFINE from == start[k]
               have == Len(cat[m])
               need == l(k)
    <3>4. from \in Nat /\ have \in Nat /\ need \in Nat \ {0} /\ from >= have
      BY <2>1, <2>2, <3>2
    <3> HIDE DEF n, from, have, need
    <3>5. from + need > have
      BY <3>4
    <3> QED BY <3>3, <3>5 DEF from, have, need
  <2> QED BY <2>1, <2>3, <2>4
<1>15. pdu.body \in Seq(S) /\ Len(pdu.body) \in Nat
  <2>1. m \in 0 .. m
    BY <1>2, <1>3
  <2> QED BY <1>7, <1>8, <2>1
<1> HIDE DEF n
<1> QED BY <1>2, <1>3, <1>14, <1>15 DEF pdu, m, start, l, S, n

\* A part of the body that is found there unit by unit.
LEMMA PartIs ==
  ASSUME NEW S, NEW body \in Seq(S), NEW o \in Nat, NEW x, Sequence(x),
         o + Len(x) <= Len(body), \A i \in 1 .. Len(x) : body[o + i] = x[i]
  PROVE  SubSeq(body, o + 1, o + Len(x)) = x
<1> DEFINE l == Len(x)
           p == o + 1
           q == o + l
           part == SubSeq(body, p, q)
<1>1. l \in Nat /\ Len(body) \in Nat /\ x = [i \in 1 .. l |-> x[i]]
  BY DEF Sequence
<1>2. p \in Int /\ q \in Int
  BY <1>1
<1>3. \A i \in p .. q : body[i] \in S
  <2>1. \A i \in p .. q : i \in 1 .. Len(body)
    BY <1>1
  <2> QED BY <2>1
<1>4. q - p + 1 = l /\ (~ (p <= q) => l = 0) /\ \A i \in 1 .. l : p + i - 1 = o + i
  BY <1>1
<1> HIDE DEF p, q
<1>5. /\ part \in Seq(S)
      /\ Len(part) = IF p <= q THEN q - p + 1 ELSE 0
      /\ \A i \in 1 .. q - p + 1 : part[i] = body[p + i - 1]
  BY <1>2, <1>3, SubSeqProperties
<1> HIDE DEF part
<1>6. Len(part) = l
  BY <1>4, <1>5
<1>7. part = [i \in 1 .. l |-> part[i]]
  BY <1>5, <1>6
<1>8. \A i \in 1 .. l : part[i] = x[i]
  BY <1>4, <1>5
<1>9. part = x
  BY ONLY <1>1, <1>7, <1>8
<1> QED BY <1>9 DEF part, p, q

\* The phone hears the SDUs that are complete, and no others.
LEMMA PhoneHears ==
  ASSUME NEW a, Bytefull(a), a # << >>, NEW size
  PROVE  LET sdus == PhoneSdus(InBlock(a, size))
             m == Complete(a, size)
         IN  /\ m \in 0 .. Len(a) /\ Len(sdus) = m
             /\ \A k \in 1 .. m : sdus[k].lcid = a[k].lcid /\ sdus[k].bytes = a[k].bytes
<1> DEFINE pdu == InBlock(a, size)
           m == Complete(a, size)
           n == Len(a)
           start == Starts(pdu.head)
           end(k) == start[k] + pdu.head[k].length
           bytes(k) == IF end(k) <= Len(pdu.body)
                       THEN SubSeq(pdu.body, start[k] + 1, end(k)) ELSE << >>
           sdu(k) == [lcid |-> pdu.head[k].lcid, bytes |-> bytes(k)]
           list == [k \in 1 .. n |-> sdu(k)]
           kept == {k \in 1 .. n : sdu(k).bytes # << >>}
           S == UnitsOf(a)
<1>1. /\ m \in 0 .. n /\ Len(pdu.head) = n + 1
      /\ pdu.body \in Seq(S) /\ Len(pdu.body) \in Nat
  BY PlacesInBlock
<1>2. \A k \in 1 .. n :
        /\ start[k] \in Nat /\ pdu.head[k] = Sub(a[k])
        /\ k <= m =>
             /\ start[k] + Len(a[k].bytes) <= Len(pdu.body)
             /\ \A i \in 1 .. Len(a[k].bytes) : pdu.body[start[k] + i] = a[k].bytes[i]
        /\ k > m => start[k] + Len(a[k].bytes) > Len(pdu.body)
  BY PlacesInBlock
<1>3. n \in Nat /\ m \in Nat /\ Len(pdu.head) - 1 = n
  <2>1. n \in Nat
    BY DEF Bytefull, Sequence
  <2> HIDE DEF m, n, pdu
  <2> QED BY <1>1, <2>1
<1>4. PhoneSdus(pdu) = Selected(list, kept)
  <2> DEFINE l == Len(pdu.head) - 1
  <2>1. PhoneSdus(pdu) =
          Selected([k \in 1 .. l |-> sdu(k)], {k \in 1 .. l : sdu(k).bytes # << >>})
    <3> HIDE DEF pdu
    <3> QED BY DEF PhoneSdus
  <2>2. l = n
    BY <1>3
  <2> HIDE DEF l, n, sdu
  <2> QED BY <2>1, <2>2
<1> HIDE DEF pdu, m, start
<1>5. ASSUME NEW k \in 1 .. n
      PROVE  /\ sdu(k).lcid = a[k].lcid
             /\ k <= m => sdu(k).bytes = a[k].bytes /\ sdu(k).bytes # << >>
             /\ k > m => sdu(k).bytes = << >>
  <2> DEFINE x == a[k].bytes
             l == Len(x)
  <2>1. pdu.head[k] = Sub(a[k]) /\ start[k] \in Nat
    BY <1>2
  <2>2. pdu.head[k].lcid = a[k].lcid /\ pdu.head[k].length = l
    <3>1. Sub(a[k]).lcid = a[k].lcid /\ Sub(a[k]).length = l
      BY DEF Sub
    <3> QED BY <2>1, <3>1
  <2>3. Sequence(x) /\ x # << >> /\ l \in Nat \ {0}
    <3>1. Sequence(x) /\ x # << >>
      BY DEF Bytefull, Speakable
    <3> HIDE DEF x
    <3> QED BY <3>1, TailSequence
  <2>4. end(k) = start[k] + l
    BY <2>2
  <2>5. sdu(k).lcid = a[k].lcid /\ sdu(k).bytes = bytes(k)
    BY <2>2
  <2>6. ASSUME k <= m PROVE bytes(k) = x
    <3> DEFINE body == pdu.body
               o == start[k]
               part == SubSeq(body, o + 1, o + l)
    <3>1. /\ o + l <= Len(body) /\ Len(body) \in Nat /\ body \in Seq(S)
          /\ \A i \in 1 .. l : body[o + i] = x[i]
      BY <1>1, <1>2, <2>6
    <3>2. bytes(k) = part
      BY <2>4, <3>1
    <3>3. o \in Nat
      BY <2>1
    <3> HIDE DEF body, o, x, S
    <3>4. SubSeq(body, o + 1, o + Len(x)) = x
      BY <2>3, <3>1, <3>3, PartIs
    <3> QED BY <3>2, <3>4
  <2>7. ASSUME k > m PROVE bytes(k) = << >>
    <3>1. start[k] + l > Len(pdu.body)
      BY <1>2, <2>7
    <3> DEFINE e == end(k)
               t == Len(pdu.body)
    <3>2. e > t /\ e \in Nat /\ t \in Nat
      BY <1>1, <2>1, <2>3, <2>4, <3>1
    <3>3. ~ (e <= t)
      <4> HIDE DEF e, t
      <4> QED BY <3>2
    <3> QED BY <3>3
  <2> HIDE DEF bytes, x
  <2> QED BY <2>3, <2>5, <2>6, <2>7 DEF x
<1> HIDE DEF sdu, S
<1> DEFINE T == {sdu(k) : k \in 1 .. n}
<1>6. list \in Seq(T) /\ Len(list) = n /\ \A k \in 1 .. n : list[k] = sdu(k)
  <2>1. \A k \in 1 .. n : sdu(k) \in T
    OBVIOUS
  <2> HIDE DEF T, n
  <2> QED BY <1>3, <2>1
<1>7. \A k \in 1 .. n : k \in kept <=> k <= m
  <2> TAKE k \in 1 .. n
  <2>1. k > m \/ k <= m
    BY <1>3
  <2>2. k > m => ~ (k <= m)
    BY <1>3
  <2> HIDE DEF n
  <2> QED BY <1>5, <2>1, <2>2
<1> HIDE DEF list, kept, T
<1>8. Selected(list, kept) = SubSeq(list, 1, m)
  BY <1>1, <1>6, <1>7, SelectedFront
<1>9. Len(SubSeq(list, 1, m)) = m /\ \A k \in 1 .. m : SubSeq(list, 1, m)[k] = sdu(k)
  <2>1. Sequence(list) /\ m \in 0 .. Len(list)
    BY <1>1, <1>6, SeqIsSequence
  <2>2. \A k \in 1 .. m : k \in 1 .. n
    BY <1>1, <1>3
  <2> HIDE DEF n
  <2> QED BY <1>6, <2>1, <2>2, FrontIs
<1>10. \A k \in 1 .. m : sdu(k).lcid = a[k].lcid /\ sdu(k).bytes = a[k].bytes
  <2> TAKE k \in 1 .. m
  <2>1. k \in 1 .. n /\ k <= m
    BY <1>1, <1>3
  <2> QED BY <1>5, <2>1
<1> QED BY <1>1, <1>4, <1>8, <1>9, <1>10 DEF pdu, m

\* A block is a set-up when one is among its SDUs, whether it is complete or not.
LEMMA SetupIs ==
  ASSUME NEW a, Bytefull(a), a # << >>, NEW size
  PROVE  IsSetup(InBlock(a, size)) <=> Opens(a)
<1> DEFINE head == InBlock(a, size).head
           n == Len(a)
<1>1. /\ Len(head) = n + 1 /\ n \in Nat \ {0}
      /\ \A k \in 1 .. n : head[k] = Sub(a[k])
      /\ head[n + 1] = [lcid |-> Padding, e |-> 0, length |-> 0]
  BY HeadOfBlock DEF Bytefull
<1>2. IsSetup(InBlock(a, size)) <=> \E k \in 1 .. Len(head) : head[k].lcid = 28
  BY DEF IsSetup
<1> HIDE DEF head
<1>3. \A k \in 1 .. n : head[k].lcid = a[k].lcid
  <2>1. \A x : Sub(x).lcid = x.lcid
    BY DEF Sub
  <2> QED BY <1>1, <2>1
<1>4. head[n + 1].lcid # 28
  <2>1. head[n + 1].lcid = 31
    BY <1>1 DEF Padding
  <2> QED BY <2>1
<1>5. /\ \A k \in 1 .. Len(head) : k \in 1 .. n \/ k = n + 1
      /\ \A k \in 1 .. n : k \in 1 .. Len(head)
  BY <1>1
<1>6. (\E k \in 1 .. Len(head) : head[k].lcid = 28) <=> \E k \in 1 .. n : a[k].lcid = 28
  <2> HIDE DEF n
  <2>1. ASSUME NEW k \in 1 .. Len(head), head[k].lcid = 28
        PROVE  \E j \in 1 .. n : a[j].lcid = 28
    <3>1. k \in 1 .. n
      BY <1>4, <1>5, <2>1
    <3> QED BY <1>3, <2>1, <3>1
  <2>2. ASSUME NEW k \in 1 .. n, a[k].lcid = 28
        PROVE  \E j \in 1 .. Len(head) : head[j].lcid = 28
    BY <1>3, <1>5, <2>2
  <2> QED BY <2>1, <2>2
<1> QED BY <1>2, <1>6 DEF Opens

----------------------------------------------------------------------------
(* Requests come first. *)

\* Channel 0 comes first.
LEMMA ZeroComesFirst ==
  ASSUME NEW C \in SUBSET Channel
  PROVE  \A k \in 1 .. Len(SentOn(C)) : SentOn(C)[k] = 0 => k = 1
<1> DEFINE s == << 0, 1, 2, 3 >>
           K == {c + 1 : c \in C}
<1>1a. s \in Seq(Channel)
  BY DEF Channel
<1>1. Len(s) = 4 /\ \A k \in 1 .. 4 : s[k] = k - 1
  OBVIOUS
<1>2. SentOn(C) = Selected(s, K)
  BY DEF SentOn
<1> HIDE DEF s, K
<1>3. PICK kept : /\ Selected(s, K) = kept[Len(s)]
                  /\ kept[0] = << >>
                  /\ \A k \in 1 .. Len(s) :
                       kept[k] = IF k \in K THEN Append(kept[k - 1], s[k]) ELSE kept[k - 1]
  BY <1>1a, SelectedUnfolds
<1> DEFINE P == {m \in 0 .. 4 : /\ Sequence(kept[m]) /\ (m = 0 => Len(kept[m]) = 0)
                                /\ \A k \in 1 .. Len(kept[m]) : kept[m][k] = 0 => k = 1}
<1>4. 0 \in P
  <2>1. Sequence(<< >>) /\ Len(<< >>) = 0
    BY SeqIsSequence, << >> \in Seq({})
  <2> QED BY <1>3, <2>1
<1>5. ASSUME NEW m \in 1 .. 4, m - 1 \in P PROVE m \in P
  <2> DEFINE t == kept[m - 1]
             r == kept[m]
             x == s[m]
  <2>1. /\ Sequence(t) /\ (m - 1 = 0 => Len(t) = 0) /\ m \in 0 .. 4 /\ m # 0
        /\ \A k \in 1 .. Len(t) : t[k] = 0 => k = 1
    BY <1>5
  <2>2. r = IF m \in K THEN Append(t, x) ELSE t
    BY <1>1, <1>3
  <2>3. x = 0 => m - 1 = 0
    BY <1>1
  <2>3a. m \in 0 .. 4 /\ m # 0
    BY <2>1
  <2> HIDE DEF t, r, x
  <2>4. CASE m \notin K
    <3>1. r = t
      BY <2>2, <2>4
    <3> QED BY <2>1, <3>1 DEF r
  <2>5. CASE m \in K
    <3>1. r = Append(t, x)
      BY <2>2, <2>5
    <3>2. /\ Sequence(r) /\ Len(r) = Len(t) + 1 /\ r[Len(t) + 1] = x
          /\ \A i \in 1 .. Len(t) : r[i] = t[i]
      BY <2>1, <3>1, AppendSequence
    <3>3. ASSUME NEW k \in 1 .. Len(r), r[k] = 0 PROVE k = 1
      <4>0. Len(t) \in Nat
        BY <2>1 DEF Sequence
      <4>1. k \in 1 .. Len(t) \/ k = Len(t) + 1
        BY <3>2, <4>0
      <4>2. CASE k \in 1 .. Len(t)
        BY <2>1, <3>2, <3>3, <4>2
      <4>3. CASE k = Len(t) + 1
        <5>1. x = 0
          BY <3>2, <3>3, <4>3
        <5>2. Len(t) = 0
          BY <2>1, <2>3, <5>1
        <5> QED BY <4>3, <5>2
      <4> QED BY <4>1, <4>2, <4>3
    <3> QED BY <2>3a, <3>2, <3>3 DEF r
  <2> QED BY <2>4, <2>5
<1>6. 4 \in P
  <2> HIDE DEF P
  <2>1. 0 .. 4 \subseteq P
    BY <1>4, <1>5, IntervalInduction
  <2> QED BY <2>1
<1> QED BY <1>1, <1>2, <1>3, <1>6

\* The requests that wait to be sent.
RequestsWait == \A i \in 1 .. Len(sending[0]) : IsRequest(sending[0][i])

UpOpening == \A i \in 1 .. Len(up) : Opening(up[i].sdus)

OpeningInv == RequestsWait /\ UpOpening

LEMMA SentOpening ==
  ASSUME ProtocolInv, RequestsWait, NEW C \in (SUBSET Busy) \ {{}}, NEW status \in BOOLEAN
  PROVE  Opening(SentSdus(C, status))
<1> DEFINE t == SentOn(C)
           n == Len(t)
           sub(k) == [lcid |-> t[k], bytes |-> Head(sending[t[k]])]
           rest == [k \in 1 .. n |-> sub(k)]
           report == [lcid |-> 1, bytes |-> StatusReport(vr)]
           front == IF status THEN << report >> ELSE << >>
           o == IF status THEN 1 ELSE 0
           T == {report} \union {sub(k) : k \in 1 .. n}
           sdus == SentSdus(C, status)
<1>1. t \in Seq(C) /\ \A k \in 1 .. n : t[k] = 0 => k = 1
  <2>1. C \in SUBSET Channel /\ C # {}
    BY DEF Busy
  <2> QED BY <2>1, SentOnChannels, ZeroComesFirst
<1>2. sdus = front \o rest
  BY DEF SentSdus
<1>3. StatusOnly(report)
  <2> DEFINE u == [kind |-> "rlc", dc |-> "status", p |-> FALSE, e |-> 0,
                   first |-> TRUE, last |-> TRUE, sn |-> (vr + 1) % SnMod]
  <2>1. report.lcid = 1 /\ report.bytes = << u >> /\ u.dc = "status"
    BY DEF StatusReport
  <2> HIDE DEF report, u
  <2>2. Head(<< u >>) = u
    OBVIOUS
  <2> QED BY <2>1, <2>2 DEF StatusOnly
<1>4. \A k : sub(k).lcid = t[k] /\ sub(k).bytes = Head(sending[t[k]])
  OBVIOUS
<1>5. ASSUME 0 \in C PROVE IsRequest(Head(sending[0]))
  <2> DEFINE old == sending[0]
  <2>1. old # << >> /\ old \in Seq(Fragment(test_IP, 0))
    BY <1>5, FourChannels DEF Busy, ProtocolInv, PhoneOK
  <2>2. \A i \in 1 .. Len(old) : IsRequest(old[i])
    BY DEF RequestsWait
  <2> HIDE DEF old
  <2>3. Head(old) = old[1] /\ 1 \in 1 .. Len(old)
    BY <2>1
  <2> QED BY <2>2, <2>3 DEF old
<1> HIDE DEF sdus, t, report
<1>6. n \in Nat /\ o \in {0, 1}
  BY <1>1
<1>7. /\ front \in Seq(T) /\ Len(front) = o /\ (o = 1 => front[1] = report)
      /\ rest \in Seq(T) /\ Len(rest) = n /\ \A k \in 1 .. n : rest[k] = sub(k)
  <2>1. report \in T /\ \A k \in 1 .. n : sub(k) \in T
    OBVIOUS
  <2> HIDE DEF T, sub, n
  <2> QED BY <1>6, <2>1
<1> HIDE DEF T, front, rest, sub, o
<1>8. /\ Len(sdus) = o + n
      /\ \A i \in 1 .. o + n : sdus[i] = IF i <= o THEN front[i] ELSE rest[i - o]
  <2>1. /\ Len(front \o rest) = Len(front) + Len(rest)
        /\ \A i \in 1 .. Len(front) + Len(rest) :
             (front \o rest)[i] = IF i <= Len(front) THEN front[i] ELSE rest[i - Len(front)]
    BY <1>7, ConcatProperties
  <2> HIDE DEF n
  <2> QED BY <1>2, <1>7, <2>1
<1>9. ASSUME NEW k \in 1 .. Len(sdus), sdus[k].lcid = 0
      PROVE  IsRequest(sdus[k].bytes) /\ \A j \in 1 .. k - 1 : StatusOnly(sdus[j])
  <2>1. k \in 1 .. o + n
    BY <1>8
  <2>2. k > o
    <3> SUFFICES ASSUME k <= o PROVE FALSE
      BY <1>6, <2>1
    <3>1. k = 1 /\ o = 1
      BY <1>6, <2>1
    <3>2. sdus[k] = report
      BY <1>7, <1>8, <2>1, <3>1
    <3> QED BY <1>3, <1>9, <3>2 DEF StatusOnly
  <2>3. k - o \in 1 .. n /\ ~ (k <= o)
    BY <1>6, <2>1, <2>2
  <2>4. sdus[k] = sub(k - o)
    <3>1. sdus[k] = rest[k - o]
      BY <1>8, <2>1, <2>3
    <3> QED BY <1>7, <2>3, <3>1
  <2>5. t[k - o] = 0 /\ sdus[k].bytes = Head(sending[t[k - o]])
    BY <1>4, <1>9, <2>4
  <2>6. k - o = 1
    BY <1>1, <2>3, <2>5
  <2>7. 0 \in C
    BY <1>1, <2>3, <2>5
  <2>8. \A j \in 1 .. k - 1 : j = 1 /\ o = 1 /\ j <= o /\ j \in 1 .. o + n
    BY <1>6, <2>1, <2>6
  <2>9. \A j \in 1 .. k - 1 : sdus[j] = report
    <3> TAKE j \in 1 .. k - 1
    <3>1. j = 1 /\ o = 1 /\ j <= o /\ j \in 1 .. o + n
      BY <2>8
    <3>2. sdus[j] = front[j]
      BY <1>8, <3>1
    <3> QED BY <1>7, <3>1, <3>2
  <2>10. IsRequest(sdus[k].bytes)
    BY <1>5, <2>5, <2>7
  <2> QED BY <1>3, <2>9, <2>10
<1> QED BY <1>9 DEF Opening, sdus

LEMMA OpeningBegins == Init => OpeningInv
<1> SUFFICES ASSUME Init PROVE OpeningInv
  OBVIOUS
<1>1. Len(<< >>) = 0 /\ 1 .. 0 = {}
  OBVIOUS
<1>2. up = << >> /\ sending[0] = << >>
  BY DEF Init, Empty, Channel
<1>3. RequestsWait
  BY <1>1, <1>2 DEF RequestsWait
<1>4. UpOpening
  BY <1>1, <1>2 DEF UpOpening
<1> QED BY <1>3, <1>4 DEF OpeningInv

\* What does not touch the blocks on the air nor channel 0.
LEMMA OpeningSame ==
  ASSUME OpeningInv, up' = up, sending'[0] = sending[0]
  PROVE  OpeningInv'
BY DEF OpeningInv, RequestsWait, UpOpening

LEMMA OpeningTaken ==
  ASSUME ProtocolInv, OpeningInv, up # << >>, up' = Tail(up), sending' = sending
  PROVE  OpeningInv'
<1>1. Sequence(up)
  BY SeqIsSequence DEF ProtocolInv, UpOK
<1>2. /\ Len(Tail(up)) = Len(up) - 1 /\ Len(up) \in Nat \ {0}
      /\ \A i \in 1 .. Len(Tail(up)) : Tail(up)[i] = up[i + 1]
  BY <1>1, TailSequence
<1>3. ASSUME NEW i \in 1 .. Len(Tail(up)) PROVE Opening(Tail(up)[i].sdus)
  <2>1. i + 1 \in 1 .. Len(up)
    BY <1>2
  <2>2. Opening(up[i + 1].sdus)
    BY <2>1 DEF OpeningInv, UpOpening
  <2> QED BY <1>2, <2>2
<1>4. UpOpening'
  BY <1>3 DEF UpOpening
<1>5. RequestsWait'
  BY DEF OpeningInv, RequestsWait
<1> QED BY <1>4, <1>5 DEF OpeningInv

LEMMA OpeningOfRequest ==
  ASSUME OpeningInv, NEW c, Request(c)
  PROVE  OpeningInv'
<1> DEFINE f == << MsgUnit("request", c) >>
           parts == << f >>
<1>1. sending' = [Empty EXCEPT ![0] = parts] /\ up' = up
  BY DEF Request, MsgUnit
<1>2. IsRequest(f)
  BY DEF IsRequest
<1> HIDE DEF f
<1>3. Len(parts) = 1 /\ parts[1] = f /\ \A i \in 1 .. 1 : i = 1
  OBVIOUS
<1> HIDE DEF parts
<1>4. sending'[0] = parts
  BY <1>1 DEF Empty, Channel
<1>5. RequestsWait'
  BY <1>2, <1>3, <1>4 DEF RequestsWait
<1> QED BY <1>1, <1>5 DEF OpeningInv, UpOpening

LEMMA OpeningOfSend ==
  ASSUME ProtocolInv, OpeningInv, Send
  PROVE  OpeningInv'
<1>1. PICK C \in (SUBSET Busy) \ {{}}, status \in BOOLEAN :
        /\ up' = Append(up, [pdu |-> PhonePdu(status, SentSdus(C, status)),
                             sdus |-> SentSdus(C, status)])
        /\ sending' = Without(C)
  BY DEF Send, SentSdus, SentOn
<1> DEFINE s == SentSdus(C, status)
           block == [pdu |-> PhonePdu(status, s), sdus |-> s]
<1>2. Opening(s)
  BY SentOpening DEF OpeningInv
<1> HIDE DEF s
<1>3. block.sdus = s /\ up' = Append(up, block)
  BY <1>1 DEF s
<1> HIDE DEF block
<1>4. /\ Len(up) \in Nat /\ Len(up') = Len(up) + 1 /\ up'[Len(up) + 1] = block
      /\ \A i \in 1 .. Len(up) : up'[i] = up[i]
  <2>1. Sequence(up)
    BY SeqIsSequence DEF ProtocolInv, UpOK
  <2> QED BY <1>3, <2>1, AppendSequence DEF Sequence
<1>5. UpOpening'
  <2>1. ASSUME NEW i \in 1 .. Len(up') PROVE Opening(up'[i].sdus)
    <3>1. i \in 1 .. Len(up) \/ i = Len(up) + 1
      BY <1>4
    <3>2. CASE i = Len(up) + 1
      BY <1>2, <1>3, <1>4, <3>2
    <3>3. CASE i \in 1 .. Len(up)
      BY <1>4, <3>3 DEF OpeningInv, UpOpening
    <3> QED BY <3>1, <3>2, <3>3
  <2> QED BY <2>1 DEF UpOpening
<1>6. RequestsWait'
  <2> DEFINE old == sending[0]
             new == sending'[0]
  <2>1. new = IF 0 \in C THEN Tail(old) ELSE old
    BY <1>1, FourChannels DEF Without
  <2>2. \A i \in 1 .. Len(old) : IsRequest(old[i])
    BY DEF OpeningInv, RequestsWait
  <2>3. Sequence(old)
    BY FourChannels, SeqIsSequence DEF ProtocolInv, PhoneOK
  <2>4. 0 \in C => old # << >>
    BY <1>1 DEF Busy
  <2> HIDE DEF old, new
  <2>5. CASE 0 \in C
    <3>1. /\ Len(Tail(old)) = Len(old) - 1 /\ Len(old) \in Nat \ {0}
          /\ \A i \in 1 .. Len(Tail(old)) : Tail(old)[i] = old[i + 1]
      BY <2>3, <2>4, <2>5, TailSequence
    <3>2. ASSUME NEW i \in 1 .. Len(Tail(old)) PROVE IsRequest(Tail(old)[i])
      <4>1. i + 1 \in 1 .. Len(old)
        BY <3>1
      <4> QED BY <2>2, <3>1, <4>1
    <3> QED BY <2>1, <2>5, <3>2 DEF new, RequestsWait
  <2>6. CASE 0 \notin C
    BY <2>1, <2>2, <2>6 DEF new, RequestsWait
  <2> QED BY <2>5, <2>6
<1> QED BY <1>5, <1>6 DEF OpeningInv

LEMMA OpeningOfReceive ==
  ASSUME ProtocolInv, OpeningInv, Receive
  PROVE  OpeningInv'
<1> DEFINE sdus == PhoneSdus(Head(down))
           echoed == \E k \in 1 .. Len(sdus) :
                       sdus[k].lcid = 28 /\ Head(sdus[k].bytes).id = conn
           commands == Commands(sdus)
           type == pdcp_decode(1, Tail(commands[1].bytes))[1].type
           established == phase \notin {"off", "request"}
           acked == Acknowledges(sdus)
<1>1. up' = up
  BY DEF Receive
<1>2. ASSUME NEW parts, sending' = [sending EXCEPT ![1] = parts]
      PROVE  sending'[0] = sending[0]
  BY <1>2, FourChannels
<1>3. ASSUME NEW t, NEW next, Enqueue(t, next) PROVE sending'[0] = sending[0]
  <2>1. \E parts : sending' = [sending EXCEPT ![1] = parts]
    BY <1>3 DEF Enqueue
  <2> QED BY <1>2, <2>1
<1>4. ASSUME EnqueueCompletes PROVE sending'[0] = sending[0]
  <2>1. \E parts : sending' = [sending EXCEPT ![1] = parts]
    BY <1>4 DEF EnqueueCompletes
  <2> QED BY <1>2, <2>1
<1>5. \/ Enqueue("setupComplete", "setupComplete")
      \/ EnqueueCompletes
      \/ Enqueue(Response[type], Response[type])
      \/ sending' = sending
  <2>1. CASE phase = "request" /\ echoed
    <3>1. Enqueue("setupComplete", "setupComplete")
      BY <2>1 DEF Receive
    <3> QED BY <3>1
  <2>2. CASE phase # "request" /\ established /\ commands # << >>
    <3>1. IF phase \in DOMAIN NextCommand /\ type = NextCommand[phase]
          THEN IF Response[type] = "completing" THEN EnqueueCompletes
               ELSE Enqueue(Response[type], Response[type])
          ELSE /\ phase' = IF phase = "detachRequest" THEN "off" ELSE phase
               /\ UNCHANGED <<vt, sending>>
      BY <2>2 DEF Receive
    <3> HIDE DEF sdus, type, commands, established, echoed, acked
    <3> QED BY <3>1
  <2>3. CASE phase # "request" /\ established /\ commands = << >> /\ acked
    <3>1. sending' = sending
      BY <2>3 DEF Receive
    <3> QED BY <3>1
  <2>4. CASE ~ \/ phase = "request" /\ echoed
               \/ established /\ commands # << >>
               \/ established /\ commands = << >> /\ acked
    <3>1. sending' = sending
      BY <2>4 DEF Receive
    <3> QED BY <3>1
  <2>5. established => phase # "request"
    OBVIOUS
  <2> HIDE DEF echoed, acked, commands, established, type
  <2> QED BY <2>1, <2>2, <2>3, <2>4, <2>5
<1>6. sending'[0] = sending[0]
  <2> HIDE DEF type
  <2> QED BY <1>3, <1>4, <1>5
<1> QED BY <1>1, <1>6, OpeningSame

\* Packets and signalling messages of the phone.
LEMMA OpeningOfOthers ==
  ASSUME ProtocolInv, OpeningInv, Retransmit \/ SendPacket \/ SendStream \/ SendOther \/ Detach
  PROVE  OpeningInv'
<1>1. \/ \E parts : sending' = [sending EXCEPT ![1] = parts]
      \/ \E parts : sending' = [sending EXCEPT ![3] = parts]
  BY DEF Retransmit, SendPacket, SendStream, SendOther, SendTest, Detach, Enqueue
<1>2. up' = up
  BY DEF Retransmit, SendPacket, SendStream, SendOther, SendTest, Detach
<1>3. sending'[0] = sending[0]
  BY <1>1, FourChannels
<1> QED BY <1>2, <1>3, OpeningSame

LEMMA OpeningPreserved ==
  ASSUME ProtocolInv, OpeningInv, [Next]_vars
  PROVE  OpeningInv'
<1>1. CASE UNCHANGED vars \/ mac_tx_schedule_IP \/ clearStats \/ LoseDown
  <2>1. up' = up /\ sending' = sending
    BY <1>1 DEF vars, phoneVars, mac_tx_schedule_IP, clearStats, LoseDown
  <2> QED BY <2>1, OpeningSame
<1>2. CASE Connect \/ Timeout
  BY <1>2, OpeningOfRequest DEF Connect, Timeout
<1>3. CASE Serve \/ LoseUp
  <2>1. up # << >> /\ up' = Tail(up) /\ sending' = sending
    BY <1>3 DEF Serve, LoseUp, phoneVars
  <2> QED BY <2>1, OpeningTaken
<1> QED BY <1>1, <1>2, <1>3, OpeningOfSend, OpeningOfReceive, OpeningOfOthers DEF Next

----------------------------------------------------------------------------
(* The blocks that are queued. *)

\* What the phone hears of a numbered list is numbered as well, and to the
\* end when it hears all of it.
LEMMA HeardInOrder ==
  ASSUME NEW a, Bytefull(a), a # << >>, NEW size,
         NEW c, NEW base, NEW n, Numbered(c, a, base, n)
  PROVE  LET block == InBlock(a, size)
             sdus == PhoneSdus(block)
         IN  /\ \A k \in DataOn(c, sdus) :
                  Head(sdus[k].bytes).sn = (base + Ahead(c, sdus, k)) % SnMod
             /\ Len(sdus) + 1 = Len(block.head) =>
                  n = (base + Ahead(c, sdus, Len(block.head))) % SnMod
<1> DEFINE block == InBlock(a, size)
           sdus == PhoneSdus(block)
           m == Complete(a, size)
           l == Len(a)
<1>1. /\ m \in 0 .. l /\ Len(sdus) = m
      /\ \A k \in 1 .. m : sdus[k].lcid = a[k].lcid /\ sdus[k].bytes = a[k].bytes
  BY PhoneHears
<1>2. l \in Nat /\ Len(block.head) = l + 1
  BY HeadOfBlock DEF Bytefull
<1> HIDE DEF block, sdus, m
<1>3. \A k \in 1 .. m : k \in 1 .. l
  BY <1>1, <1>2
<1> HIDE DEF l
<1>4. \A k \in 1 .. m : k \in DataOn(c, sdus) <=> k \in DataOn(c, a)
  <2> TAKE k \in 1 .. m
  <2>1. k \in 1 .. Len(sdus) /\ k \in 1 .. Len(a)
    BY <1>1, <1>3 DEF l
  <2>2. Head(sdus[k].bytes) = Head(a[k].bytes) /\ sdus[k].lcid = a[k].lcid
    BY <1>1
  <2> QED BY <2>1, <2>2 DEF DataOn
<1>5. DataOn(c, sdus) \subseteq 1 .. m /\ DataOn(c, a) \subseteq 1 .. l
  BY <1>1 DEF DataOn, l
<1>6. ASSUME NEW k \in 1 .. m + 1 PROVE Ahead(c, sdus, k) = Ahead(c, a, k)
  <2>1. \A j \in 1 .. l : j < k => j \in 1 .. m
    BY <1>1, <1>2
  <2>2. {j \in DataOn(c, sdus) : j < k} = {j \in DataOn(c, a) : j < k}
    <3>1. ASSUME NEW j \in DataOn(c, sdus), j < k PROVE j \in DataOn(c, a)
      BY <1>4, <1>5
    <3>2. ASSUME NEW j \in DataOn(c, a), j < k PROVE j \in DataOn(c, sdus)
      BY <1>4, <1>5, <2>1, <3>2
    <3> QED BY <3>1, <3>2
  <2> QED BY <2>2 DEF Ahead
<1>7. ASSUME NEW k \in DataOn(c, sdus)
      PROVE  Head(sdus[k].bytes).sn = (base + Ahead(c, sdus, k)) % SnMod
  <2>1. k \in 1 .. m /\ k \in 1 .. m + 1
    <3>1. k \in 1 .. m
      BY <1>5
    <3> QED BY <1>1, <1>2, <3>1
  <2>2. k \in DataOn(c, a)
    BY <1>4, <2>1
  <2>3. Head(sdus[k].bytes) = Head(a[k].bytes)
    BY <1>1, <2>1
  <2> QED BY <1>6, <2>1, <2>2, <2>3 DEF Numbered
<1>8. ASSUME Len(sdus) + 1 = Len(block.head)
      PROVE  n = (base + Ahead(c, sdus, Len(block.head))) % SnMod
  <2>1. m = l /\ l + 1 \in 1 .. m + 1
    BY <1>1, <1>2, <1>8
  <2>2. Ahead(c, sdus, Len(block.head)) = Ahead(c, a, l + 1)
    BY <1>2, <1>6, <2>1
  <2> QED BY <2>2 DEF Numbered, l
<1> QED BY <1>7, <1>8 DEF block, sdus

\* The body of SnsInOrder for a block that was just queued.
BlockInOrder(block, before, after) ==
  LET sdus == PhoneSdus(block)
      base(c) == IF IsSetup(block) THEN 0 ELSE before[c]
      ahead(c, k) == Cardinality({j \in DataOn(c, sdus) : j < k})
  IN  \A c \in 1 .. 3 :
        /\ \A k \in DataOn(c, sdus) :
             Head(sdus[k].bytes).sn = (base(c) + ahead(c, k)) % SnMod
        /\ Len(sdus) + 1 = Len(block.head) =>
             after[c] = (base(c) + ahead(c, Len(block.head))) % SnMod

LEMMA BlockNumbered ==
  ASSUME NEW a, Bytefull(a), a # << >>, NEW size, NEW after,
         \A c \in 1 .. 3 : Numbered(c, a, BaseOf(a)[c], after[c])
  PROVE  BlockInOrder(InBlock(a, size), rlc_tx_sn, after)
<1> DEFINE block == InBlock(a, size)
           sdus == PhoneSdus(block)
           base(c) == IF IsSetup(block) THEN 0 ELSE rlc_tx_sn[c]
<1>1. \A c \in 1 .. 3 : base(c) = BaseOf(a)[c]
  <2>1. IsSetup(block) <=> Opens(a)
    BY SetupIs
  <2> HIDE DEF block
  <2> QED BY <2>1 DEF BaseOf
<1>2. ASSUME NEW c \in 1 .. 3
      PROVE  /\ \A k \in DataOn(c, sdus) :
                  Head(sdus[k].bytes).sn = (base(c) + Ahead(c, sdus, k)) % SnMod
             /\ Len(sdus) + 1 = Len(block.head) =>
                  after[c] = (base(c) + Ahead(c, sdus, Len(block.head))) % SnMod
  <2>1. base(c) = BaseOf(a)[c]
    BY <1>1
  <2> HIDE DEF base
  <2> QED BY <2>1, HeardInOrder
<1> HIDE DEF block
<1>3. BlockInOrder(block, rlc_tx_sn, after)
  <2>1. \A c, k : Ahead(c, sdus, k) = Cardinality({j \in DataOn(c, sdus) : j < k})
    BY DEF Ahead
  <2> QED BY <1>2, <2>1 DEF BlockInOrder
<1> QED BY <1>3 DEF block

LEMMA ServeInOrder ==
  ASSUME ProtocolInv, OpeningInv, Serve, Len(down') > Len(down)
  PROVE  BlockInOrder(down'[Len(down')], rlc_tx_sn, rlc_tx_sn')
<1>1. PICK result \in {Result(Head(up).pdu)} :
         /\ rlc_tx_sn' = result.sn
         /\ IF result.answers = <<>> THEN UNCHANGED <<down, trouble>>
            ELSE \/ Queue(InBlock(result.answers, RrcBlock)) /\ UNCHANGED trouble
                 \/ Hit /\ UNCHANGED down
  BY DEF Serve
<1>2. Opening(Head(up).sdus) /\ up # << >>
  <2>1. up # << >> /\ Sequence(up)
    BY SeqIsSequence DEF Serve, ProtocolInv, UpOK
  <2>2. Head(up) = up[1] /\ 1 \in 1 .. Len(up)
    BY <2>1, TailSequence
  <2> QED BY <2>1, <2>2 DEF OpeningInv, UpOpening
<1> DEFINE a == result.answers
           block == InBlock(a, RrcBlock)
<1>3. Counting(result, BaseOf(a))
  BY <1>1, <1>2, ResultNumbers
<1>4. Bytefull(a) /\ \A c \in 1 .. 3 : Numbered(c, a, BaseOf(a)[c], rlc_tx_sn'[c])
  BY <1>1, <1>3 DEF Counting
<1>5. Sequence(down) /\ Len(down) \in Nat
  BY DEF ProtocolInv, DownOK, Headed, Sequence
<1>6. down' # down
  <2> SUFFICES ASSUME down' = down PROVE FALSE
    OBVIOUS
  <2>1. Len(down) > Len(down)
    OBVIOUS
  <2> QED BY <1>5, <2>1
<1>7. a # << >> /\ down' = Append(down, block)
  BY <1>1, <1>6 DEF Queue
<1> HIDE DEF block
<1>8. down'[Len(down')] = block
  <2>1. Len(down') = Len(down) + 1 /\ down'[Len(down) + 1] = block
    BY <1>5, <1>7, AppendSequence
  <2> QED BY <2>1
<1> HIDE DEF a
<1>9. BlockInOrder(block, rlc_tx_sn, rlc_tx_sn')
  BY <1>4, <1>7, BlockNumbered DEF block
<1> QED BY <1>8, <1>9

LEMMA ScheduleInOrder ==
  ASSUME ProtocolInv, mac_tx_schedule_IP, Len(down') > Len(down)
  PROVE  BlockInOrder(down'[Len(down')], rlc_tx_sn, rlc_tx_sn')
<1>1. PICK n \in NetLengths :
       LET sdus == mac_tx_get_IP_packets(n)
           len == Smaller(HeadBytes(sdus) + ByteLength(Bodies(sdus)), MaxAnswer)
           size == blockSize(rate, 8 * len)
       IN  IF size > 0 THEN Queue(InBlock(sdus, Smaller(size \div 8, MaxAnswer)))
           ELSE UNCHANGED down
  BY DEF mac_tx_schedule_IP
<1> DEFINE sn == rlc_tx_sn[3]
           bytes == << [kind |-> "net", size |-> n] >>
           x == [lcid |-> 3, bytes |-> rlc_encode(3, sn, pdcp_encode(3, bytes))]
           a == mac_tx_get_IP_packets(n)
           next == nextSn(3, sn)
<1>2. a = << x >>
  BY DEF mac_tx_get_IP_packets
<1>3. rlc_tx_sn \in [Channel -> 0 .. SnMod - 1] /\ 3 \in Channel
  BY FourChannels DEF ProtocolInv, StationOK
<1>4. rlc_tx_sn' = [rlc_tx_sn EXCEPT ![3] = next]
  BY DEF mac_tx_schedule_IP
<1>5. Sequence(bytes) /\ bytes # << >>
  <2>1. Sequence(bytes) /\ Len(bytes) = 1
    BY OneIsSequence
  <2>2. Len(<< >>) = 0
    OBVIOUS
  <2> HIDE DEF bytes
  <2> QED BY <2>1, <2>2
<1> HIDE DEF bytes
<1>6. /\ Sequence(x.bytes) /\ x.bytes # << >> /\ x.lcid = 3
      /\ Head(x.bytes).dc = "data" /\ Head(x.bytes).sn = sn
  <2>1. 3 \in Channel \union {28} /\ 3 \in 1 .. 3
    BY <1>3
  <2> HIDE DEF sn
  <2> QED BY <1>5, <2>1, EncodedBytes
<1> HIDE DEF x, a
<1>7. /\ Sequence(a) /\ Len(a) = 1 /\ a[1] = x /\ a = Append(<< >>, x)
      /\ \A k \in 1 .. Len(a) : a[k] = x
  <2>1. Sequence(<< x >>) /\ Len(<< x >>) = 1 /\ << x >>[1] = x
    BY OneIsSequence
  <2>2. << x >> = Append(<< >>, x)
    OBVIOUS
  <2>3. \A k \in 1 .. 1 : k = 1
    OBVIOUS
  <2> QED BY <1>2, <2>1, <2>2, <2>3
<1>8. Bytefull(a) /\ a # << >> /\ ~ Opens(a)
  <2>1. Speakable(x)
    BY <1>3, <1>6 DEF Speakable
  <2>2. Len(<< >>) = 0
    OBVIOUS
  <2> QED BY <1>6, <1>7, <2>1, <2>2 DEF Bytefull, Opens
<1>9. \A c \in 1 .. 3 : Numbered(c, a, BaseOf(a)[c], rlc_tx_sn'[c])
  <2> TAKE c \in 1 .. 3
  <2>1. BaseOf(a)[c] = rlc_tx_sn[c]
    BY <1>8 DEF BaseOf
  <2>2. rlc_tx_sn[c] \in 0 .. SnMod - 1 /\ c \in Channel
    BY <1>3 DEF Channel
  <2>3. Numbered(c, << >>, rlc_tx_sn[c], rlc_tx_sn[c]) /\ Sequence(<< >>)
    BY <2>2, NoneNumbered, SeqIsSequence, << >> \in Seq({})
  <2>4. CASE c = 3
    <3>1. IsDataOn(3, x) /\ Head(x.bytes).sn = sn
      BY <1>6 DEF IsDataOn
    <3>2. Numbered(3, Append(<< >>, x), sn, (sn + 1) % SnMod)
      <4>1. sn \in Nat /\ Numbered(3, << >>, sn, sn)
        BY <2>2, <2>3, <2>4, RlcAssumption
      <4> HIDE DEF sn
      <4> QED BY <2>3, <3>1, <4>1, MessageNumbered
    <3>3. rlc_tx_sn'[3] = (sn + 1) % SnMod
      BY <1>3, <1>4 DEF nextSn
    <3> QED BY <1>7, <2>1, <2>4, <3>2, <3>3
  <2>5. CASE c # 3
    <3>1. ~ IsDataOn(c, x)
      BY <1>6, <2>5 DEF IsDataOn
    <3>2. rlc_tx_sn'[c] = rlc_tx_sn[c]
      BY <1>3, <1>4, <2>2, <2>5
    <3> QED BY <1>7, <2>1, <2>3, <3>1, <3>2, OtherNumbered
  <2> QED BY <2>4, <2>5
<1>10. Sequence(down) /\ Len(down) \in Nat
  BY DEF ProtocolInv, DownOK, Headed, Sequence
<1>11. down' # down
  <2> SUFFICES ASSUME down' = down PROVE FALSE
    OBVIOUS
  <2>1. Len(down) > Len(down)
    OBVIOUS
  <2> QED BY <1>10, <2>1
<1>12. PICK size : down' = Append(down, InBlock(a, size))
  BY <1>1, <1>11 DEF Queue, a
<1> DEFINE block == InBlock(a, size)
<1>13. BlockInOrder(block, rlc_tx_sn, rlc_tx_sn')
  BY <1>8, <1>9, BlockNumbered
<1> HIDE DEF block
<1>14. down'[Len(down')] = block
  <2>1. Len(down') = Len(down) + 1 /\ down'[Len(down) + 1] = block
    BY <1>10, <1>12, AppendSequence DEF block
  <2> QED BY <2>1
<1> QED BY <1>13, <1>14

LEMMA StepInOrder ==
  ASSUME ProtocolInv, OpeningInv, [Next]_vars, Len(down') > Len(down)
  PROVE  BlockInOrder(down'[Len(down')], rlc_tx_sn, rlc_tx_sn')
<1>1. Sequence(down) /\ Len(down) \in Nat
  BY DEF ProtocolInv, DownOK, Headed, Sequence
<1>2. down' # down
  <2> SUFFICES ASSUME down' = down PROVE FALSE
    OBVIOUS
  <2>1. Len(down) > Len(down)
    OBVIOUS
  <2> QED BY <1>1, <2>1
<1>3. ~ (down # << >> /\ down' = Tail(down))
  <2> SUFFICES ASSUME down # << >>, down' = Tail(down) PROVE FALSE
    OBVIOUS
  <2>1. Len(down') = Len(down) - 1
    BY <1>1, TailSequence
  <2> QED BY <1>1, <2>1
<1>4. Serve \/ mac_tx_schedule_IP
  <2>1. ~ UNCHANGED vars /\ ~ Receive /\ ~ LoseDown
    BY <1>2, <1>3 DEF vars, Receive, LoseDown
  <2>2. /\ ~ clearStats /\ ~ Connect /\ ~ Timeout /\ ~ Retransmit /\ ~ Send /\ ~ LoseUp
        /\ ~ SendPacket /\ ~ SendStream /\ ~ SendOther /\ ~ Detach
    BY <1>2 DEF clearStats, Connect, Timeout, Request, Retransmit, Send, LoseUp,
                SendPacket, SendStream, SendOther, SendTest, Detach
  <2> QED BY <2>1, <2>2 DEF Next
<1> QED BY <1>4, ServeInOrder, ScheduleInOrder

----------------------------------------------------------------------------
(* The theorems. *)

\* E2ETypeOK: the buffers never hold more than their index can count, and the
\* counters stay in their ranges, for buffers, blocks and packets of every
\* size and however long the queues may be.
THEOREM E2ETypeCorrect == Spec => []E2ETypeOK
<1>1. ASSUME ProtocolInv PROVE E2ETypeOK
  <2>1. ASSUME NEW c \in Channel
        PROVE  /\ Len(rlc_sdu_buffer[c]) < IndexMod
               /\ Len(rlc_sdu_buffer[c]) <= BufSize
               /\ rlc_tx_sn[c] \in 0 .. SnMod - 1
    <3>1. rlc_sdu_buffer[c] \in Seq(Plain) /\ Len(rlc_sdu_buffer[c]) < IndexMod
      BY <1>1 DEF ProtocolInv, StationOK, BuffersOK, Agree
    <3>2. Len(rlc_sdu_buffer[c]) \in Nat
      BY <3>1
    <3>3. Len(rlc_sdu_buffer[c]) <= BufSize
      BY <3>1, <3>2, RlcAssumption
    <3> QED BY <1>1, <3>1, <3>3 DEF ProtocolInv, StationOK
  <2>2. stats.old_index \in 0 .. IndexRange - 1 /\ stats.udp_pkt_miss \in 0 .. WordMod - 1
    BY <1>1 DEF ProtocolInv, StationOK, StatsOK
  <2>3. /\ test_IP \in BOOLEAN /\ rate \in Rates /\ {vt, vr} \subseteq 0 .. SnMod - 1
        /\ phase \in DOMAIN NextCommand \union
             {"off", "request", "completing", "attached", "detachRequest"}
    BY <1>1 DEF ProtocolInv, PhoneOK, Phases
  <2>4. Len(up) <= MaxUp /\ Len(down) <= MaxDown /\ trouble \in 0 .. MaxTrouble
    BY <1>1 DEF ProtocolInv, UpOK, DownOK
  <2> QED BY <2>1, <2>2, <2>3, <2>4 DEF E2ETypeOK
<1> QED BY <1>1, InvariantHolds, PTL

\* DecodeInverts: mac_decode finds in every block the SDUs that the phone put
\* there, for blocks of every number and length of SDUs, behind a control
\* element or not.
THEOREM BlocksAlwaysDecode == Spec => []DecodeInverts
<1>1. ASSUME ProtocolInv PROVE DecodeInverts
  <2> SUFFICES ASSUME NEW i \in 1 .. Len(up) PROVE mac_decode(up[i].pdu) = up[i].sdus
    BY DEF DecodeInverts
  <2>1. up[i] \in Block(test_IP)
    BY <1>1, ElementOfSeq DEF ProtocolInv, UpOK
  <2> QED BY <2>1, BlockDecodes
<1> QED BY <1>1, InvariantHolds, PTL

\* WholeMessageIntact: a message all of whose fragments arrived, one after the
\* other, is delivered as it was sent, for buffers and messages of every size,
\* whatever was lost before and however channels and connections interleave.
THEOREM HeardIsDelivered == Spec => []WholeMessageIntact
<1>1. ASSUME ProtocolInv PROVE WholeMessageIntact
  BY <1>1 DEF ProtocolInv, Intact, WholeMessageIntact
<1> QED BY <1>1, InvariantHolds, PTL

\* MissCount: after each test packet that is counted, received and missing
\* packets add up to how far the stream has come, for every range of the
\* indices and width of the counters, as long as fewer packets were spoilt or
\* lost than the index can tell apart, and every packet fits in the buffer.
THEOREM MissesAreCounted ==
  ASSUME IndexMod > 2
  PROVE  Spec => [](trouble + 1 < IndexRange => MissCount)
<1>1. ASSUME CountInv PROVE trouble + 1 < IndexRange => MissCount
  BY <1>1 DEF CountInv, Reckoned, CountOK, MissCount
<1>2. ProtocolInv /\ CountInv /\ [Next]_vars => CountInv'
  BY CountPreserved
<1>3. Spec => []CountInv
  BY <1>2, CountingBegins, InvariantHolds, PTL DEF Spec
<1> QED BY <1>1, <1>3, PTL

\* NetworkPacketsWhole: a packet of the network goes on the air whole or not
\* at all, at every rate of the tables, for tables and packets of every size
\* and however the answers of the dialogue and of --test-IP come in between:
\* as long as a packet with its headers fits in MaxAnswer bytes, and the block
\* of an answer has room for the answers to a request and to a ping.
THEOREM PacketsGoWhole ==
  ASSUME RrcBlock >= 27, RatesInTables, \A n \in NetLengths : n + 6 <= MaxAnswer
  PROVE  Spec => []NetworkPacketsWhole
<1>1. ASSUME WholeInv PROVE NetworkPacketsWhole
  BY <1>1 DEF WholeInv, DownWhole, Fits, NetworkPacketsWhole
<1>2. ProtocolInv /\ WholeInv /\ [Next]_vars => WholeInv'
  BY WholePreserved
<1>3. Spec => []WholeInv
  BY <1>2, WholeBegins, InvariantHolds, PTL DEF Spec
<1> QED BY <1>1, <1>3, PTL

\* SnsInOrder: the messages of every block that is queued take their sequence
\* numbers one by one behind the counter of their channel, from 0 when the
\* block brings a set-up, and the counter ends behind the last: for every
\* number of messages, size of blocks and width of the numbers, and whatever
\* of a block is cut off.  (Only with every SDU heard is its end known.)
THEOREM NumbersInOrder == Spec => SnsInOrder
<1>1. ProtocolInv /\ OpeningInv /\ [Next]_vars => OpeningInv'
  BY OpeningPreserved
<1>2. ProtocolInv /\ OpeningInv /\ [Next]_vars =>
        [Len(down') > Len(down) =>
           BlockInOrder(down'[Len(down')], rlc_tx_sn, rlc_tx_sn')]_vars
  BY StepInOrder
<1>3. Spec => [][Len(down') > Len(down) =>
           BlockInOrder(down'[Len(down')], rlc_tx_sn, rlc_tx_sn')]_vars
  BY <1>1, <1>2, OpeningBegins, InvariantHolds, PTL DEF Spec
<1> QED BY <1>3 DEF SnsInOrder, BlockInOrder

=============================================================================
