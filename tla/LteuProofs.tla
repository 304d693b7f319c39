----------------------------- MODULE LteuProofs -----------------------------
(***************************************************************************)
(* The safety of both ends of LTE-U, for every configuration.              *)
(*                                                                         *)
(* The controller: no frame is cleared unmeasured, the on-time stays in    *)
(* its range and grows only when the medium was quiet, and no stretch of   *)
(* time is charged to Wi-Fi twice because a frame was not heard.  The      *)
(* medium use is a sum over the window, defined by recursion.  What is     *)
(* needed of its partial sums is proved by induction.                      *)
(*                                                                         *)
(* The base station: the duty cycle is right in every undisturbed cycle,   *)
(* for all intervals, on-times and numbers of CTS subframes, and for any   *)
(* number of datagrams.                                                    *)
(***************************************************************************)
EXTENDS Controller, LteuDutyCycle, NaturalFacts, SequenceTheorems

----------------------------------------------------------------------------
(* Sums. *)

\* The partial sums of natural numbers, one after the other.
PartialSums(sum, f, n) ==
  /\ sum \in [0 .. n -> Nat]
  /\ sum[0] = 0 /\ \A k \in 1 .. n : sum[k] = sum[k - 1] + f[k]

LEMMA SumUnfolds ==
  ASSUME NEW f, NEW n \in Nat, \A k \in 1 .. n : f[k] \in Nat
  PROVE  \E sum : PartialSums(sum, f, n) /\ sum[n] = Sum(f, n)
<1> DEFINE sum[k \in 0 .. n] == IF k = 0 THEN 0 ELSE sum[k - 1] + f[k]
           step == [k \in 1 .. n |-> [x \in Nat |-> x + f[k]]]
<1>1. Sum(f, n) = sum[n]
  BY DEF Sum
<1>2. PICK g : RecursiveUpto(g, n, 0, step)
  BY RecursionExists
<1>3. g \in [0 .. n -> Nat]
  <2>1. \A k \in 1 .. n : \A x \in Nat : step[k][x] \in Nat
    OBVIOUS
  <2> HIDE DEF step
  <2> QED BY <1>2, <2>1, RecursionStaysIn
<1>4. ASSUME NEW k \in 1 .. n PROVE g[k] = g[k - 1] + f[k]
  <2>1. k - 1 \in 0 .. n
    OBVIOUS
  <2>2. g[k - 1] \in Nat
    BY <1>3, <2>1
  <2>3. g[k] = step[k][g[k - 1]]
    <3> HIDE DEF step
    <3> QED BY <1>2 DEF RecursiveUpto
  <2> QED BY <2>2, <2>3
<1>5. g[0] = 0
  BY <1>2 DEF RecursiveUpto
<1>6. g = [k \in 0 .. n |-> IF k = 0 THEN 0 ELSE g[k - 1] + f[k]]
  <2> DEFINE h == [k \in 0 .. n |-> IF k = 0 THEN 0 ELSE g[k - 1] + f[k]]
  <2>1. ASSUME NEW k \in 0 .. n PROVE g[k] = h[k]
    BY <1>4, <1>5
  <2>2. g = [k \in 0 .. n |-> g[k]] /\ h = [k \in 0 .. n |-> h[k]]
    BY <1>3
  <2> HIDE DEF h
  <2>3. g = h
    BY <2>1, <2>2
  <2> QED BY <2>3 DEF h
<1>7. sum = [k \in 0 .. n |-> IF k = 0 THEN 0 ELSE sum[k - 1] + f[k]]
  BY <1>6
<1> HIDE DEF sum, step
<1> DEFINE P == {m \in 0 .. n : sum[m] = g[m]}
<1>8. 0 \in P
  BY <1>5, <1>7
<1>9. ASSUME NEW k \in 1 .. n, k - 1 \in P PROVE k \in P
  BY <1>4, <1>7, <1>9
<1>10. sum[n] = g[n]
  <2> HIDE DEF P
  <2>1. 0 .. n \subseteq P
    BY <1>8, <1>9, IntervalInduction
  <2> QED BY <2>1 DEF P
<1> QED BY <1>1, <1>3, <1>4, <1>5, <1>10 DEF PartialSums

\* A sum of natural numbers is a natural number.
LEMMA SumIsNat ==
  ASSUME NEW f, NEW n \in Nat, \A k \in 1 .. n : f[k] \in Nat
  PROVE  Sum(f, n) \in Nat
<1>1. PICK sum : PartialSums(sum, f, n) /\ sum[n] = Sum(f, n)
  BY SumUnfolds
<1> QED BY <1>1 DEF PartialSums

----------------------------------------------------------------------------
(* The medium use. *)

\* What a packet has to satisfy for its airtime to be a number.
Timed(p) == {p.len, p.rate, p.preamble} \subseteq Nat

LEMMA ParsedIsTimed ==
  ASSUME NEW f \in Frames, NEW t
  PROVE  Timed([parsePacket(f) EXCEPT !.time = t])
<1>1. f.len \in Nat /\ f.rate \in Nat /\ f.behind \in Nat /\ f.long \in BOOLEAN
  BY FramesAssumption
<1>2. kPreamble \in Nat /\ 2 * kPreamble \in Nat
  BY MediumUseAssumption
<1>3. RateOf(f) \in Nat
  BY <1>1 DEF RateOf
<1> QED BY <1>1, <1>2, <1>3 DEF Timed, parsePacket, Blank

\* The time of capture is a field of every packet.
LEMMA TimeIsSet ==
  ASSUME NEW f, NEW t
  PROVE  [parsePacket(f) EXCEPT !.time = t].time = t
<1>1. CASE f.len <= f.hlen + 4
  BY <1>1 DEF parsePacket, Blank
<1>2. CASE ~ (f.len <= f.hlen + 4)
  BY <1>2 DEF parsePacket, Blank
<1> QED BY <1>1, <1>2

LEMMA QuotientIsNat ==
  ASSUME NEW a \in Nat, NEW b \in Nat \ {0}
  PROVE  a \div b \in Nat
OBVIOUS

LEMMA HeardTimeIsNat ==
  ASSUME NEW w, Len(w) \in Nat, NEW span,
         \A i \in 1 .. Len(w) : Timed(w[i]) /\ w[i].rate # 0
  PROVE  HeardTime(w, span) \in Nat
<1> DEFINE f == [i \in 1 .. Len(w) |->
                   Airtime(w[i]) - (IF Duplicate(w, i, span) THEN w[i].preamble ELSE 0)]
<1>1. ASSUME NEW i \in 1 .. Len(w) PROVE f[i] \in Nat
  <2>1. /\ w[i].len \in Nat /\ w[i].rate \in Nat \ {0} /\ w[i].preamble \in Nat
        /\ 8 * w[i].len \in Nat
    BY DEF Timed
  <2>2. (8 * w[i].len) \div w[i].rate \in Nat
    BY <2>1, QuotientIsNat
  <2> QED BY <2>1, <2>2 DEF Airtime
<1> HIDE DEF f
<1>2. Sum(f, Len(w)) \in Nat
  BY <1>1, SumIsNat
<1> QED BY <1>2 DEF HeardTime, f

LEMMA UseIsNat ==
  ASSUME NEW w, Len(w) \in Nat, \A i \in 1 .. Len(w) : Timed(w[i]),
         NEW total \in Nat \ {0}
  PROVE  groundtruthMU(w, total) \in Nat
<1>1. CASE Spoilt(w)
  BY <1>1, MediumUseAssumption DEF groundtruthMU
<1>2. CASE ~ Spoilt(w)
  <2>1. HeardTime(w, DupWindow) \in Nat
    BY <1>2, HeardTimeIsNat DEF Spoilt
  <2>2. Scale * HeardTime(w, DupWindow) \in Nat
    BY <2>1, MediumUseAssumption
  <2> QED BY <1>2, <2>2, QuotientIsNat DEF groundtruthMU
<1> QED BY <1>1, <1>2

----------------------------------------------------------------------------
(* The time charged for frames that were not heard. *)

\* A window whose packets came one after the other.
Consecutive(w) ==
  /\ Len(w) \in Nat
  /\ \A i \in 1 .. Len(w) : w[i].time \in Nat /\ w[i].duration \in Nat
  /\ \A i \in 1 .. Len(w) - 1 : w[i].time < w[i + 1].time

\* Then the gaps are those between neighbours.
LEMMA GapAfterIs ==
  ASSUME NEW w, Consecutive(w), NEW i \in 1 .. Len(w)
  PROVE  GapAfter(w, i) = IF i < Len(w) THEN w[i + 1].time - w[i].time ELSE 0
<1> DEFINE later == {j \in i + 1 .. Len(w) : Apart(w, i, j) # 0}
<1>1. CASE i < Len(w)
  <2>1. i + 1 \in i + 1 .. Len(w) /\ i \in 1 .. Len(w) - 1
    BY <1>1 DEF Consecutive
  <2>2. Apart(w, i, i + 1) = w[i + 1].time - w[i].time /\ Apart(w, i, i + 1) # 0
    BY <2>1 DEF Apart, Consecutive
  <2>3. i + 1 \in later /\ \A k \in later : k \in Int /\ i + 1 <= k
    BY <2>1, <2>2
  <2> HIDE DEF later
  <2>4. (CHOOSE j \in later : \A k \in later : j <= k) = i + 1
    BY <2>3
  <2>5. later # {}
    BY <2>3
  <2> QED BY <1>1, <2>2, <2>4, <2>5 DEF GapAfter, later
<1>2. CASE ~ (i < Len(w))
  <2>1. later = {}
    BY <1>2 DEF Consecutive
  <2> QED BY <1>2, <2>1 DEF GapAfter
<1> QED BY <1>1, <1>2

LEMMA GapBeforeIs ==
  ASSUME NEW w, Consecutive(w), NEW i \in 1 .. Len(w)
  PROVE  GapBefore(w, i) = IF i > 1 THEN w[i].time - w[i - 1].time ELSE 0
<1> DEFINE earlier == {j \in 1 .. i - 1 : Apart(w, i, j) # 0}
<1>1. CASE i > 1
  <2>1. i - 1 \in 1 .. i - 1 /\ i - 1 \in 1 .. Len(w) - 1 /\ (i - 1) + 1 = i
    BY <1>1 DEF Consecutive
  <2>2. w[i - 1].time < w[i].time /\ w[i - 1].time \in Nat /\ w[i].time \in Nat
    BY <2>1 DEF Consecutive
  <2>3. Apart(w, i, i - 1) = w[i].time - w[i - 1].time /\ Apart(w, i, i - 1) # 0
    BY <2>2 DEF Apart
  <2>4. i - 1 \in earlier /\ \A k \in earlier : k \in Int /\ i - 1 >= k
    BY <2>1, <2>3
  <2> HIDE DEF earlier
  <2>5. (CHOOSE j \in earlier : \A k \in earlier : j >= k) = i - 1
    BY <2>4
  <2>6. earlier # {}
    BY <2>4
  <2> QED BY <1>1, <2>3, <2>5, <2>6 DEF GapBefore, earlier
<1>2. CASE ~ (i > 1)
  <2>1. earlier = {}
    BY <1>2
  <2> QED BY <1>2, <2>1 DEF GapBefore
<1> QED BY <1>1, <1>2

\* The gap that is charged to the packet before it.
Ahead(w, i) ==
  IF w[i].type = "CTS" /\ ~ Explained(w, i) THEN GapAfter(w, i) ELSE 0

\* No packet is charged more than a gap next to it, and a gap that was
\* charged to a CTS is not charged to the ACK behind it.
LEMMA HiddenIs ==
  ASSUME NEW w, Consecutive(w), NEW i \in 1 .. Len(w)
  PROVE  /\ Hidden(w, i) \in Nat
         /\ w[i].type = "CTS" => Hidden(w, i) <= Ahead(w, i)
         /\ w[i].type # "CTS" => Hidden(w, i) <= GapBefore(w, i)
         /\ w[i].type # "CTS" /\ i > 1 /\ SameStation(w) /\ Close(w)
              /\ w[i - 1].type = "CTS" => Hidden(w, i) = 0
<1>1. GapAfter(w, i) \in Nat /\ GapBefore(w, i) \in Nat
  <2>1. i < Len(w) => w[i + 1].time - w[i].time \in Nat
    BY DEF Consecutive
  <2>2. i > 1 => w[i].time - w[i - 1].time \in Nat
    <3> SUFFICES ASSUME i > 1 PROVE w[i].time - w[i - 1].time \in Nat
      OBVIOUS
    <3>1. i - 1 \in 1 .. Len(w) - 1 /\ (i - 1) + 1 = i /\ i - 1 \in 1 .. Len(w)
      BY DEF Consecutive
    <3> QED BY <3>1 DEF Consecutive
  <2> QED BY <2>1, <2>2, GapAfterIs, GapBeforeIs
<1>2. w[i].duration \in Nat /\ MaxHidden \in Nat
  BY MediumUseAssumption DEF Consecutive
<1>3. CASE w[i].type = "CTS" /\ ~ Explained(w, i)
  BY <1>1, <1>2, <1>3 DEF Hidden, Ahead, Lesser
<1>4. CASE w[i].type \in {"ACK", "BLOCKACK"} /\ ~ Explained(w, i)
  <2>1. Hidden(w, i) = Lesser(MaxHidden, GapBefore(w, i))
    BY <1>4 DEF Hidden
  <2>2. Hidden(w, i) \in Nat /\ Hidden(w, i) <= GapBefore(w, i)
    BY <1>1, <1>2, <2>1 DEF Lesser
  <2>3. ASSUME i > 1, SameStation(w), Close(w), w[i - 1].type = "CTS" PROVE FALSE
    <3>1. /\ i - 1 \in 1 .. Len(w) /\ i - 1 \in 1 .. Len(w) - 1 /\ (i - 1) + 1 = i
          /\ i - 1 \in 1 .. i - 1 /\ ~ (i < i - 1) /\ i - 1 < i
      BY <2>3 DEF Consecutive
    <3>2. {w[i - 1].type, w[i].type} \subseteq {"CTS", "ACK", "BLOCKACK"}
      BY <1>4, <2>3
    <3>3. w[i - 1].rmac = w[i].rmac
      BY <2>3, <3>1, <3>2 DEF SameStation
    <3>4. Apart(w, i - 1, i) <= DataWindow
      BY <2>3, <3>1 DEF Close
    <3>5. Apart(w, i, i - 1) <= DataWindow
      BY <3>1, <3>4 DEF Apart
    <3>6. w[i].type # "CTS"
      BY <1>4
    <3>7. Explained(w, i)
      BY <2>3, <3>1, <3>3, <3>5, <3>6, Zenon DEF Explained
    <3> QED BY <1>4, <3>7
  <2> QED BY <1>4, <2>2, <2>3
<1>5. CASE ~ (w[i].type = "CTS" /\ ~ Explained(w, i))
           /\ ~ (w[i].type \in {"ACK", "BLOCKACK"} /\ ~ Explained(w, i))
  <2>1. Hidden(w, i) = 0
    BY <1>5 DEF Hidden
  <2> QED BY <1>1, <1>5, <2>1 DEF Ahead
<1> QED BY <1>3, <1>4, <1>5

\* Up to any packet, the charges fit in the time passed and the gap behind.
LEMMA HiddenTimeBound ==
  ASSUME NEW w, Consecutive(w), Len(w) > 0, SameStation(w), Close(w)
  PROVE  HiddenTime(w) <= Apart(w, 1, Len(w))
<1> DEFINE n == Len(w)
           f == [i \in 1 .. n |-> Hidden(w, i)]
           t(i) == w[i].time
<1>1. n \in Nat \ {0} /\ \A i \in 1 .. n : t(i) \in Nat
  BY DEF Consecutive
<1>2. \A i \in 1 .. n : f[i] \in Nat
  BY HiddenIs
<1>3. PICK sum : PartialSums(sum, f, n) /\ sum[n] = Sum(f, n)
  <2> HIDE DEF f, n
  <2> QED BY <1>1, <1>2, SumUnfolds
<1>4. HiddenTime(w) = sum[n]
  BY <1>3 DEF HiddenTime
<1>5. ASSUME NEW i \in 1 .. n
      PROVE  /\ Ahead(w, i) \in Nat
             /\ Ahead(w, i) <= IF i < n THEN t(i + 1) - t(i) ELSE 0
             /\ w[i].type # "CTS" => Ahead(w, i) = 0
  <2>1. GapAfter(w, i) = IF i < n THEN t(i + 1) - t(i) ELSE 0
    BY GapAfterIs
  <2>2. i < n => t(i + 1) - t(i) \in Nat
    BY DEF Consecutive
  <2> HIDE DEF n, t
  <2>3. GapAfter(w, i) \in Nat
    BY <2>1, <2>2
  <2> QED BY <2>1, <2>3 DEF Ahead
<1> DEFINE P == {k \in 0 .. n : k > 0 => sum[k] <= t(k) - t(1) + Ahead(w, k)}
<1>6. 0 \in P
  BY <1>1
<1>7. ASSUME NEW k \in 1 .. n, k - 1 \in P PROVE k \in P
  <2>1. sum[k] = sum[k - 1] + f[k] /\ sum[k - 1] \in Nat /\ sum[k] \in Nat /\ sum[0] = 0
    <3>1. k - 1 \in 0 .. n /\ k \in 0 .. n
      BY <1>1
    <3> HIDE DEF f, n
    <3> QED BY <1>3, <3>1 DEF PartialSums
  <2>2. f[k] = Hidden(w, k) /\ f[k] \in Nat
    BY <1>2
  <2>3. /\ w[k].type = "CTS" => f[k] <= Ahead(w, k)
        /\ w[k].type # "CTS" => f[k] <= GapBefore(w, k)
        /\ w[k].type # "CTS" /\ k > 1 /\ w[k - 1].type = "CTS" => f[k] = 0
    BY <2>2, HiddenIs
  <2>4. GapBefore(w, k) = IF k > 1 THEN t(k) - t(k - 1) ELSE 0
    BY GapBeforeIs
  <2>5. Ahead(w, k) \in Nat /\ t(k) \in Nat /\ t(1) \in Nat
    BY <1>1, <1>5
  <2> HIDE DEF f
  <2>6. CASE k = 1
    <3>1. sum[k] = f[k]
      BY <2>1, <2>2, <2>6
    <3>2. f[k] <= Ahead(w, k)
      BY <2>2, <2>3, <2>4, <2>5, <2>6
    <3> HIDE DEF t, n
    <3> QED BY <2>2, <2>5, <2>6, <3>1, <3>2
  <2>7. CASE k > 1
    <3>1. k - 1 \in 1 .. n /\ k - 1 < n /\ (k - 1) + 1 = k
      BY <1>1, <2>7
    <3>2. /\ Ahead(w, k - 1) \in Nat /\ Ahead(w, k - 1) <= t(k) - t(k - 1)
          /\ w[k - 1].type # "CTS" => Ahead(w, k - 1) = 0
          /\ t(k - 1) \in Nat
      <4> HIDE DEF t, n
      <4> QED BY <1>1, <1>5, <3>1
    <3>3. sum[k - 1] <= t(k - 1) - t(1) + Ahead(w, k - 1)
      BY <1>7, <3>1
    <3>4. sum[k] <= t(k) - t(1) + Ahead(w, k)
      <4>1. CASE w[k].type = "CTS"
        <5> HIDE DEF t, n
        <5> QED BY <2>1, <2>2, <2>3, <2>5, <3>2, <3>3, <4>1, SMTT(30)
      <4>2. CASE w[k].type # "CTS" /\ w[k - 1].type = "CTS"
        <5> HIDE DEF t, n
        <5> QED BY <2>1, <2>2, <2>3, <2>5, <2>7, <3>2, <3>3, <4>2
      <4>3. CASE w[k].type # "CTS" /\ w[k - 1].type # "CTS"
        <5> HIDE DEF t, n
        <5> QED BY <2>1, <2>2, <2>3, <2>4, <2>5, <2>7, <3>2, <3>3, <4>3
      <4> QED BY <4>1, <4>2, <4>3
    <3> QED BY <3>4
  <2> QED BY <1>1, <2>6, <2>7
<1>8. n \in P
  <2>1. 0 .. n \subseteq P
    <3> HIDE DEF P, n
    <3> QED BY <1>1, <1>6, <1>7, IntervalInduction
  <2> QED BY <1>1, <2>1
<1>9. sum[n] <= t(n) - t(1) /\ n \in 1 .. n /\ Ahead(w, n) = 0
  <2>1. n \in 1 .. n /\ ~ (n < n)
    BY <1>1
  <2>2. Ahead(w, n) = 0
    <3>1. Ahead(w, n) \in Nat /\ Ahead(w, n) <= 0
      <4> HIDE DEF n, t
      <4> QED BY <1>5, <2>1
    <3> QED BY <3>1
  <2> QED BY <1>1, <1>8, <2>1, <2>2
<1>10. Apart(w, 1, n) = t(n) - t(1)
  BY <1>1 DEF Apart
<1> QED BY <1>4, <1>9, <1>10

----------------------------------------------------------------------------
(* getOnCycle. *)

\* There is room between the bounds of the on-time.
LEMMA Bounds ==
  /\ calculateMin \in Nat /\ t_on_max_ \in Nat /\ interval \in Nat
  /\ calculateMin <= t_on_max_ /\ t_on_max_ < interval
BY CsatAssumption DEF calculateMin, Larger

\* The smoothed use is below a threshold only if one of its parts is.
LEMMA SmoothedBelow ==
  ASSUME NEW m \in Nat, NEW lastmu \in Int, lastmu >= -1
  PROVE  /\ Smoothed(m, lastmu) \in Nat
         /\ Smoothed(m, lastmu) < mu_thr1_ => m < mu_thr1_ \/ lastmu \in 0 .. mu_thr1_ - 1
<1>1. Inf \in Nat /\ mu_thr1_ \in Nat /\ mu_thr1_ < Inf
  BY MediumUseAssumption, CsatAssumption
<1>2. CASE lastmu < 0
  BY <1>1, <1>2 DEF Smoothed
<1>3. CASE lastmu >= 0 /\ (m = Inf \/ lastmu = Inf)
  BY <1>1, <1>3 DEF Smoothed
<1>4. CASE lastmu >= 0 /\ m # Inf /\ lastmu # Inf
  BY <1>1, <1>4 DEF Smoothed
<1> QED BY <1>2, <1>3, <1>4

\* The next on-time is in the range again, and longer only on quiet air.
LEMMA NextOnTime ==
  ASSUME NEW m \in Nat, NEW l \in [mu : Int, on : Int], l.mu >= -1,
         l.on \in calculateMin .. t_on_max_
  PROVE  /\ getOnCycle(m, l).on \in calculateMin .. t_on_max_
         /\ getOnCycle(m, l).mu \in Nat
         /\ getOnCycle(m, l) \in [mu : Int, on : Int]
         /\ getOnCycle(m, l).on > l.on => m < mu_thr1_ \/ l.mu \in 0 .. mu_thr1_ - 1
<1>1. l.mu \in Int
  OBVIOUS
<1>2. /\ Smoothed(m, l.mu) \in Nat
      /\ Smoothed(m, l.mu) < mu_thr1_ => m < mu_thr1_ \/ l.mu \in 0 .. mu_thr1_ - 1
  BY <1>1, SmoothedBelow
<1> DEFINE s == Smoothed(m, l.mu)
           on == CASE s < mu_thr1_ -> Lesser(l.on + 1, t_on_max_)
                   [] s \in mu_thr1_ .. mu_thr2_ -> l.on
                   [] OTHER -> Larger(l.on - 1, calculateMin)
<1>3. getOnCycle(m, l) = [mu |-> s, on |-> on]
  BY DEF getOnCycle
<1> HIDE DEF s
<1>4. on \in calculateMin .. t_on_max_ /\ (on > l.on => s < mu_thr1_)
  BY <1>2, Bounds, CsatAssumption DEF Lesser, Larger, s
<1> HIDE DEF on
<1> QED BY <1>2, <1>3, <1>4, Bounds DEF s

----------------------------------------------------------------------------
(***************************************************************************)
(* The inductive invariant.  The window holds parsed packets, so its use   *)
(* is a number, in the order of their capture; the lock is held by the     *)
(* thread that is between taking and leaving it, so the window does not    *)
(* change between the two halves of the scheduler's turn.                  *)
(***************************************************************************)
Captured == {[parsePacket(f) EXCEPT !.time = t] : f \in Frames, t \in Nat}

SnifferStates ==
  {"opening", "capturing", "locking", "inserting", "closing", "ended", "exited"}
SchedulerStates ==
  {"sleeping", "measuring", "clearing", "deciding", "sending", "leaving", "ended", "exited"}

\* Every node is recorded under its own address.
NodesOK(nodes) ==
  \A m \in DOMAIN nodes :
    nodes[m] = [mac |-> m, type |-> nodes[m].type, ap |-> nodes[m].ap]

Measured ==
  /\ packets_ \in Seq(Captured)
  /\ sniffer \in {"locking", "inserting"} => \E f \in Frames : pkt = parsePacket(f)
  /\ gmu \in Nat
  /\ last \in [mu : Int, on : Int]

Locked ==
  /\ sniffer \in SnifferStates /\ scheduler \in SchedulerStates
  /\ spinlock \in {"free", "sniffer", "scheduler"}
  /\ NodesOK(nodes_)

Windows ==
  /\ Consecutive(packets_)
  /\ window \in Seq(Captured) /\ Consecutive(window)

ControllerInv == ControllerTypeOK /\ MeasuredWhole /\ Measured /\ Locked /\ Windows

LEMMA CapturedTime ==
  ASSUME NEW p \in Captured
  PROVE  p.time \in Nat /\ p.duration \in Nat
<1>1. PICK f \in Frames, t \in Nat : p = [parsePacket(f) EXCEPT !.time = t]
  BY DEF Captured
<1>2. parsePacket(f).duration \in Nat
  <2>1. f.duration \in Nat
    BY FramesAssumption
  <2> QED BY <2>1 DEF parsePacket, Blank
<1>3. p.duration = parsePacket(f).duration
  BY <1>1
<1> QED BY <1>1, <1>2, <1>3, TimeIsSet

LEMMA NoneConsecutive == Consecutive(<< >>)
BY DEF Consecutive

LEMMA AppendConsecutive ==
  ASSUME NEW w \in Seq(Captured), Consecutive(w), NEW p \in Captured,
         w # << >> => w[Len(w)].time < p.time
  PROVE  Consecutive(Append(w, p))
<1> DEFINE v == Append(w, p)
<1>1. /\ Len(w) \in Nat /\ Len(v) = Len(w) + 1 /\ v[Len(w) + 1] = p
      /\ \A i \in 1 .. Len(w) : v[i] = w[i]
  OBVIOUS
<1>2. p.time \in Nat /\ p.duration \in Nat
  BY CapturedTime
<1> HIDE DEF v
<1>3. ASSUME NEW i \in 1 .. Len(v) PROVE v[i].time \in Nat /\ v[i].duration \in Nat
  <2>1. CASE i = Len(w) + 1
    BY <1>1, <1>2, <2>1
  <2>2. CASE i # Len(w) + 1
    <3>1. i \in 1 .. Len(w)
      BY <1>1, <2>2
    <3> QED BY <1>1, <3>1 DEF Consecutive
  <2> QED BY <2>1, <2>2
<1>4. ASSUME NEW i \in 1 .. Len(v) - 1 PROVE v[i].time < v[i + 1].time
  <2>1. CASE i = Len(w)
    <3>1. w # << >> /\ v[i] = w[i] /\ v[i + 1] = p
      BY <1>1, <1>4, <2>1
    <3> QED BY <2>1, <3>1
  <2>2. CASE i # Len(w)
    <3>1. i \in 1 .. Len(w) - 1 /\ i \in 1 .. Len(w) /\ i + 1 \in 1 .. Len(w)
      BY <1>1, <1>4, <2>2
    <3>2. v[i] = w[i] /\ v[i + 1] = w[i + 1]
      BY <1>1, <3>1
    <3> QED BY <3>1, <3>2 DEF Consecutive
  <2> QED BY <2>1, <2>2
<1> QED BY <1>1, <1>3, <1>4 DEF Consecutive, v

----------------------------------------------------------------------------
(* The nodes. *)

LEMMA KnownKeeps ==
  ASSUME NEW nodes, NodesOK(nodes), NEW mac
  PROVE  NodesOK(Known(nodes, mac)) /\ mac \in DOMAIN Known(nodes, mac)
         /\ DOMAIN nodes \subseteq DOMAIN Known(nodes, mac)
BY DEF NodesOK, Known

LEMMA SetTypeKeeps ==
  ASSUME NEW nodes, NodesOK(nodes), NEW m \in DOMAIN nodes, NEW type
  PROVE  /\ NodesOK([nodes EXCEPT ![m].type = type])
         /\ DOMAIN [nodes EXCEPT ![m].type = type] = DOMAIN nodes
BY DEF NodesOK

LEMMA SetApKeeps ==
  ASSUME NEW nodes, NodesOK(nodes), NEW m \in DOMAIN nodes, NEW ap
  PROVE  NodesOK([nodes EXCEPT ![m].ap = ap])
BY DEF NodesOK

LEMMA ClassifyKeeps ==
  ASSUME NEW nodes, NodesOK(nodes), NEW p,
         p.tmac \in DOMAIN nodes, p.rmac \in DOMAIN nodes
  PROVE  /\ NodesOK(classifyNodeType(nodes, p))
         /\ DOMAIN classifyNodeType(nodes, p) = DOMAIN nodes
<1> DEFINE set(mac, type) == [nodes EXCEPT ![mac].type = type]
<1>1. ASSUME NEW mac \in DOMAIN nodes, NEW type
      PROVE  NodesOK(set(mac, type)) /\ DOMAIN set(mac, type) = DOMAIN nodes
  BY SetTypeKeeps
<1>2. /\ NodesOK([set(p.tmac, "AP") EXCEPT ![p.rmac].type = "STA"])
      /\ DOMAIN [set(p.tmac, "AP") EXCEPT ![p.rmac].type = "STA"] = DOMAIN nodes
  <2> HIDE DEF set
  <2> QED BY <1>1, SetTypeKeeps
<1>3. \/ classifyNodeType(nodes, p) = nodes
      \/ classifyNodeType(nodes, p) = set(p.tmac, "AP")
      \/ classifyNodeType(nodes, p) = set(p.tmac, "STA")
      \/ classifyNodeType(nodes, p) = set(p.rmac, "STA")
      \/ classifyNodeType(nodes, p) = [set(p.tmac, "AP") EXCEPT ![p.rmac].type = "STA"]
  BY Zenon DEF classifyNodeType
<1> HIDE DEF set
<1> QED BY <1>1, <1>2, <1>3

LEMMA AttachKeeps ==
  ASSUME NEW nodes, NodesOK(nodes), NEW p,
         p.tmac \in DOMAIN nodes, p.rmac \in DOMAIN nodes
  PROVE  NodesOK(Attached(nodes, p))
BY SetApKeeps DEF Attached

----------------------------------------------------------------------------
(* The steps. *)

LEMMA ControllerInit == Init => ControllerInv
<1> SUFFICES ASSUME Init PROVE ControllerInv
  OBVIOUS
<1>1. DOMAIN nodes_ = {} /\ packets_ \in Seq(Captured)
  BY DEF Init
<1>2. ontime \in calculateMin .. t_on_max_
  BY ControllerAssumption DEF Init
<1>3. ControllerTypeOK
  <2>1. sentOntime = -1 /\ last.on = -1 /\ last.mu = -1
    BY DEF Init
  <2>2. sentOntime \in {-1} \union calculateMin .. t_on_max_
    BY <2>1
  <2>3. last.on \in {-1, ontime} /\ last.mu >= -1
    BY <2>1
  <2>4. /\ runtime \in BOOLEAN /\ broken \in BOOLEAN
        /\ handle_ \in {"none", "open", "closed"}
    BY DEF Init
  <2>5. sniffer # "inserting" /\ spinlock # "sniffer"
    BY DEF Init
  <2>6. (sniffer = "inserting") = (spinlock = "sniffer")
    BY <2>5
  <2>7. scheduler \notin {"measuring", "clearing"} /\ spinlock # "scheduler"
    BY DEF Init
  <2>8. (scheduler \in {"measuring", "clearing"}) = (spinlock = "scheduler")
    BY <2>7
  <2>9. \A m \in DOMAIN nodes_ : nodes_[m].mac = m
    BY <1>1
  <2> QED BY <1>2, <2>2, <2>3, <2>4, <2>6, <2>8, <2>9 DEF ControllerTypeOK
<1> QED
  BY <1>1, <1>3, NoneConsecutive
  DEF Init, ControllerInv, MeasuredWhole, Measured, Locked, NodesOK, Windows,
      SnifferStates, SchedulerStates

\* The window with one more packet, and what is known of the stations.
LEMMA InsertKeeps == ControllerInv /\ Insert => ControllerInv'
<1> SUFFICES ASSUME ControllerInv, Insert PROVE ControllerInv'
  OBVIOUS
<1>1. /\ sniffer = "inserting" /\ insertPacket(pkt)
      /\ sniffer' = "capturing" /\ spinlock' = "free"
      /\ UNCHANGED <<handle_, broken, scheduler, measureVars, last, ontime, runtime, sentOntime>>
  BY DEF Insert
<1>2. spinlock = "sniffer"
  BY <1>1 DEF ControllerInv, ControllerTypeOK
<1>3. PICK f \in Frames : pkt = parsePacket(f)
  BY <1>1 DEF ControllerInv, Measured
<1>4. packets_' \in Seq(Captured) /\ Consecutive(packets_')
  <2>1. packets_ \in Seq(Captured) /\ Consecutive(packets_)
    BY DEF ControllerInv, Measured, Windows
  <2>2. PICK gap \in Gaps :
          packets_' = Append(packets_, [pkt EXCEPT !.time =
             IF packets_ = <<>> THEN 0 ELSE packets_[Len(packets_)].time + gap])
    BY <1>1 DEF insertPacket
  <2>3. CASE packets_ = <<>>
    <3>1. [pkt EXCEPT !.time = 0] \in Captured
      BY <1>3 DEF Captured
    <3>2. packets_' = Append(packets_, [pkt EXCEPT !.time = 0])
      BY <2>2, <2>3
    <3> DEFINE p == [pkt EXCEPT !.time = 0]
    <3> HIDE DEF p
    <3>3. p \in Captured /\ packets_' = Append(packets_, p)
      BY <3>1, <3>2 DEF p
    <3>4. packets_ # << >> => packets_[Len(packets_)].time < p.time
      BY <2>3
    <3>5. Consecutive(Append(packets_, p))
      BY <2>1, <3>3, <3>4, AppendConsecutive, Zenon
    <3>6. Append(packets_, p) \in Seq(Captured)
      BY <2>1, <3>3
    <3> QED BY <3>3, <3>5, <3>6
  <2>4. CASE packets_ # <<>>
    <3>1. packets_[Len(packets_)] \in Captured
      BY <2>1, <2>4
    <3>2. packets_[Len(packets_)].time \in Nat
      BY <3>1, CapturedTime
    <3> DEFINE now == packets_[Len(packets_)].time + gap
    <3>3. now \in Nat /\ packets_[Len(packets_)].time < now
      BY <3>2, ControllerAssumption
    <3> HIDE DEF now
    <3>4. [pkt EXCEPT !.time = now] \in Captured /\ [pkt EXCEPT !.time = now].time = now
      BY <1>3, <3>3, TimeIsSet DEF Captured
    <3>5. packets_' = Append(packets_, [pkt EXCEPT !.time = now])
      BY <2>2, <2>4 DEF now
    <3> DEFINE p == [pkt EXCEPT !.time = now]
    <3> HIDE DEF p
    <3>6. p \in Captured /\ packets_' = Append(packets_, p)
          /\ packets_[Len(packets_)].time < p.time
      BY <3>3, <3>4, <3>5 DEF p
    <3>7. Append(packets_, p) \in Seq(Captured) /\ Consecutive(Append(packets_, p))
      BY <2>1, <3>6, AppendConsecutive
    <3> QED BY <3>6, <3>7
  <2> QED BY <2>3, <2>4
<1>5. NodesOK(nodes_')
  <2> DEFINE n1 == Known(nodes_, pkt.tmac)
             n2 == Known(n1, pkt.rmac)
             n3 == classifyNodeType(n2, pkt)
  <2>1. NodesOK(nodes_)
    BY DEF ControllerInv, Locked
  <2>2. NodesOK(n1) /\ pkt.tmac \in DOMAIN n1
    BY <2>1, KnownKeeps
  <2> HIDE DEF n1
  <2>3. NodesOK(n2) /\ pkt.tmac \in DOMAIN n2 /\ pkt.rmac \in DOMAIN n2
    BY <2>2, KnownKeeps
  <2> HIDE DEF n2
  <2>4. NodesOK(n3) /\ DOMAIN n3 = DOMAIN n2
    BY <2>3, ClassifyKeeps
  <2> HIDE DEF n3
  <2>5. NodesOK(Attached(n3, pkt))
    BY <2>3, <2>4, AttachKeeps
  <2> QED BY <1>1, <2>5 DEF insertPacket, n1, n2, n3
<1>6. ControllerTypeOK'
  BY <1>1, <1>2, <1>5 DEF ControllerInv, ControllerTypeOK, NodesOK, measureVars
<1>7. MeasuredWhole'
  BY <1>1, <1>2 DEF ControllerInv, ControllerTypeOK, MeasuredWhole
<1> QED
  BY <1>1, <1>4, <1>5, <1>6, <1>7
  DEF ControllerInv, Measured, Locked, Windows, SnifferStates, measureVars

LEMMA SnifferKeeps ==
  ControllerInv /\ (Open \/ Exit \/ Capture \/ SnifferLocks \/ LeaveLoop \/ SnifferEnds)
    => ControllerInv'
<1> SUFFICES ASSUME ControllerInv,
                    Open \/ Exit \/ Capture \/ SnifferLocks \/ LeaveLoop \/ SnifferEnds
             PROVE  ControllerInv'
  OBVIOUS
<1> USE DEF ControllerInv, ControllerTypeOK, MeasuredWhole, Measured, Locked, NodesOK,
        Windows, SnifferStates, SchedulerStates, measureVars
<1>1. CASE Open
  BY <1>1 DEF Open
<1>2. CASE Exit
  BY <1>2 DEF Exit
<1>3. CASE Capture
  BY <1>3 DEF Capture
<1>4. CASE SnifferLocks
  BY <1>4 DEF SnifferLocks
<1>5. CASE LeaveLoop
  BY <1>5 DEF LeaveLoop
<1>6. CASE SnifferEnds
  BY <1>6 DEF SnifferEnds
<1> QED BY <1>1, <1>2, <1>3, <1>4, <1>5, <1>6

\* The window is measured, and its use is a number.
LEMMA MeasureKeeps == ControllerInv /\ Measure => ControllerInv'
<1> SUFFICES ASSUME ControllerInv, Measure PROVE ControllerInv'
  OBVIOUS
<1>1. gmu' \in Nat
  <2>1. packets_ \in Seq(Captured)
    BY DEF ControllerInv, Measured
  <2>2. Len(packets_) \in Nat /\ \A i \in 1 .. Len(packets_) : packets_[i] \in Captured
    BY <2>1
  <2>3. \A p \in Captured : Timed(p)
    BY ParsedIsTimed DEF Captured
  <2>4. PerMs * (interval - ontime) \in Nat \ {0}
    <3>1. interval - ontime \in Nat \ {0} /\ PerMs \in Nat \ {0}
      BY Bounds, ControllerAssumption DEF ControllerInv, ControllerTypeOK
    <3> HIDE DEF ControllerInv
    <3> QED BY <3>1
  <2> QED BY <2>2, <2>3, <2>4, UseIsNat DEF Measure
<1> QED
  BY <1>1 DEF Measure, ControllerInv, ControllerTypeOK, MeasuredWhole, Measured, Locked,
              Windows, SchedulerStates, snifferVars

\* The next on-time is chosen.
LEMMA DecideKeeps ==
  ASSUME ControllerInv, Decide
  PROVE  /\ ControllerInv'
         /\ ontime' > ontime => gmu < mu_thr1_ \/ last.mu \in 0 .. mu_thr1_ - 1
<1> DEFINE before == IF last.on < 0 THEN ontime ELSE last.on
           l == [last EXCEPT !.on = before]
<1>1. /\ gmu \in Nat /\ last \in [mu : Int, on : Int] /\ last.mu >= -1
      /\ ontime \in calculateMin .. t_on_max_ /\ last.on \in {-1, ontime}
  BY DEF ControllerInv, ControllerTypeOK, Measured
<1>2. before = ontime
  BY <1>1, Bounds
<1>3. l \in [mu : Int, on : Int] /\ l.mu = last.mu /\ l.on = ontime
  BY <1>1, <1>2, Bounds
<1>4. /\ last' = getOnCycle(gmu, l) /\ ontime' = last'.on /\ gmu' = 0
      /\ scheduler = "deciding" /\ scheduler' = "sending"
      /\ UNCHANGED <<packets_, snifferVars, spinlock, broken, window, mu, runtime, sentOntime>>
  BY DEF Decide
<1> HIDE DEF l
<1>5. /\ ontime' \in calculateMin .. t_on_max_
      /\ last'.mu \in Nat /\ last' \in [mu : Int, on : Int]
      /\ ontime' > ontime => gmu < mu_thr1_ \/ last.mu \in 0 .. mu_thr1_ - 1
  BY <1>1, <1>3, <1>4, NextOnTime
<1>6. ControllerInv'
  BY <1>4, <1>5 DEF ControllerInv, ControllerTypeOK, MeasuredWhole, Measured, Locked,
                    Windows, SchedulerStates, snifferVars
<1> QED BY <1>5, <1>6

LEMMA SchedulerKeeps ==
  ControllerInv /\ (SchedulerLocks \/ clearBuffer \/ Finish \/ Send \/ SendFails
                    \/ pcap_breakloop)
    => ControllerInv'
<1> SUFFICES ASSUME ControllerInv,
                    SchedulerLocks \/ clearBuffer \/ Finish \/ Send \/ SendFails
                      \/ pcap_breakloop
             PROVE  ControllerInv'
  OBVIOUS
<1> USE DEF ControllerInv, ControllerTypeOK, MeasuredWhole, Measured, Locked, NodesOK,
        Windows, SnifferStates, SchedulerStates, measureVars, snifferVars
<1>1. CASE SchedulerLocks
  BY <1>1 DEF SchedulerLocks
<1>2. CASE clearBuffer
  BY <1>2, NoneConsecutive DEF clearBuffer
<1>3. CASE Finish
  BY <1>3, ControllerAssumption DEF Finish
<1>4. CASE Send
  BY <1>4 DEF Send
<1>5. CASE SendFails
  BY <1>5 DEF SendFails
<1>6. CASE pcap_breakloop
  BY <1>6 DEF pcap_breakloop
<1> QED BY <1>1, <1>2, <1>3, <1>4, <1>5, <1>6

LEMMA ControllerStutter == ControllerInv /\ UNCHANGED vars => ControllerInv'
BY DEF ControllerInv, ControllerTypeOK, MeasuredWhole, Measured, Locked, NodesOK, Windows,
       vars, snifferVars, measureVars

LEMMA ControllerStep == ControllerInv /\ [Next]_vars => ControllerInv'
BY InsertKeeps, SnifferKeeps, MeasureKeeps, DecideKeeps, SchedulerKeeps, ControllerStutter
DEF Next, SnifferStep, SchedulerStep, Stopped

LEMMA ControllerInvHolds == Spec => []ControllerInv
<1> QED BY ControllerInit, ControllerStep, PTL DEF Spec

----------------------------------------------------------------------------
\* The on-time always leaves an off-time to divide the medium use by, and
\* never falls below the share that LTE-U is promised, for every cycle, every
\* choice of thresholds and whatever is captured: getOnCycle.
THEOREM ControllerTypeCorrect == Spec => []ControllerTypeOK
<1>1. ControllerInv => ControllerTypeOK
  BY DEF ControllerInv
<1> QED BY <1>1, ControllerInvHolds, PTL

\* The spin lock covers what it has to: no frame is cleared before it was
\* measured, however the two threads interleave.
THEOREM NothingClearedUnmeasured == Spec => []MeasuredWhole
<1>1. ControllerInv => MeasuredWhole
  BY DEF ControllerInv
<1> QED BY <1>1, ControllerInvHolds, PTL

\* LTE-U takes more of the medium only when it was quiet, now or in the
\* window before: no other step of either thread lengthens the on-time.
THEOREM OnTimeRisesOnQuietAir == Spec => RisesOnQuietAir
<1>1. ControllerInv /\ [Next]_vars
        => [ontime' > ontime => gmu < mu_thr1_ \/ last.mu \in 0 .. mu_thr1_ - 1]_vars
  <2> SUFFICES ASSUME ControllerInv, [Next]_vars, ontime' > ontime
               PROVE  gmu < mu_thr1_ \/ last.mu \in 0 .. mu_thr1_ - 1
    OBVIOUS
  <2>1. CASE Decide
    BY <2>1, DecideKeeps
  <2>2. CASE ~ Decide
    <3>1. ontime' = ontime
      BY <2>2 DEF Next, SnifferStep, SchedulerStep, Stopped, Open, Exit, Capture,
                  SnifferLocks, Insert, LeaveLoop, SnifferEnds, SchedulerLocks, Measure,
                  clearBuffer, Finish, Send, SendFails, pcap_breakloop, vars
    <3>2. ontime \in Int
      BY Bounds DEF ControllerInv, ControllerTypeOK
    <3> QED BY <3>1, <3>2
  <2> QED BY <2>1, <2>2
<1> QED BY <1>1, ControllerInvHolds, PTL DEF Spec, RisesOnQuietAir

\* Time in which a frame may have been missed is charged only once, for every
\* window, however long, whatever the gaps and the durations the frames
\* announce, and whatever was assumed of an ACK: an ACK looks for the CTS that
\* was charged for the same data (csat.cc:183).
THEOREM HiddenTimeChargedOnce == Spec => []HiddenTimeFits
<1>1. ControllerInv => HiddenTimeFits
  <2> SUFFICES ASSUME window \in Seq(Captured), Consecutive(window), window # << >>,
                      SameStation(window), Close(window)
               PROVE  HiddenTime(window) <= Apart(window, 1, Len(window))
    BY DEF ControllerInv, Windows, HiddenTimeFits
  <2>1. Len(window) > 0
    OBVIOUS
  <2> QED BY <2>1, HiddenTimeBound
<1> QED BY <1>1, ControllerInvHolds, PTL

----------------------------------------------------------------------------
(* The duty cycle of the base station. *)

(***************************************************************************)
(* The inductive invariant.  Triples are whole wherever they are stored    *)
(* (Whole); in an undisturbed cycle the radio's frequency and the time the *)
(* CTS still covers are functions of the counter (InPhase).                *)
(***************************************************************************)
Whole ==
  /\ tx = "run" => published \in Cycles /\ (sync \/ updated)
  /\ sync => cycle \in Cycles
  /\ udp = "publish" => inCycle \in Cycles

InPhase ==
  clean =>
    /\ sync
    /\ counter < cycle.interval
    /\ counter > 0 => channel = IF counter - 1 < cycle.on THEN "centre" ELSE "side"
    /\ counter > 0 /\ CtsSubframes > 0 =>
         nav = IF counter - 1 < cycle.on THEN cycle.on - counter ELSE -1

DutyInv == LteuTypeOK /\ Whole /\ InPhase /\ FrequencyFollowsPhase /\ CtsCoversOnPart

LEMMA CycleFacts ==
  ASSUME NEW c \in Cycles
  PROVE  /\ c.on \in Nat /\ c.off \in Nat /\ c.interval \in Nat
         /\ c.on >= 1 /\ c.interval = c.on + c.off
         /\ CtsSubframes <= c.on
         /\ c.interval <= (IF Interval > OnCycle + OffCycle THEN Interval
                           ELSE OnCycle + OffCycle)
         /\ c.on <= (IF Interval > OnCycle THEN Interval ELSE OnCycle)
         /\ c = Cycle(c.on, c.off, c.on + c.off)
<1>1. CASE \E on \in OnTimes : c = Cycle(on, Interval - on, Interval)
  BY <1>1, DutyAssumption DEF Cycle
<1>2. CASE c = Cycle(OnCycle, OffCycle, OnCycle + OffCycle)
  BY <1>2, DutyAssumption DEF Cycle
<1> QED BY <1>1, <1>2 DEF Cycles

LEMMA DutyInvBegins == InitDuty => DutyInv
<1> SUFFICES ASSUME InitDuty PROVE DutyInv
  OBVIOUS
<1>1. LteuTypeOK
  <2>1. 0 \in 0 .. (IF Interval > OnCycle + OffCycle THEN Interval
                    ELSE OnCycle + OffCycle) - 1
    BY DutyAssumption
  <2>2. -1 \in -1 .. (IF Interval > OnCycle THEN Interval ELSE OnCycle)
    BY DutyAssumption
  <2>3. 0 \in 0 .. MaxSends
    BY DutyAssumption
  <2> QED BY <2>1, <2>2, <2>3, Zenon DEF InitDuty, LteuTypeOK
<1> QED BY <1>1 DEF InitDuty, DutyInv, Whole, InPhase, FrequencyFollowsPhase, CtsCoversOnPart

(***************************************************************************)
(* One subframe.                                                           *)
(***************************************************************************)
LEMMA SubframeKeeps == DutyInv /\ ScheduleNextSF => DutyInv'
<1> SUFFICES ASSUME DutyInv, ScheduleNextSF PROVE DutyInv'
  OBVIOUS
<1> DEFINE c == adopted
           k == startCounter
<1>1. /\ tx = "run" /\ cycle' = c /\ updated' = FALSE /\ sync' = (sync \/ updated)
      /\ channel' = switched(c, k) /\ sent' = packet(c, k) /\ counter' = counted(c, k)
      /\ nav' = (IF packet(c, k) = "cts" THEN ctsDuration(c, k)
                 ELSE IF nav >= 0 THEN nav - 1 ELSE -1)
      /\ clean' = (k = 0 \/ (clean /\ ~ updated))
      /\ UNCHANGED <<udpVars, published, tx>>
  BY DEF ScheduleNextSF
<1>2. LteuTypeOK /\ Whole /\ InPhase
  BY DEF DutyInv
<1>3. c \in Cycles /\ sync'
  BY <1>1, <1>2 DEF Whole, adopted, LteuTypeOK
<1>4. /\ k \in Nat /\ (k = counter \/ k = 0)
      /\ k < (IF Interval > OnCycle + OffCycle THEN Interval ELSE OnCycle + OffCycle)
  BY <1>2, DutyAssumption DEF startCounter, LteuTypeOK
<1>5. ASSUME k # 0, clean' PROVE clean /\ c = cycle /\ k = counter /\ k < c.interval
  BY <1>1, <1>2, <1>4, <1>5 DEF adopted, InPhase
<1>6. /\ c.on \in Nat /\ c.off \in Nat /\ c.on >= 1 /\ c.interval = c.on + c.off
      /\ CtsSubframes <= c.on
      /\ c.interval <= (IF Interval > OnCycle + OffCycle THEN Interval
                        ELSE OnCycle + OffCycle)
      /\ c.on <= (IF Interval > OnCycle THEN Interval ELSE OnCycle)
  <2> HIDE DEF c
  <2> QED BY <1>3, CycleFacts
<1> HIDE DEF c, k
<1>7. counter' \in Nat /\ counter' < c.interval /\ (counter' > 0 => counter' = k + 1)
  BY <1>1, <1>4, <1>6 DEF counted
<1>8. clean' => channel' = IF k < c.on THEN "centre" ELSE "side"
  <2>1. CASE k = 0
    BY <1>1, <1>6, <2>1 DEF switched, Sora_SwitchTXFrequency
  <2>2. CASE k # 0 /\ clean'
    <3>1. /\ clean /\ c = cycle /\ k = counter /\ k < c.interval
          /\ channel = IF k - 1 < c.on THEN "centre" ELSE "side"
      BY <1>2, <1>4, <1>5, <2>2 DEF InPhase
    <3> QED BY <1>1, <1>4, <1>6, <2>2, <3>1 DEF switched, Sora_SwitchTXFrequency
  <2> QED BY <2>1, <2>2
<1>9. clean' /\ CtsSubframes > 0 => nav' = IF k < c.on THEN c.on - (k + 1) ELSE -1
  <2>0. CtsSubframes \in Nat
    BY DutyAssumption
  <2>1. CASE k < CtsSubframes
    BY <1>1, <1>4, <1>6, <2>0, <2>1 DEF packet, ctsDuration
  <2>2. CASE ~ (k < CtsSubframes) /\ clean' /\ CtsSubframes > 0
    <3>1. k # 0 /\ packet(c, k) # "cts"
      BY <1>4, <2>0, <2>2 DEF packet
    <3>2. nav = IF k - 1 < c.on THEN c.on - k ELSE -1
      BY <1>2, <1>4, <1>5, <2>2, <3>1 DEF InPhase
    <3> QED BY <1>1, <1>4, <1>6, <3>1, <3>2
  <2> QED BY <2>1, <2>2
<1>10. LteuTypeOK'
  <2>1. counter' \in 0 .. (IF Interval > OnCycle + OffCycle THEN Interval
                           ELSE OnCycle + OffCycle) - 1
    BY <1>6, <1>7, DutyAssumption
  <2>2. nav' \in -1 .. (IF Interval > OnCycle THEN Interval ELSE OnCycle)
    <3>1. CASE packet(c, k) = "cts"
      <4>1. k < CtsSubframes
        BY <3>1 DEF packet
      <4> QED BY <1>1, <1>4, <1>6, <3>1, <4>1, DutyAssumption DEF ctsDuration
    <3>2. CASE packet(c, k) # "cts"
      BY <1>1, <1>2, <3>2, DutyAssumption DEF LteuTypeOK
    <3> QED BY <3>1, <3>2
  <2>3. channel' \in {"centre", "side"} /\ sent' \in {"none", "cts", "on", "off"}
    BY <1>1, <1>2 DEF switched, Sora_SwitchTXFrequency, packet, LteuTypeOK
  <2>4. clean' \in BOOLEAN /\ sync' \in BOOLEAN /\ cycle' \in Cycles \union {noCycle}
    BY <1>1, <1>3
  <2> QED BY <1>1, <1>2, <2>1, <2>2, <2>3, <2>4 DEF LteuTypeOK, udpVars
<1>11. Whole'
  BY <1>1, <1>2, <1>3 DEF Whole, udpVars
<1>12. InPhase'
  BY <1>1, <1>3, <1>4, <1>6, <1>7, <1>8, <1>9 DEF InPhase
<1>13. FrequencyFollowsPhase'
  BY <1>1, <1>4, <1>6, <1>8, DutyAssumption DEF FrequencyFollowsPhase, onAirMatches, packet
<1>14. CtsCoversOnPart'
  <2> SUFFICES ASSUME clean', CtsSubframes > 0
               PROVE  (sent' = "on" => nav' >= 0) /\ (sent' = "off" => nav' = -1)
    BY DEF CtsCoversOnPart
  <2>1. nav' = IF k < c.on THEN c.on - (k + 1) ELSE -1
    BY <1>9
  <2>2. CASE k < c.on
    <3>1. nav' >= 0 /\ packet(c, k) # "off"
      BY <1>4, <1>6, <2>1, <2>2 DEF packet
    <3> QED BY <1>1, <3>1
  <2>3. CASE ~ (k < c.on)
    <3>1. nav' = -1 /\ packet(c, k) # "on"
      BY <2>1, <2>3 DEF packet
    <3> QED BY <1>1, <3>1
  <2> QED BY <2>2, <2>3
<1> QED BY <1>10, <1>11, <1>12, <1>13, <1>14 DEF DutyInv

----------------------------------------------------------------------------
(* The steps of the others leave the TX thread's state alone. *)

LEMMA OthersKeep ==
  ASSUME DutyInv, UNCHANGED <<cycle, counter, channel, sent, nav, clean, sync>>
  PROVE  InPhase' /\ FrequencyFollowsPhase' /\ CtsCoversOnPart'
BY DEF DutyInv, InPhase, FrequencyFollowsPhase, CtsCoversOnPart, onAirMatches

LEMMA InitTxKeeps == DutyInv /\ InitTx => DutyInv'
<1> SUFFICES ASSUME DutyInv, InitTx PROVE DutyInv'
  OBVIOUS
<1>1. InPhase' /\ FrequencyFollowsPhase' /\ CtsCoversOnPart'
  BY OthersKeep DEF InitTx
<1>2. published' \in Cycles
  <2>1. CASE published \in Cycles
    <3>1. published' = published
      BY <2>1, CycleFacts DEF InitTx, Cycle
    <3> QED BY <2>1, <3>1
  <2>2. CASE published = Cycle(OnCycle, OffCycle, 0)
    <3>1. published' = Cycle(OnCycle, OffCycle, OnCycle + OffCycle)
      BY <2>2 DEF InitTx, Cycle
    <3> QED BY <3>1 DEF Cycles
  <2> QED BY <2>1, <2>2 DEF DutyInv, LteuTypeOK
<1>3. LteuTypeOK' /\ Whole'
  BY <1>2 DEF InitTx, DutyInv, LteuTypeOK, Whole, udpVars
<1> QED BY <1>1, <1>3 DEF DutyInv

LEMMA UdpKeeps == DutyInv /\ (SendCycle \/ Lose \/ Receive \/ Publish) => DutyInv'
<1> SUFFICES ASSUME DutyInv, SendCycle \/ Lose \/ Receive \/ Publish PROVE DutyInv'
  OBVIOUS
<1>1. UNCHANGED txVars
  BY DEF SendCycle, Lose, Receive, Publish
<1>2. InPhase' /\ FrequencyFollowsPhase' /\ CtsCoversOnPart'
  BY <1>1, OthersKeep DEF txVars
<1>3. LteuTypeOK' /\ Whole'
  <2>1. CASE SendCycle
    BY <1>1, <2>1, DutyAssumption DEF SendCycle, DutyInv, LteuTypeOK, Whole, txVars, Cycles
  <2>2. CASE Lose
    BY <1>1, <2>2 DEF Lose, DutyInv, LteuTypeOK, Whole, txVars
  <2>3. CASE Receive
    BY <1>1, <2>3 DEF Receive, DutyInv, LteuTypeOK, Whole, txVars
  <2>4. CASE Publish
    BY <1>1, <2>4 DEF Publish, toPublish, DutyInv, LteuTypeOK, Whole, txVars
  <2> QED BY <2>1, <2>2, <2>3, <2>4
<1> QED BY <1>2, <1>3 DEF DutyInv

\* The life of the UDP thread and of the process.
LEMMA SocketKeeps ==
  DutyInv /\ (OpenSocket \/ BindFails \/ ProcessExits) => DutyInv'
<1> SUFFICES ASSUME DutyInv, OpenSocket \/ BindFails \/ ProcessExits PROVE DutyInv'
  OBVIOUS
<1>1. InPhase' /\ FrequencyFollowsPhase' /\ CtsCoversOnPart'
  BY OthersKeep DEF OpenSocket, BindFails, ProcessExits, txVars
<1>2. LteuTypeOK' /\ Whole'
  BY DEF OpenSocket, BindFails, ProcessExits, txVars, DutyInv, LteuTypeOK, Whole
<1> QED BY <1>1, <1>2 DEF DutyInv

LEMMA DutyStutter == DutyInv /\ UNCHANGED dutyVars => DutyInv'
BY DEF DutyInv, LteuTypeOK, Whole, InPhase, FrequencyFollowsPhase, CtsCoversOnPart,
       onAirMatches, dutyVars, udpVars, txVars

LEMMA DutyInvHolds == DutySpec => []DutyInv
<1>1. InitDuty => DutyInv
  BY DutyInvBegins
<1>2. DutyInv /\ [NextDuty]_dutyVars => DutyInv'
  BY SubframeKeeps, InitTxKeeps, UdpKeeps, SocketKeeps, DutyStutter DEF NextDuty, txStep, Exited
<1> QED BY <1>1, <1>2, PTL DEF DutySpec

\* The duty cycle's state keeps its types: in particular the counter stays
\* below the longest interval, and a CTS never asks for a negative time.
THEOREM LteuTypeCorrect == DutySpec => []LteuTypeOK
<1>1. DutyInv => LteuTypeOK
  BY DEF DutyInv
<1> QED BY <1>1, DutyInvHolds, PTL

\* In every undisturbed cycle the radio is on the Wi-Fi channel exactly in the
\* ON part, for every interval, every choice of on-times and every history of
\* updates.
THEOREM UndisturbedCyclesAreRight == DutySpec => []FrequencyFollowsPhase
<1>1. DutyInv => FrequencyFollowsPhase
  BY DEF DutyInv
<1> QED BY <1>1, DutyInvHolds, PTL

\* The CTS frames of an undisturbed cycle silence Wi-Fi exactly for its ON part.
THEOREM CtsIsExact == DutySpec => []CtsCoversOnPart
<1>1. DutyInv => CtsCoversOnPart
  BY DEF DutyInv
<1> QED BY <1>1, DutyInvHolds, PTL

\* The TX thread never works with a mixture of two datagrams, or of a datagram
\* and the command line.
THEOREM CycleIsWhole == DutySpec => []CycleAddsUp
<1>1. DutyInv => CycleAddsUp
  BY CycleFacts DEF DutyInv, Whole, CycleAddsUp
<1> QED BY <1>1, DutyInvHolds, PTL
============================================================================
