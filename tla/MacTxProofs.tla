---------------------------- MODULE MacTxProofs ----------------------------
(***************************************************************************)
(* The downlink scheduler keeps its types and leaves no packet behind, for *)
(* every number of frames, horizon, queue size, list of subframes and      *)
(* uplink traffic the assumptions allow.  If the queue has enough slots,   *)
(* it keeps the schedule, and with one data stream a phone never takes     *)
(* new data for a retransmission: the last parts of this module.           *)
(***************************************************************************)
EXTENDS HarqView, NaturalFacts, FiniteSetTheorems

(***************************************************************************)
(* Facts about downlink time, for every number of frames and every         *)
(* horizon.  The frame arithmetic is modulo NoFrames; the first lemmas     *)
(* turn it into case distinctions, which the rest rests on.                *)
(***************************************************************************)
LEMMA ModOnce ==
  ASSUME NEW n \in Nat \ {0}, NEW a \in 0 .. 2 * n - 1
  PROVE  a % n = IF a < n THEN a ELSE a - n
<1>1. CASE a < n
  BY <1>1, SMT
<1>2. CASE a >= n
  BY <1>2, SMT
<1> QED BY <1>1, <1>2

LEMMA FramesPositive == NoFrames \in Nat \ {0} /\ MaxTimeHorizon \in Nat
BY TimeAssumption

LEMMA HalfIsBeyondHorizon ==
  /\ NoFrames \div 2 \in Nat
  /\ MaxTimeHorizon + 2 <= NoFrames \div 2
  /\ 2 * (NoFrames \div 2) <= NoFrames
BY TimeAssumption

LEMMA PlusFramesIs ==
  ASSUME NEW f \in Frames, NEW k \in 0 .. NoFrames
  PROVE  /\ plusFrames(f, k) = IF f + k < NoFrames THEN f + k ELSE f + k - NoFrames
         /\ plusFrames(f, k) \in Frames
<1> DEFINE a == f + k
<1>1. a \in 0 .. 2 * NoFrames - 1
  BY FramesPositive DEF Frames
<1>2. a % NoFrames = IF a < NoFrames THEN a ELSE a - NoFrames
  <2> HIDE DEF a
  <2> QED BY <1>1, FramesPositive, ModOnce
<1>3. plusFrames(f, k) = IF a < NoFrames THEN a ELSE a - NoFrames
  BY <1>2 DEF plusFrames
<1> QED BY <1>1, <1>3, FramesPositive DEF Frames

LEMMA FramesAheadIs ==
  ASSUME NEW f \in Frames, NEW g \in Frames
  PROVE  /\ framesAhead(f, g) = IF f <= g THEN g - f ELSE NoFrames + g - f
         /\ framesAhead(f, g) \in Frames
<1> DEFINE a == NoFrames + g - f
<1>1. a \in 0 .. 2 * NoFrames - 1
  BY FramesPositive DEF Frames
<1>2. a % NoFrames = IF a < NoFrames THEN a ELSE a - NoFrames
  <2> HIDE DEF a
  <2> QED BY <1>1, FramesPositive, ModOnce
<1>3. framesAhead(f, g) = IF a < NoFrames THEN a ELSE a - NoFrames
  BY <1>2 DEF framesAhead
<1> QED BY <1>1, <1>3, FramesPositive DEF Frames

\* The next frame, and how it changes the distance between two frames.
LEMMA NextFrameIs ==
  ASSUME NEW f \in Frames
  PROVE  /\ plusFrames(f, 1) \in Frames
         /\ plusFrames(f, 1) = IF f + 1 < NoFrames THEN f + 1 ELSE 0
<1>1. 1 \in 0 .. NoFrames /\ f \in Int /\ f < NoFrames
  BY FramesPositive DEF Frames
<1>2. /\ plusFrames(f, 1) \in Frames
      /\ plusFrames(f, 1) = IF f + 1 < NoFrames THEN f + 1 ELSE f + 1 - NoFrames
  BY <1>1, PlusFramesIs
<1> QED BY <1>1, <1>2, FramesPositive

LEMMA FromNextFrame ==
  ASSUME NEW f \in Frames, NEW g \in Frames, f # g
  PROVE  framesAhead(plusFrames(f, 1), g) = framesAhead(f, g) - 1
<1> DEFINE h == plusFrames(f, 1)
<1>1. h \in Frames /\ h = IF f + 1 < NoFrames THEN f + 1 ELSE 0
  BY NextFrameIs
<1> HIDE DEF h
<1>2. framesAhead(h, g) = IF h <= g THEN g - h ELSE NoFrames + g - h
  BY <1>1, FramesAheadIs
<1>3. framesAhead(f, g) = IF f <= g THEN g - f ELSE NoFrames + g - f
  BY FramesAheadIs
<1>4. framesAhead(h, g) = framesAhead(f, g) - 1
  BY <1>1, <1>2, <1>3, FramesPositive DEF Frames
<1> QED BY <1>4 DEF h

LEMMA ToNextFrame ==
  ASSUME NEW f \in Frames, NEW g \in Frames, plusFrames(g, 1) # f
  PROVE  framesAhead(f, plusFrames(g, 1)) = framesAhead(f, g) + 1
<1> DEFINE h == plusFrames(g, 1)
<1>1. h \in Frames /\ h = (IF g + 1 < NoFrames THEN g + 1 ELSE 0) /\ h # f
  BY NextFrameIs
<1> HIDE DEF h
<1>2. framesAhead(f, h) = IF f <= h THEN h - f ELSE NoFrames + h - f
  BY <1>1, FramesAheadIs
<1>3. framesAhead(f, g) = IF f <= g THEN g - f ELSE NoFrames + g - f
  BY FramesAheadIs
<1>4. framesAhead(f, h) = framesAhead(f, g) + 1
  BY <1>1, <1>2, <1>3, FramesPositive DEF Frames
<1> QED BY <1>4 DEF h

LEMMA SameFrame ==
  ASSUME NEW f \in Frames, NEW g \in Frames
  PROVE  /\ framesAhead(f, g) \in 0 .. NoFrames - 1
         /\ framesAhead(f, g) = 0 <=> f = g
<1>1. framesAhead(f, g) = IF f <= g THEN g - f ELSE NoFrames + g - f
  BY FramesAheadIs
<1> QED BY <1>1, FramesPositive DEF Frames

LEMMA NextFrameDiffers ==
  ASSUME NEW f \in Frames, NoFrames > 8
  PROVE  /\ plusFrames(f, 1) # f
         /\ framesAhead(f, plusFrames(f, 1)) = 1
         /\ framesAhead(plusFrames(f, 1), f) = NoFrames - 1
<1> DEFINE h == plusFrames(f, 1)
<1>1. h \in Frames /\ h = IF f + 1 < NoFrames THEN f + 1 ELSE 0
  BY NextFrameIs
<1> HIDE DEF h
<1>2. framesAhead(f, h) = IF f <= h THEN h - f ELSE NoFrames + h - f
  BY <1>1, FramesAheadIs
<1>3. framesAhead(h, f) = IF h <= f THEN f - h ELSE NoFrames + f - h
  BY <1>1, FramesAheadIs
<1>4. h # f /\ framesAhead(f, h) = 1 /\ framesAhead(h, f) = NoFrames - 1
  BY <1>1, <1>2, <1>3, FramesPositive DEF Frames
<1> QED BY <1>4 DEF h

--------------------------------------------------------------------------
(* The operators return times. *)

LEMMA AtIsTime ==
  ASSUME NEW f \in Frames, NEW sf \in Subframes
  PROVE  At(f, sf) \in Times /\ At(f, sf).frame = f /\ At(f, sf).subframe = sf
BY DEF At, Times

LEMMA TimeFields ==
  ASSUME NEW t \in Times
  PROVE  /\ t.frame \in Frames /\ t.subframe \in Subframes
         /\ \A u \in Times : t.frame = u.frame /\ t.subframe = u.subframe => t = u
BY DEF Times

LEMMA LeastOfSubframes ==
  ASSUME NEW S \in SUBSET DataSubF, S # {}
  PROVE  leastOf(S) \in S
<1>1. S \in SUBSET Nat
  BY TimeAssumption
<1>2. \E x \in S : \A y \in S : x <= y
  BY <1>1, LeastElement
<1> QED BY <1>2 DEF leastOf

LEMMA NextSubframeIsTime ==
  ASSUME NEW t \in Times
  PROVE  nextSubframe(t) \in Times
<1>1. t.frame \in Frames /\ t.subframe \in Subframes
  BY TimeFields
<1>2. plusFrames(t.frame, 1) \in Frames
  BY <1>1, NextFrameIs
<1> QED BY <1>1, <1>2, AtIsTime DEF nextSubframe, Subframes

LEMMA NextSubframeFields ==
  ASSUME NEW t \in Times
  PROVE  IF t.subframe = 9
         THEN /\ nextSubframe(t).frame = plusFrames(t.frame, 1)
              /\ nextSubframe(t).subframe = 0
         ELSE /\ nextSubframe(t).frame = t.frame
              /\ nextSubframe(t).subframe = t.subframe + 1
BY DEF nextSubframe, At

LEMMA NextRRCIs ==
  ASSUME NEW t \in Times
  PROVE  /\ nextRRCSubframe(t) \in Times
         /\ \/ /\ nextRRCSubframe(t).frame = t.frame
               /\ nextRRCSubframe(t).subframe > t.subframe
            \/ nextRRCSubframe(t).frame = plusFrames(t.frame, 1)
<1>1. t.frame \in Frames /\ t.subframe \in Subframes /\ 2 \in Subframes
  BY TimeFields DEF Subframes
<1>2. plusFrames(t.frame, 1) \in Frames
  BY <1>1, NextFrameIs
<1>3. CASE t.subframe + 1 > 2
  BY <1>1, <1>2, <1>3, AtIsTime DEF nextRRCSubframe
<1>4. CASE ~ (t.subframe + 1 > 2)
  <2>1. 2 > t.subframe
    BY <1>1, <1>4 DEF Subframes
  <2> QED BY <1>1, <1>4, <2>1, AtIsTime DEF nextRRCSubframe
<1> QED BY <1>3, <1>4

LEMMA NextIPIs ==
  ASSUME NEW t \in Times
  PROVE  /\ nextIPSubframe(t) \in Times
         /\ \/ /\ nextIPSubframe(t).frame = t.frame
               /\ nextIPSubframe(t).subframe > t.subframe
            \/ nextIPSubframe(t).frame = plusFrames(t.frame, 1)
<1> DEFINE later == {s \in DataSubF : s >= t.subframe + 1}
<1>0. t.frame \in Frames /\ t.subframe \in Subframes /\ DataSubF \subseteq Subframes
  BY TimeFields, TimeAssumption DEF Subframes
<1>1. CASE later = {}
  <2>1. nextIPSubframe(t) = At(plusFrames(t.frame, 1), leastOf(DataSubF))
    BY <1>1 DEF nextIPSubframe
  <2>2. leastOf(DataSubF) \in Subframes
    BY <1>0, LeastOfSubframes, TimeAssumption
  <2>3. plusFrames(t.frame, 1) \in Frames
    BY <1>0, NextFrameIs
  <2> QED BY <2>1, <2>2, <2>3, AtIsTime
<1>2. CASE later # {}
  <2>1. nextIPSubframe(t) = At(t.frame, leastOf(later))
    BY <1>2 DEF nextIPSubframe
  <2>2. leastOf(later) \in later
    BY <1>2, LeastOfSubframes
  <2>3. ASSUME NEW s \in later PROVE s \in Subframes /\ s > t.subframe
    BY <1>0 DEF Subframes
  <2>4. leastOf(later) \in Subframes /\ leastOf(later) > t.subframe
    <3> HIDE DEF later
    <3> QED BY <2>2, <2>3
  <2> QED BY <1>0, <2>1, <2>4, AtIsTime
<1> QED BY <1>1, <1>2

LEMMA NextIPInDataSubF ==
  ASSUME NEW t
  PROVE  nextIPSubframe(t).subframe \in DataSubF
<1> DEFINE later == {s \in DataSubF : s >= t.subframe + 1}
<1>1. DataSubF # {}
  BY TimeAssumption
<1>2. CASE later = {}
  BY <1>1, <1>2, LeastOfSubframes DEF nextIPSubframe, At
<1>3. CASE later # {}
  <2>1. leastOf(later) \in DataSubF
    BY <1>3, LeastOfSubframes
  <2> QED BY <1>3, <2>1 DEF nextIPSubframe, At
<1> QED BY <1>2, <1>3

LEMMA NotLaggingIsTime ==
  ASSUME NEW t \in Times, NEW u \in Times
  PROVE  notLagging(t, u) \in Times
BY DEF notLagging

--------------------------------------------------------------------------
(* The window in which scheduled packets lie. *)

\* A packet in the window that is not due now is in the window one subframe
\* later.
LEMMA WindowAdvances ==
  ASSUME NEW t \in Times, NEW u \in Times, NEW k \in 0 .. NoFrames - 1,
         within(t, u, k), u # t
  PROVE  within(nextSubframe(t), u, k)
<1>1. /\ t.frame \in Frames /\ t.subframe \in Subframes
      /\ u.frame \in Frames /\ u.subframe \in Subframes
      /\ t.frame = u.frame => t.subframe # u.subframe
  BY TimeFields
<1>2. CASE t.subframe = 9
  <2>1. /\ nextSubframe(t).frame = plusFrames(t.frame, 1)
        /\ nextSubframe(t).subframe = 0
    BY <1>2, NextSubframeFields
  <2>2. framesAhead(t.frame, u.frame) \in 1 .. k
    BY <1>1, <1>2 DEF within, Subframes
  <2>3. t.frame # u.frame
    BY <1>1, <2>2, SameFrame
  <2>4. framesAhead(plusFrames(t.frame, 1), u.frame) \in 0 .. k
    BY <1>1, <2>2, <2>3, FromNextFrame
  <2>5. plusFrames(t.frame, 1) \in Frames
    BY <1>1, NextFrameIs
  <2>6. \/ plusFrames(t.frame, 1) = u.frame
        \/ framesAhead(plusFrames(t.frame, 1), u.frame) \in 1 .. k
    BY <1>1, <2>4, <2>5, SameFrame
  <2> QED BY <1>1, <2>1, <2>6 DEF within, Subframes
<1>3. CASE t.subframe # 9
  <2>1. /\ nextSubframe(t).frame = t.frame
        /\ nextSubframe(t).subframe = t.subframe + 1
    BY <1>3, NextSubframeFields
  <2> QED BY <1>1, <2>1 DEF within, Subframes
<1> QED BY <1>2, <1>3

\* A control packet some frames later is in the window.
LEMMA WindowAhead ==
  ASSUME NEW t \in Times, NEW j \in 1 .. 8, NEW sf \in Subframes, NoFrames > 8
  PROVE  within(t, At(plusFrames(t.frame, j), sf), 8)
<1> DEFINE g == plusFrames(t.frame, j)
<1>1. t.frame \in Frames /\ j \in 0 .. NoFrames
  BY TimeFields, FramesPositive
<1>2. /\ g \in Frames
      /\ g = IF t.frame + j < NoFrames THEN t.frame + j ELSE t.frame + j - NoFrames
  BY <1>1, PlusFramesIs
<1> HIDE DEF g
<1>3. framesAhead(t.frame, g) = IF t.frame <= g THEN g - t.frame ELSE NoFrames + g - t.frame
  BY <1>1, <1>2, FramesAheadIs
<1>4. framesAhead(t.frame, g) \in 1 .. 8
  <2>1. t.frame \in Nat /\ t.frame < NoFrames /\ j \in Nat /\ 1 <= j /\ j <= 8
    BY <1>1, FramesPositive DEF Frames
  <2>2. CASE t.frame + j < NoFrames
    BY <1>2, <1>3, <2>1, <2>2, FramesPositive
  <2>3. CASE ~ (t.frame + j < NoFrames)
    <3>1. g = t.frame + j - NoFrames /\ ~ (t.frame <= g)
      BY <1>2, <2>1, <2>3, FramesPositive
    <3> QED BY <1>3, <2>1, <3>1, FramesPositive
  <2> QED BY <2>2, <2>3
<1>5. within(t, At(g, sf), 8)
  BY <1>2, <1>4, AtIsTime DEF within
<1> QED BY <1>5 DEF g

\* The last scheduled time at the start of a callback: in the window, or the
\* subframe before now.
recent(t, last) ==
  \/ within(t, last, MaxTimeHorizon + 1)
  \/ nextSubframe(last) = t

LEMMA RecentAdvances ==
  ASSUME NEW t \in Times, NEW last \in Times, within(t, last, MaxTimeHorizon + 1)
  PROVE  recent(nextSubframe(t), last)
<1>1. MaxTimeHorizon + 1 \in 0 .. NoFrames - 1
  BY FramesPositive, HalfIsBeyondHorizon
<1> QED BY <1>1, WindowAdvances DEF recent

\* One subframe before now counts as before now, across the frame wrap too.
LEMMA BeforeNow ==
  ASSUME NEW t \in Times, NEW last \in Times, nextSubframe(last) = t, NoFrames > 8
  PROVE  compareTime(t, last) = 1
<1>1. /\ t.frame \in Frames /\ t.subframe \in Subframes
      /\ last.frame \in Frames /\ last.subframe \in Subframes
  BY TimeFields
<1>2. CASE last.subframe = 9
  <2>1. t.frame = plusFrames(last.frame, 1)
    BY <1>2, NextSubframeFields
  <2>2. t.frame # last.frame /\ framesAhead(t.frame, last.frame) = NoFrames - 1
    BY <1>1, <2>1, NextFrameDiffers
  <2>3. ~ (NoFrames - 1 < NoFrames \div 2)
    BY FramesPositive, HalfIsBeyondHorizon
  <2> QED BY <2>2, <2>3 DEF compareTime
<1>3. CASE last.subframe # 9
  <2>1. t.frame = last.frame /\ t.subframe = last.subframe + 1
    BY <1>3, NextSubframeFields
  <2> QED BY <1>1, <2>1 DEF compareTime, Subframes
<1> QED BY <1>2, <1>3

\* The lag fix brings the last scheduled time into the window.
LEMMA NotLaggingInWindow ==
  ASSUME NEW t \in Times, NEW last \in Times, recent(t, last), NoFrames > 8
  PROVE  within(t, notLagging(t, last), MaxTimeHorizon + 1)
<1>1. within(t, t, MaxTimeHorizon + 1)
  BY TimeFields DEF within, Subframes
<1>2. CASE compareTime(t, last) = 1
  BY <1>1, <1>2 DEF notLagging
<1>3. CASE compareTime(t, last) # 1
  BY <1>3, BeforeNow DEF notLagging, recent
<1> QED BY <1>2, <1>3

\* Within the horizon, the time after the last one is in the window.
LEMMA HorizonInWindow ==
  ASSUME NEW t \in Times, NEW last \in Times, NEW u \in Times,
         recent(t, last), checkTimeHorizon(t, last), NoFrames > 8,
         \/ u.frame = last.frame /\ u.subframe > last.subframe
         \/ u.frame = plusFrames(last.frame, 1)
  PROVE  within(t, u, MaxTimeHorizon + 1)
<1>1. /\ t.frame \in Frames /\ t.subframe \in Subframes
      /\ u.frame \in Frames /\ u.subframe \in Subframes
      /\ last.frame \in Frames /\ last.subframe \in Subframes
  BY TimeFields
<1>2. CASE within(t, last, MaxTimeHorizon + 1)
  <2>1. CASE t.frame = last.frame /\ t.subframe <= last.subframe
    <3>1. CASE u.frame = last.frame /\ u.subframe > last.subframe
      BY <1>1, <2>1, <3>1 DEF within, Subframes
    <3>2. CASE u.frame = plusFrames(last.frame, 1)
      <4>1. framesAhead(t.frame, u.frame) = 1
        BY <1>1, <2>1, <3>2, NextFrameDiffers
      <4> QED BY <4>1, FramesPositive DEF within
    <3> QED BY <3>1, <3>2
  <2>2. CASE framesAhead(t.frame, last.frame) \in 1 .. MaxTimeHorizon + 1
    <3>1. t.frame # last.frame /\ t # last
      BY <1>1, <2>2, SameFrame
    <3>2. framesAhead(t.frame, last.frame) < NoFrames \div 2
      BY <2>2, FramesPositive, HalfIsBeyondHorizon
    <3>3. compareTime(t, last) = 2
      BY <3>1, <3>2 DEF compareTime
    <3>4. framesAhead(t.frame, last.frame) \in 1 .. MaxTimeHorizon
      BY <2>2, <3>3, FramesPositive DEF checkTimeHorizon
    <3>5. CASE u.frame = last.frame
      BY <3>4, <3>5, FramesPositive DEF within
    <3>6. CASE u.frame = plusFrames(last.frame, 1)
      <4>1. framesAhead(t.frame, last.frame) < NoFrames - 1
        BY <3>4, FramesPositive, HalfIsBeyondHorizon
      <4>2. u.frame # t.frame
        <5>1. framesAhead(plusFrames(last.frame, 1), last.frame) = NoFrames - 1
          BY <1>1, NextFrameDiffers
        <5> QED BY <3>6, <4>1, <5>1, FramesPositive
      <4>3. framesAhead(t.frame, u.frame) = framesAhead(t.frame, last.frame) + 1
        BY <1>1, <3>6, <4>2, ToNextFrame
      <4> QED BY <3>4, <4>3, FramesPositive DEF within
    <3> QED BY <3>5, <3>6
  <2> QED BY <1>2, <2>1, <2>2 DEF within
<1>3. CASE nextSubframe(last) = t
  <2>1. CASE last.subframe = 9
    <3>1. t.frame = plusFrames(last.frame, 1) /\ t.subframe = 0
      BY <1>3, <2>1, NextSubframeFields
    <3>2. u.frame = t.frame
      BY <1>1, <2>1, <3>1 DEF Subframes
    <3> QED BY <1>1, <3>1, <3>2 DEF within, Subframes
  <2>2. CASE last.subframe # 9
    <3>1. t.frame = last.frame /\ t.subframe = last.subframe + 1
      BY <1>3, <2>2, NextSubframeFields
    <3>2. CASE u.frame = last.frame /\ u.subframe > last.subframe
      BY <1>1, <3>1, <3>2 DEF within, Subframes
    <3>3. CASE u.frame = plusFrames(last.frame, 1)
      <4>1. framesAhead(t.frame, u.frame) = 1
        BY <1>1, <3>1, <3>3, NextFrameDiffers
      <4> QED BY <4>1, FramesPositive DEF within
    <3> QED BY <3>2, <3>3
  <2> QED BY <2>1, <2>2
<1> QED BY <1>2, <1>3 DEF recent

---------------------------------------------------------------------------
(* The recurrent packets, and the order within a data stream. *)

\* u is t or later, by less than k whole frames.
sooner(t, u, k) ==
  \/ within(t, u, k - 1)
  \/ framesAhead(t.frame, u.frame) = k /\ u.subframe < t.subframe

\* What is due later, but by less than k frames, is so one subframe later.
LEMMA SoonerAdvances ==
  ASSUME NEW t \in Times, NEW u \in Times, NEW k \in 1 .. 8, NoFrames > 8,
         sooner(t, u, k), u # t
  PROVE  sooner(nextSubframe(t), u, k)
<1>1. k - 1 \in 0 .. NoFrames - 1 /\ k \in Nat /\ k > 0 /\ k < NoFrames
  BY FramesPositive
<1>2. CASE within(t, u, k - 1)
  BY <1>1, <1>2, WindowAdvances DEF sooner
<1>3. CASE framesAhead(t.frame, u.frame) = k /\ u.subframe < t.subframe
  <2>1. /\ t.frame \in Frames /\ t.subframe \in Subframes
        /\ u.frame \in Frames /\ u.subframe \in Subframes
    BY TimeFields
  <2>2. CASE t.subframe = 9
    <3>1. nextSubframe(t).frame = plusFrames(t.frame, 1) /\ nextSubframe(t).subframe = 0
      BY <2>2, NextSubframeFields
    <3>2. t.frame # u.frame
      BY <1>1, <1>3, <2>1, SameFrame
    <3>3. framesAhead(plusFrames(t.frame, 1), u.frame) = k - 1
      BY <1>3, <2>1, <3>2, FromNextFrame
    <3>4. plusFrames(t.frame, 1) \in Frames
      BY <2>1, NextFrameIs
    <3>5. plusFrames(t.frame, 1) = u.frame \/ k - 1 \in 1 .. k - 1
      BY <1>1, <2>1, <3>3, <3>4, SameFrame
    <3> QED BY <2>1, <3>1, <3>3, <3>5 DEF sooner, within, Subframes
  <2>3. CASE t.subframe # 9
    <3>1. nextSubframe(t).frame = t.frame /\ nextSubframe(t).subframe = t.subframe + 1
      BY <2>3, NextSubframeFields
    <3> QED BY <1>3, <2>1, <3>1 DEF sooner, Subframes
  <2> QED BY <2>2, <2>3
<1> QED BY <1>2, <1>3 DEF sooner

\* A packet due k frames after now counts as sooner in the next subframe.
LEMMA PeriodAhead ==
  ASSUME NEW t \in Times, NEW u \in Times, NEW k \in 1 .. 8, NoFrames > 8,
         u.frame = plusFrames(t.frame, k), u.subframe = t.subframe
  PROVE  u # t /\ sooner(nextSubframe(t), u, k)
<1>1. /\ t.frame \in Frames /\ t.subframe \in Subframes
      /\ u.frame \in Frames /\ u.subframe \in Subframes
      /\ k \in 0 .. NoFrames /\ k \in 1 .. 8 /\ 8 < NoFrames /\ NoFrames \in Nat
  BY TimeFields, FramesPositive
<1>2. framesAhead(t.frame, u.frame) = k
  <2>1. u.frame = IF t.frame + k < NoFrames THEN t.frame + k ELSE t.frame + k - NoFrames
    BY <1>1, PlusFramesIs
  <2>2. framesAhead(t.frame, u.frame)
          = IF t.frame <= u.frame THEN u.frame - t.frame ELSE NoFrames + u.frame - t.frame
    BY <1>1, FramesAheadIs
  <2>3. t.frame \in Nat /\ t.frame < NoFrames
    BY <1>1 DEF Frames
  <2>4. CASE t.frame + k < NoFrames
    BY <1>1, <2>1, <2>2, <2>3, <2>4
  <2>5. CASE ~ (t.frame + k < NoFrames)
    BY <1>1, <2>1, <2>2, <2>3, <2>5
  <2> QED BY <2>4, <2>5
<1>3. u.frame # t.frame
  BY <1>1, <1>2, SameFrame
<1>4. CASE t.subframe = 9
  <2>1. nextSubframe(t).frame = plusFrames(t.frame, 1) /\ nextSubframe(t).subframe = 0
    BY <1>4, NextSubframeFields
  <2>2. framesAhead(plusFrames(t.frame, 1), u.frame) = k - 1
    BY <1>1, <1>2, <1>3, FromNextFrame
  <2>3. plusFrames(t.frame, 1) \in Frames
    BY <1>1, NextFrameIs
  <2>4. plusFrames(t.frame, 1) = u.frame \/ k - 1 \in 1 .. k - 1
    BY <1>1, <2>2, <2>3, SameFrame
  <2> QED BY <1>1, <1>3, <2>1, <2>2, <2>4 DEF sooner, within, Subframes
<1>5. CASE t.subframe # 9
  <2>1. nextSubframe(t).frame = t.frame /\ nextSubframe(t).subframe = t.subframe + 1
    BY <1>5, NextSubframeFields
  <2> QED BY <1>1, <1>2, <1>3, <2>1 DEF sooner, Subframes
<1> QED BY <1>4, <1>5

\* Two subframes of a recurrent packet are a multiple of its period apart, so
\* none lies between now and the one that is sooner.
LEMMA NoneBetween ==
  ASSUME NEW t \in Times, NEW u \in Times, NEW k \in {1, 2, 8},
         t.frame % k = 0, u.frame % k = 0, t.subframe = u.subframe,
         sooner(t, u, k)
  PROVE  t = u
<1>1. /\ t.frame \in Frames /\ t.subframe \in Subframes
      /\ u.frame \in Frames /\ u.subframe \in Subframes
  BY TimeFields
<1>2. SUFFICES ASSUME t.frame # u.frame PROVE FALSE
  BY TimeFields
<1>3. framesAhead(t.frame, u.frame) \in 1 .. k - 1
  BY <1>1, <1>2 DEF sooner, within, Subframes
<1>4. framesAhead(t.frame, u.frame)
        = IF t.frame <= u.frame THEN u.frame - t.frame ELSE NoFrames + u.frame - t.frame
  BY <1>1, FramesAheadIs
<1>5. NoFrames \in Nat /\ NoFrames % 8 = 0 /\ t.frame \in Nat /\ u.frame \in Nat
  BY <1>1, TimeAssumption DEF Frames
<1>6. CASE k = 1
  BY <1>3, <1>6
<1>7. CASE k = 2
  BY <1>3, <1>4, <1>5, <1>7
<1>8. CASE k = 8
  BY <1>3, <1>4, <1>5, <1>8
<1> QED BY <1>6, <1>7, <1>8

\* A frame that is a multiple of the period stays one a period later.
LEMMA PeriodKept ==
  ASSUME NEW f \in Frames, NEW k \in {1, 2, 8}, f % k = 0, NoFrames > 8
  PROVE  plusFrames(f, k) % k = 0
<1>1. k \in 0 .. NoFrames
  BY FramesPositive
<1>2. plusFrames(f, k) = IF f + k < NoFrames THEN f + k ELSE f + k - NoFrames
  BY <1>1, PlusFramesIs
<1>3. plusFrames(f, k) \in Frames
  BY <1>1, PlusFramesIs
<1>4. NoFrames \in Nat /\ NoFrames % 8 = 0 /\ f \in Nat /\ plusFrames(f, k) \in Nat
  BY <1>3, TimeAssumption DEF Frames
<1>5. CASE k = 1
  BY <1>4, <1>5
<1>6. CASE k = 2
  BY <1>2, <1>4, <1>6
<1>7. CASE k = 8
  BY <1>2, <1>4, <1>7
<1> QED BY <1>5, <1>6, <1>7

\* Frames counted from a third one.
LEMMA AheadFrom ==
  ASSUME NEW f \in Frames, NEW g \in Frames, NEW h \in Frames
  PROVE  framesAhead(g, h) = IF framesAhead(f, g) <= framesAhead(f, h)
                             THEN framesAhead(f, h) - framesAhead(f, g)
                             ELSE NoFrames + framesAhead(f, h) - framesAhead(f, g)
<1>1. /\ framesAhead(f, g) = IF f <= g THEN g - f ELSE NoFrames + g - f
      /\ framesAhead(f, h) = IF f <= h THEN h - f ELSE NoFrames + h - f
      /\ framesAhead(g, h) = IF g <= h THEN h - g ELSE NoFrames + h - g
  BY FramesAheadIs
<1>2. /\ f \in Nat /\ g \in Nat /\ h \in Nat /\ NoFrames \in Nat
      /\ f < NoFrames /\ g < NoFrames /\ h < NoFrames
  BY FramesPositive DEF Frames
<1> QED BY <1>1, <1>2

\* Frames are in the window exactly if they are at most that far ahead.
LEMMA WithinIs ==
  ASSUME NEW t \in Times, NEW u \in Times, NEW k \in Nat
  PROVE  within(t, u, k) <=>
           /\ framesAhead(t.frame, u.frame) \in 0 .. k
           /\ framesAhead(t.frame, u.frame) = 0 => t.subframe <= u.subframe
<1>1. t.frame \in Frames /\ u.frame \in Frames
  BY TimeFields
<1>2. framesAhead(t.frame, u.frame) \in Nat /\ (framesAhead(t.frame, u.frame) = 0 <=> t.frame = u.frame)
  BY <1>1, SameFrame
<1> QED BY <1>2 DEF within

\* A stream with a packet still to come is not lagging behind.
LEMMA StreamNotLagging ==
  ASSUME NEW t \in Times, NEW u \in Times, NEW last \in Times, NoFrames > 8,
         within(t, u, MaxTimeHorizon + 1), within(u, last, MaxTimeHorizon + 1),
         recent(t, last)
  PROVE  within(t, last, MaxTimeHorizon + 1) /\ notLagging(t, last) = last
<1> DEFINE k == MaxTimeHorizon + 1
           a == framesAhead(t.frame, u.frame)
           b == framesAhead(t.frame, last.frame)
           c == framesAhead(u.frame, last.frame)
<1>1. /\ t.frame \in Frames /\ t.subframe \in Subframes
      /\ u.frame \in Frames /\ u.subframe \in Subframes
      /\ last.frame \in Frames /\ last.subframe \in Subframes
  BY TimeFields
<1>2. k \in Nat /\ 2 * k + 2 <= NoFrames /\ k < NoFrames \div 2 /\ NoFrames \in Nat
  BY FramesPositive, HalfIsBeyondHorizon
<1>3. /\ a \in 0 .. k /\ (a = 0 => t.subframe <= u.subframe)
      /\ c \in 0 .. k /\ (c = 0 => u.subframe <= last.subframe)
  <2> HIDE DEF k
  <2> QED BY <1>2, WithinIs DEF k
<1>4. c = IF a <= b THEN b - a ELSE NoFrames + b - a
  BY <1>1, AheadFrom
<1>5. b \in 0 .. NoFrames - 1 /\ (b = 0 <=> t.frame = last.frame)
  BY <1>1, SameFrame
<1>6. ASSUME nextSubframe(last) = t PROVE FALSE
  <2>1. CASE last.subframe = 9
    <3>1. t.frame = plusFrames(last.frame, 1)
      BY <1>6, <2>1, NextSubframeFields
    <3>2. b = NoFrames - 1
      BY <1>1, <3>1, NextFrameDiffers
    <3> HIDE DEF a, b, c, k
    <3> QED BY <1>2, <1>3, <1>4, <3>2
  <2>2. CASE last.subframe # 9
    <3>1. t.frame = last.frame /\ t.subframe = last.subframe + 1
      BY <1>6, <2>2, NextSubframeFields
    <3>2. b = 0
      BY <1>5, <3>1
    <3>3. t.subframe \in Nat /\ u.subframe \in Nat /\ last.subframe \in Nat
      BY <1>1 DEF Subframes
    <3> HIDE DEF a, b, c, k
    <3> QED BY <1>2, <1>3, <1>4, <3>1, <3>2, <3>3
  <2> QED BY <2>1, <2>2
<1>7. within(t, last, k)
  BY <1>6 DEF recent
<1>8. compareTime(t, last) # 1
  <2>1. b \in 0 .. k /\ (b = 0 => t.subframe <= last.subframe)
    <3> HIDE DEF k
    <3> QED BY <1>2, <1>7, WithinIs
  <2>2. CASE b = 0
    <3>1. t.frame = last.frame /\ (t = last \/ last.subframe > t.subframe)
      BY <1>1, <1>5, <2>1, <2>2, TimeFields DEF Subframes
    <3> QED BY <3>1 DEF compareTime
  <2>3. CASE b # 0
    <3>1. t.frame # last.frame /\ t # last /\ b < NoFrames \div 2
      BY <1>2, <1>5, <2>1, <2>3
    <3> QED BY <3>1 DEF compareTime
  <2> QED BY <2>2, <2>3
<1> QED BY <1>7, <1>8 DEF notLagging

\* The next time of a stream is after every packet that is still to come.
LEMMA NextIsLast ==
  ASSUME NEW t \in Times, NEW u \in Times, NEW last \in Times, NEW v \in Times,
         within(t, u, MaxTimeHorizon + 1), within(u, last, MaxTimeHorizon + 1),
         recent(t, last), within(t, v, MaxTimeHorizon + 1), NoFrames > 8,
         \/ v.frame = last.frame /\ v.subframe > last.subframe
         \/ v.frame = plusFrames(last.frame, 1)
  PROVE  within(u, v, MaxTimeHorizon + 1) /\ u # v
<1> DEFINE k == MaxTimeHorizon + 1
           a == framesAhead(t.frame, u.frame)
           b == framesAhead(t.frame, last.frame)
           d == framesAhead(t.frame, v.frame)
<1>1. /\ t.frame \in Frames /\ t.subframe \in Subframes
      /\ u.frame \in Frames /\ u.subframe \in Subframes
      /\ v.frame \in Frames /\ v.subframe \in Subframes
      /\ last.frame \in Frames /\ last.subframe \in Subframes
  BY TimeFields
<1>2. k \in Nat /\ 2 * k + 2 <= NoFrames /\ NoFrames \in Nat
  BY FramesPositive, HalfIsBeyondHorizon
<1>3. within(t, last, k)
  BY StreamNotLagging
<1>4. /\ a \in 0 .. k /\ b \in 0 .. k /\ d \in 0 .. k
      /\ framesAhead(u.frame, last.frame) \in 0 .. k
      /\ framesAhead(u.frame, last.frame) = 0 => u.subframe <= last.subframe
  <2> HIDE DEF k
  <2> QED BY <1>2, <1>3, WithinIs DEF k
<1>5. /\ framesAhead(u.frame, last.frame) = IF a <= b THEN b - a ELSE NoFrames + b - a
      /\ framesAhead(u.frame, v.frame) = IF a <= d THEN d - a ELSE NoFrames + d - a
  BY <1>1, AheadFrom
<1>6. \/ d = b /\ v.subframe > last.subframe
      \/ d = b + 1
  <2>1. CASE v.frame = last.frame /\ v.subframe > last.subframe
    BY <2>1
  <2>2. CASE v.frame = plusFrames(last.frame, 1)
    <3>1. framesAhead(plusFrames(last.frame, 1), last.frame) = NoFrames - 1
      BY <1>1, NextFrameDiffers
    <3>2. plusFrames(last.frame, 1) # t.frame
      <4> HIDE DEF k, a, d
      <4> QED BY <1>2, <1>4, <3>1
    <3> QED BY <1>1, <2>2, <3>2, ToNextFrame
  <2> QED BY <2>1, <2>2
<1>7. /\ framesAhead(u.frame, v.frame) \in 0 .. k
      /\ framesAhead(u.frame, v.frame) = 0 => u.subframe < v.subframe
  <2>1. v.subframe \in Nat /\ u.subframe \in Nat /\ last.subframe \in Nat
    BY <1>1 DEF Subframes
  <2> HIDE DEF k, a, b, d
  <2> QED BY <1>2, <1>4, <1>5, <1>6, <2>1
<1>8. within(u, v, k)
  <2> HIDE DEF k
  <2> QED BY <1>1, <1>2, <1>7, WithinIs DEF Subframes
<1>9. u # v
  BY <1>1, <1>7, SameFrame DEF Subframes
<1> QED BY <1>8, <1>9

----------------------------------------------------------------------------

(***************************************************************************)
(* The inductive invariant.  A packet never leaves the window because a    *)
(* new one is put in relative to the last time of its stream (LastTimes),  *)
(* which the lag fix brings up to now in every callback, and because the   *)
(* empty subframe after this one is later in the frame (EmptyChain).       *)
(***************************************************************************)
LastTimes ==
  /\ IF pc = "rrc" THEN recent(now, lastRRC)
                   ELSE within(now, lastRRC, MaxTimeHorizon + 1)
  /\ IF pc \in {"rrc", "ip"} THEN recent(now, lastIP)
                             ELSE within(now, lastIP, MaxTimeHorizon + 1)

Handed ==
  /\ \A p \in buf : due(p) = now
  /\ pc \in {"rrc", "ip"} => buf = {}
  /\ pc = "phy" => outQueue \intersect buf = {}

EmptyChain ==
  \A p \in outQueue \ buf : p.kind = "EMPTY" =>
    /\ nextESF >= 1
    /\ p.subframe = EmptySubF[nextESF]
    /\ \A q \in outQueue \ buf : q.kind = "EMPTY" => q = p

MacInv == MacTypeOK /\ QueueNeverStale /\ LastTimes /\ Handed /\ EmptyChain

----------------------------------------------------------------------------
LEMMA ManyFrames == NoFrames > 8 /\ NoFrames \in Nat
BY MacAssumption, TimeAssumption

LEMMA DueIs ==
  ASSUME NEW p \in Packets
  PROVE  due(p) \in Times /\ due(p).frame = p.frame /\ due(p).subframe = p.subframe
BY DEF due, At, Times, Packets

LEMMA ControlPacket ==
  ASSUME NEW kind \in Control, NEW f \in Frames, NEW sf \in Subframes, NEW b \in {0, 1},
         NEW c \in {1, 2}
  PROVE  fillControl(kind, f, sf, b, c) \in Packets
<1>1. 0 \in 0 .. MaxHARQ - 1
  BY MacAssumption
<1> QED BY <1>1 DEF fillControl, Packets, Kinds

LEMMA DciBit ==
  ASSUME NEW f \in Frames, NEW sf \in Subframes
  PROVE  dciNDI(f, sf) \in {0, 1}
<1>1. f \in Nat /\ sf \in Nat
  BY DEF Frames, Subframes
<1> QED BY <1>1 DEF dciNDI

LEMMA EmptyList ==
  /\ Len(EmptySubF) \in Nat
  /\ EmptySubF # <<>> => Len(EmptySubF) >= 1
  /\ \A i \in 1 .. Len(EmptySubF) : EmptySubF[i] \in Subframes
  /\ \A i, j \in 1 .. Len(EmptySubF) : i < j => EmptySubF[i] < EmptySubF[j]
BY MacAssumption DEF Subframes

LEMMA AddedIs ==
  ASSUME NEW Q, NEW p
  PROVE  added(Q, p) = Q \/ added(Q, p) = Q \union {p}
BY DEF added

\* A data packet has its type, and is due when it was scheduled.
LEMMA DataPacket ==
  ASSUME MacTypeOK, NEW kind \in Data, NEW t \in Times
  PROVE  /\ dataPacket(kind, t) \in Packets
         /\ due(dataPacket(kind, t)) = t
         /\ dataPacket(kind, t).kind = kind
<1>1. dataPacket(kind, t) \in Packets
  BY TimeFields DEF dataPacket, MacTypeOK, Packets, Kinds
<1>2. due(dataPacket(kind, t)) = t
  BY DEF due, dataPacket, At, Times
<1> QED BY <1>1, <1>2 DEF dataPacket

LEMMA HARQStays ==
  ASSUME MacTypeOK, updateHARQ
  PROVE  lastHARQ' \in 0 .. MaxHARQ - 1 /\ lastNDI' \in {0, 1}
BY MacAssumption DEF MacTypeOK, updateHARQ

(***************************************************************************)
(* The successor of a packet due now is in the window, of the same kind,   *)
(* and an empty subframe is the one the advanced nextESF points to.        *)
(***************************************************************************)
advancedESF == IF nextESF = Len(EmptySubF) THEN 1 ELSE nextESF + 1

LEMMA Successor ==
  ASSUME MacTypeOK, NEW p \in Packets, due(p) = now, NEW n \in followUp(p),
         p.kind = "EMPTY" => nextESF >= 1 /\ p.subframe = EmptySubF[nextESF]
  PROVE  /\ n \in Packets
         /\ n.kind = p.kind /\ n.kind \in Control
         /\ within(now, due(n), 8)
         /\ n.kind = "EMPTY" => n.subframe = EmptySubF[advancedESF]
<1>1. /\ p.kind \in Kinds /\ p.copy \in {1, 2}
      /\ p.frame = now.frame /\ p.subframe = now.subframe
      /\ now \in Times /\ now.frame \in Frames /\ now.subframe \in Subframes
  BY DueIs, TimeFields DEF MacTypeOK, Packets
<1>2. ASSUME NEW kind \in Control, NEW j \in 1 .. 8, NEW sf \in Subframes,
             NEW b \in {0, 1}, NEW c \in {1, 2}, kind = p.kind,
             n = fillControl(kind, plusFrames(p.frame, j), sf, b, c)
      PROVE  /\ n \in Packets /\ n.kind = p.kind /\ n.kind \in Control
             /\ n.subframe = sf
             /\ within(now, due(n), 8)
  <2>1. j \in 0 .. NoFrames
    BY ManyFrames
  <2>2. plusFrames(p.frame, j) \in Frames
    BY <1>1, <2>1, PlusFramesIs
  <2>3. due(n) = At(plusFrames(p.frame, j), sf) /\ n.kind = kind /\ n.subframe = sf
    BY <1>2 DEF due, fillControl, At
  <2>4. n \in Packets
    BY <1>2, <2>2, ControlPacket
  <2>5. within(now, due(n), 8)
    BY <1>1, <2>3, WindowAhead, ManyFrames
  <2> QED BY <1>2, <2>3, <2>4, <2>5
<1>3. CASE p.kind = "SIB2"
  <2>1. n = fillControl("SIB2", plusFrames(p.frame, 8), SIB2SF, 0, 1)
    BY <1>3 DEF followUp, fill_SIB2
  <2>2. SIB2SF \in Subframes /\ 8 \in 1 .. 8
    BY MacAssumption DEF Subframes
  <2> QED BY <1>2, <1>3, <2>1, <2>2 DEF Control
<1>4. CASE p.kind = "RAR"
  <2>1. n = fillControl("RAR", plusFrames(p.frame, 1), 6, 0, 1)
    BY <1>4 DEF followUp, fill_RAR, RAR_SUBFRAME
  <2>2. 6 \in Subframes /\ 1 \in 1 .. 8
    BY DEF Subframes
  <2> QED BY <1>2, <1>4, <2>1, <2>2 DEF Control
<1>5. CASE p.kind = "SIB1"
  <2>1. n = fillControl("SIB1", plusFrames(p.frame, 2), SIB1SF, 0, 1)
    BY <1>5 DEF followUp, fill_SIB1
  <2>2. SIB1SF \in Subframes /\ 2 \in 1 .. 8
    BY MacAssumption DEF Subframes
  <2> QED BY <1>2, <1>5, <2>1, <2>2 DEF Control
<1>6. CASE p.kind = "DCI0"
  <2> DEFINE g == plusFrames(p.frame, 1)
  <2>1. n = fillControl("DCI0", g, 0, dciNDI(g, 0), p.copy)
    BY <1>6 DEF followUp, fill_DCI0
  <2>2. g \in Frames
    BY <1>1, NextFrameIs
  <2>3. 0 \in Subframes /\ 1 \in 1 .. 8
    BY DEF Subframes
  <2>4. dciNDI(g, 0) \in {0, 1}
    <3> HIDE DEF g
    <3> QED BY <2>2, <2>3, DciBit
  <2> QED BY <1>1, <1>2, <1>6, <2>1, <2>3, <2>4 DEF Control
<1>7. CASE p.kind = "EMPTY"
  <2>1. nextESF \in 1 .. Len(EmptySubF) /\ now.subframe = EmptySubF[nextESF]
    BY <1>1, <1>7, EmptyList DEF MacTypeOK
  <2>2. n = schedule_EMPTY(p.frame)
    BY <1>7 DEF followUp
  <2>3. CASE nextESF = Len(EmptySubF)
    <3>1. n = fillControl("EMPTY", plusFrames(p.frame, 1), EmptySubF[1], 0, 1)
      BY <2>2, <2>3 DEF schedule_EMPTY, fill_EMPTY
    <3>2. EmptySubF[1] \in Subframes /\ 1 \in 1 .. 8
      BY <2>1, EmptyList
    <3>3. /\ n \in Packets /\ n.kind = "EMPTY" /\ n.subframe = EmptySubF[1]
          /\ within(now, due(n), 8)
      BY <1>2, <1>7, <3>1, <3>2 DEF Control
    <3> QED BY <1>7, <2>3, <3>3 DEF advancedESF, Control
  <2>4. CASE nextESF # Len(EmptySubF)
    <3> DEFINE sf == EmptySubF[nextESF + 1]
    <3>1. n = fillControl("EMPTY", now.frame, sf, 0, 1)
      BY <1>1, <2>2, <2>4 DEF schedule_EMPTY, fill_EMPTY
    <3>2. nextESF + 1 \in 1 .. Len(EmptySubF) /\ nextESF < nextESF + 1
      BY <2>1, <2>4, EmptyList
    <3>3. sf \in Subframes /\ now.subframe < sf
      BY <2>1, <3>2, EmptyList
    <3> HIDE DEF sf
    <3>4. n \in Packets
      BY <1>1, <3>1, <3>3, ControlPacket DEF Control
    <3>5. n.kind = "EMPTY" /\ n.frame = now.frame /\ n.subframe = sf
      BY <3>1 DEF fillControl
    <3>6. within(now, due(n), 8)
      BY <1>1, <3>3, <3>4, <3>5, DueIs DEF within, Subframes
    <3> QED BY <1>7, <2>4, <3>4, <3>5, <3>6 DEF advancedESF, Control, sf
  <2> QED BY <2>3, <2>4
<1>8. CASE p.kind \in Data
  BY <1>8 DEF followUp, Data
<1> QED BY <1>1, <1>3, <1>4, <1>5, <1>6, <1>7, <1>8 DEF Kinds, Control

----------------------------------------------------------------------------
LEMMA InitEstablishes == Init => MacInv
<1> SUFFICES ASSUME Init PROVE MacInv
  OBVIOUS
<1> USE DEF Init
<1>0. 0 \in Frames /\ 0 \in Subframes
  BY ManyFrames DEF Frames, Subframes
<1>1. now \in Times /\ now.frame = 0 /\ now.subframe = 0
  BY <1>0, AtIsTime
<1>2. ASSUME NEW p \in outQueue
      PROVE  /\ p \in Packets /\ p.frame = 0 /\ p.kind \in Control
             /\ p.kind = "EMPTY" => /\ p = fill_EMPTY(0, EmptySubF[1])
                                    /\ nextESF = 1 /\ p.subframe = EmptySubF[1]
  <2>1. PICK kind \in Control, sf \in Subframes, b \in {0, 1}, c \in {1, 2} :
          /\ p = fillControl(kind, 0, sf, b, c)
          /\ kind = "EMPTY" => EmptySubF # <<>> /\ p = fill_EMPTY(0, EmptySubF[1])
    <3>1. SIB1SF \in Subframes /\ SIB2SF \in Subframes /\ 6 \in Subframes
      BY MacAssumption DEF Subframes
    <3>2. dciNDI(0, 0) \in {0, 1}
      BY <1>0, DciBit
    <3>3. CASE p = fill_SIB2(0)
      BY <3>1, <3>3 DEF fill_SIB2, Control
    <3>4. CASE p = fill_RAR(0)
      BY <3>1, <3>4 DEF fill_RAR, RAR_SUBFRAME, Control
    <3>5. CASE p = fill_SIB1(0)
      BY <3>1, <3>5 DEF fill_SIB1, Control
    <3>6. CASE \E c \in {1, 2} : p = fill_DCI0(0, 0, c)
      BY <1>0, <3>2, <3>6 DEF fill_DCI0, Control
    <3>7. CASE EmptySubF # <<>> /\ p = fill_EMPTY(0, EmptySubF[1])
      <4>1. EmptySubF[1] \in Subframes
        BY <3>7, EmptyList
      <4> QED BY <3>7, <4>1 DEF fill_EMPTY, Control
    <3> QED BY <3>3, <3>4, <3>5, <3>6, <3>7 DEF initialPackets
  <2>2. p \in Packets
    BY <1>0, <2>1, ControlPacket
  <2>3. p.kind = kind /\ p.frame = 0
    BY <2>1 DEF fillControl
  <2>4. ASSUME kind = "EMPTY" PROVE nextESF = 1 /\ p.subframe = EmptySubF[1]
    BY <2>1, <2>4 DEF fill_EMPTY, fillControl
  <2> QED BY <2>1, <2>2, <2>3, <2>4
<1>3. MacTypeOK
  <2>1. nextESF \in 0 .. Len(EmptySubF)
    BY EmptyList
  <2> QED BY <1>1, <1>2, <2>1, MacAssumption DEF MacTypeOK
<1>4. QueueNeverStale
  <2> SUFFICES ASSUME NEW p \in outQueue PROVE within(now, due(p), 8) /\ p.kind \notin Data
    BY DEF QueueNeverStale
  <2>1. p \in Packets /\ p.frame = 0 /\ p.kind \in Control
    BY <1>2
  <2>2. p.subframe >= 0
    BY <2>1 DEF Packets, Subframes
  <2> QED BY <1>1, <2>1, <2>2, DueIs DEF within, Control, Data
<1>5. LastTimes
  <2>1. within(now, now, MaxTimeHorizon + 1)
    BY <1>1 DEF within
  <2> QED BY <2>1 DEF LastTimes, recent
<1>6. Handed
  BY DEF Handed
<1>7. EmptyChain
  BY <1>2 DEF EmptyChain
<1> QED BY <1>3, <1>4, <1>5, <1>6, <1>7 DEF MacInv

----------------------------------------------------------------------------
(* The steps that schedule a data packet. *)

LEMMA DataAdded ==
  ASSUME MacInv, pc \in {"rrc", "ip"},
         NEW d \in Packets, d.kind \in Data, within(now, due(d), MaxTimeHorizon + 1),
         outQueue' = added(outQueue, d), UNCHANGED <<now, pc, nextESF, buf>>
  PROVE  outQueue' \subseteq Packets /\ QueueNeverStale' /\ Handed' /\ EmptyChain'
<1>1. outQueue' \subseteq outQueue \union {d}
  BY AddedIs
<1>2. outQueue' \subseteq Packets
  BY <1>1 DEF MacInv, MacTypeOK
<1>3. QueueNeverStale'
  BY <1>1 DEF MacInv, QueueNeverStale, due
<1>4. Handed'
  BY DEF MacInv, Handed
<1>5. EmptyChain'
  BY <1>1 DEF MacInv, EmptyChain, Data
<1> QED BY <1>2, <1>3, <1>4, <1>5

LEMMA RrcAnswerKeeps == MacInv /\ RrcAnswer => MacInv'
<1> SUFFICES ASSUME MacInv, RrcAnswer PROVE MacInv'
  OBVIOUS
<1> DEFINE t == nextRRCSubframe(lastRRC)
           d == dataPacket("RRC", t)
<1>1. MacTypeOK /\ now \in Times /\ lastRRC \in Times /\ recent(now, lastRRC)
  BY DEF MacInv, MacTypeOK, LastTimes, RrcAnswer
<1>2. t \in Times /\ within(now, t, MaxTimeHorizon + 1)
  BY <1>1, NextRRCIs, HorizonInWindow, ManyFrames DEF RrcAnswer
<1>3. d \in Packets /\ due(d) = t /\ d.kind \in Data
  BY <1>1, <1>2, DataPacket DEF Data
<1>4. outQueue' \subseteq Packets /\ QueueNeverStale' /\ Handed' /\ EmptyChain'
  <2> HIDE DEF t
  <2>1. outQueue' = added(outQueue, d) /\ pc \in {"rrc", "ip"}
        /\ UNCHANGED <<now, pc, nextESF, buf>>
    BY DEF RrcAnswer, t
  <2> HIDE DEF d
  <2> QED BY <1>2, <1>3, <2>1, DataAdded
<1>5. MacTypeOK'
  <2>1. lastHARQ' \in 0 .. MaxHARQ - 1 /\ lastNDI' \in {0, 1}
    BY <1>1, HARQStays DEF RrcAnswer
  <2>2. rxQueue' \in Seq(Uplink) /\ Len(rxQueue') <= RxQueueSize
    BY <1>1, MacAssumption DEF RrcAnswer, MacTypeOK
  <2> QED BY <1>1, <1>2, <1>4, <2>1, <2>2 DEF RrcAnswer, MacTypeOK
<1>6. LastTimes'
  BY <1>2 DEF RrcAnswer, MacInv, LastTimes, recent
<1> QED BY <1>4, <1>5, <1>6 DEF MacInv

LEMMA IpScheduleKeeps == MacInv /\ IpSchedule => MacInv'
<1> SUFFICES ASSUME MacInv, IpSchedule PROVE MacInv'
  OBVIOUS
<1> DEFINE t == nextIPSubframe(lastIP)
           d == dataPacket("IP", t)
<1>1. MacTypeOK /\ now \in Times /\ lastIP \in Times /\ recent(now, lastIP)
  BY DEF MacInv, MacTypeOK, LastTimes, IpSchedule
<1>2. t \in Times /\ within(now, t, MaxTimeHorizon + 1)
  BY <1>1, NextIPIs, HorizonInWindow, ManyFrames DEF IpSchedule
<1>3. d \in Packets /\ due(d) = t /\ d.kind \in Data
  BY <1>1, <1>2, DataPacket DEF Data
<1>4. outQueue' \subseteq Packets /\ QueueNeverStale' /\ Handed' /\ EmptyChain'
  <2> HIDE DEF t
  <2>1. outQueue' = added(outQueue, d) /\ pc \in {"rrc", "ip"}
        /\ UNCHANGED <<now, pc, nextESF, buf>>
    BY DEF IpSchedule, t
  <2> HIDE DEF d
  <2> QED BY <1>2, <1>3, <2>1, DataAdded
<1>5. MacTypeOK'
  <2>1. lastHARQ' \in 0 .. MaxHARQ - 1 /\ lastNDI' \in {0, 1}
    BY <1>1, HARQStays DEF IpSchedule
  <2> QED BY <1>1, <1>2, <1>4, <2>1 DEF IpSchedule, MacTypeOK, envVars
<1>6. LastTimes'
  BY <1>2 DEF IpSchedule, MacInv, LastTimes, recent
<1> QED BY <1>4, <1>5, <1>6 DEF MacInv

----------------------------------------------------------------------------
(* The steps that leave the packets alone. *)

LEMMA PacketsUntouched ==
  ASSUME MacInv, UNCHANGED <<now, outQueue, nextESF, buf>>,
         pc' = pc \/ (pc # "phy" /\ pc' \in {"ip", "emit"} /\ (pc' = "ip" => pc = "rrc"))
  PROVE  QueueNeverStale' /\ Handed' /\ EmptyChain'
<1>1. QueueNeverStale'
  BY DEF MacInv, QueueNeverStale, due
<1>2. Handed'
  BY DEF MacInv, Handed
<1>3. EmptyChain'
  BY DEF MacInv, EmptyChain
<1> QED BY <1>1, <1>2, <1>3

LEMMA RrcIgnoreKeeps == MacInv /\ RrcIgnore => MacInv'
<1> SUFFICES ASSUME MacInv, RrcIgnore PROVE MacInv'
  OBVIOUS
<1>1. QueueNeverStale' /\ Handed' /\ EmptyChain'
  BY PacketsUntouched DEF RrcIgnore
<1>2. MacTypeOK'
  <2>1. rxQueue' \in Seq(Uplink) /\ Len(rxQueue') <= RxQueueSize
    BY MacAssumption DEF MacInv, RrcIgnore, MacTypeOK
  <2> QED BY <2>1 DEF MacInv, RrcIgnore, MacTypeOK, harqVars
<1>3. LastTimes'
  BY DEF RrcIgnore, MacInv, LastTimes, recent
<1> QED BY <1>1, <1>2, <1>3 DEF MacInv

LEMMA RrcLeaveKeeps == MacInv /\ (RrcFull \/ RrcDone) => MacInv'
<1> SUFFICES ASSUME MacInv, RrcFull \/ RrcDone PROVE MacInv'
  OBVIOUS
<1>0. /\ pc = "rrc" /\ pc' = "ip" /\ lastRRC' = notLagging(now, lastRRC)
      /\ UNCHANGED <<now, outQueue, harqVars, lastIP, nextESF, buf, uplinks>>
  BY DEF RrcFull, RrcDone, leaveRRC, envVars
<1>1. QueueNeverStale' /\ Handed' /\ EmptyChain'
  BY <1>0, PacketsUntouched
<1>2. now \in Times /\ lastRRC \in Times /\ recent(now, lastRRC) /\ recent(now, lastIP)
  BY <1>0 DEF MacInv, MacTypeOK, LastTimes
<1>3. MacTypeOK'
  <2>1. rxQueue' \in Seq(Uplink) /\ Len(rxQueue') <= RxQueueSize
    BY MacAssumption DEF MacInv, RrcFull, RrcDone, envVars, MacTypeOK
  <2>2. lastRRC' \in Times
    BY <1>0, <1>2, NotLaggingIsTime
  <2> QED BY <1>0, <2>1, <2>2 DEF MacInv, MacTypeOK, harqVars
<1>4. LastTimes'
  <2>1. within(now, lastRRC', MaxTimeHorizon + 1)
    BY <1>0, <1>2, NotLaggingInWindow, ManyFrames
  <2> QED BY <1>0, <1>2, <2>1 DEF LastTimes, recent
<1> QED BY <1>1, <1>3, <1>4 DEF MacInv

LEMMA IpDoneKeeps == MacInv /\ IpDone => MacInv'
<1> SUFFICES ASSUME MacInv, IpDone PROVE MacInv'
  OBVIOUS
<1>0. /\ pc = "ip" /\ pc' = "emit" /\ lastIP' = notLagging(now, lastIP)
      /\ UNCHANGED <<now, outQueue, harqVars, lastRRC, nextESF, buf, envVars>>
  BY DEF IpDone
<1>1. QueueNeverStale' /\ Handed' /\ EmptyChain'
  BY <1>0, PacketsUntouched
<1>2. /\ now \in Times /\ lastIP \in Times /\ recent(now, lastIP)
      /\ within(now, lastRRC, MaxTimeHorizon + 1)
  BY <1>0 DEF MacInv, MacTypeOK, LastTimes
<1>3. MacTypeOK'
  <2>1. lastIP' \in Times
    BY <1>0, <1>2, NotLaggingIsTime
  <2> QED BY <1>0, <2>1 DEF MacInv, MacTypeOK, harqVars, envVars
<1>4. LastTimes'
  <2>1. within(now, lastIP', MaxTimeHorizon + 1)
    BY <1>0, <1>2, NotLaggingInWindow, ManyFrames
  <2> QED BY <1>0, <1>2, <2>1 DEF LastTimes
<1> QED BY <1>1, <1>3, <1>4 DEF MacInv

LEMMA UplinkPutKeeps == MacInv /\ UplinkPut => MacInv'
<1> SUFFICES ASSUME MacInv, UplinkPut PROVE MacInv'
  OBVIOUS
<1>1. QueueNeverStale' /\ Handed' /\ EmptyChain'
  BY PacketsUntouched DEF UplinkPut
<1>2. MacTypeOK'
  <2>1. rxQueue' \in Seq(Uplink) /\ Len(rxQueue') <= RxQueueSize
    BY MacAssumption DEF MacInv, UplinkPut, MacTypeOK
  <2>2. uplinks' \in 0 .. MaxUplink
    BY MacAssumption DEF MacInv, UplinkPut, MacTypeOK
  <2> QED BY <2>1, <2>2 DEF MacInv, UplinkPut, MacTypeOK, harqVars
<1>3. LastTimes'
  BY DEF UplinkPut, MacInv, LastTimes, recent
<1> QED BY <1>1, <1>2, <1>3 DEF MacInv

----------------------------------------------------------------------------
(* The steps of a subframe. *)

LEMMA EmitKeeps == MacInv /\ Emit => MacInv'
<1> SUFFICES ASSUME MacInv, Emit PROVE MacInv'
  OBVIOUS
<1>1. PICK p \in dueNow \ buf :
        /\ pc = "emit"
        /\ buf' = buf \union {p}
        /\ \/ \E n \in followUp(p) : outQueue' = added(outQueue, n)
           \/ followUp(p) = {} /\ UNCHANGED outQueue
        /\ nextESF' = IF p.kind # "EMPTY" THEN nextESF
                      ELSE IF nextESF = Len(EmptySubF) THEN 1 ELSE nextESF + 1
        /\ UNCHANGED <<now, pc, harqVars, lastRRC, lastIP, envVars>>
  BY DEF Emit
<1>2. /\ p \in outQueue \ buf /\ due(p) = now /\ p \in Packets
      /\ p.kind = "EMPTY" => nextESF >= 1 /\ p.subframe = EmptySubF[nextESF]
  BY DEF dueNow, MacInv, MacTypeOK, EmptyChain
<1>3. ASSUME NEW q \in outQueue', q \notin outQueue
      PROVE  /\ q \in Packets
             /\ q.kind = p.kind /\ q.kind \in Control
             /\ within(now, due(q), 8)
             /\ q.kind = "EMPTY" => q.subframe = EmptySubF[advancedESF]
             /\ \A r \in outQueue' : r \in outQueue \/ r = q
  <2>1. PICK n \in followUp(p) : outQueue' = added(outQueue, n)
    BY <1>1, <1>3
  <2>2. q = n /\ \A r \in outQueue' : r \in outQueue \/ r = q
    BY <1>3, <2>1, AddedIs
  <2> QED BY <1>2, <2>1, <2>2, Successor DEF MacInv
<1>4. MacTypeOK'
  <2>1. outQueue' \subseteq Packets /\ buf' \subseteq Packets
    BY <1>1, <1>2, <1>3 DEF MacInv, MacTypeOK
  <2>2. nextESF' \in 0 .. Len(EmptySubF)
    BY <1>1, <1>2, EmptyList DEF MacInv, MacTypeOK
  <2> QED BY <1>1, <2>1, <2>2 DEF MacInv, MacTypeOK, harqVars, envVars
<1>5. QueueNeverStale'
  <2> SUFFICES ASSUME NEW q \in outQueue'
               PROVE  within(now, due(q), IF q.kind \in Data THEN MaxTimeHorizon + 1 ELSE 8)
    BY <1>1 DEF QueueNeverStale, due
  <2>1. CASE q \in outQueue
    BY <2>1 DEF MacInv, QueueNeverStale
  <2>2. CASE q \notin outQueue
    BY <1>3, <2>2 DEF Control, Data
  <2> QED BY <2>1, <2>2
<1>6. LastTimes'
  BY <1>1 DEF MacInv, LastTimes, recent
<1>7. Handed'
  BY <1>1, <1>2 DEF MacInv, Handed, due
<1>8. EmptyChain'
  <2> SUFFICES ASSUME NEW q \in outQueue' \ buf', q.kind = "EMPTY"
               PROVE  /\ nextESF' >= 1
                      /\ q.subframe = EmptySubF[nextESF']
                      /\ \A r \in outQueue' \ buf' : r.kind = "EMPTY" => r = q
    BY DEF EmptyChain
  <2>1. CASE p.kind = "EMPTY"
    <3>1. ASSUME NEW r \in outQueue, r \notin buf', r.kind = "EMPTY" PROVE FALSE
      BY <1>1, <1>2, <2>1, <3>1 DEF MacInv, EmptyChain
    <3>2. q \notin outQueue
      BY <3>1
    <3>3. nextESF' = advancedESF /\ nextESF' >= 1
      BY <1>1, <1>2, <2>1, EmptyList DEF advancedESF, MacInv, MacTypeOK
    <3> QED BY <1>3, <3>1, <3>2, <3>3
  <2>2. CASE p.kind # "EMPTY"
    <3>1. ASSUME NEW r \in outQueue', r.kind = "EMPTY" PROVE r \in outQueue
      BY <1>3, <2>2, <3>1
    <3> QED BY <1>1, <2>2, <3>1 DEF MacInv, EmptyChain
  <2> QED BY <2>1, <2>2
<1> QED BY <1>4, <1>5, <1>6, <1>7, <1>8 DEF MacInv

LEMMA EmitDoneKeeps == MacInv /\ EmitDone => MacInv'
<1> SUFFICES ASSUME MacInv, EmitDone PROVE MacInv'
  OBVIOUS
<1>1. MacTypeOK'
  BY DEF MacInv, MacTypeOK, EmitDone, harqVars, envVars
<1>2. QueueNeverStale'
  BY DEF MacInv, QueueNeverStale, EmitDone, dueNow, due
<1>3. LastTimes'
  BY DEF MacInv, LastTimes, recent, EmitDone
<1>4. Handed'
  BY DEF MacInv, Handed, EmitDone, due, dueNow
<1>5. EmptyChain'
  BY DEF MacInv, EmptyChain, EmitDone
<1> QED BY <1>1, <1>2, <1>3, <1>4, <1>5 DEF MacInv

\* The PHY moves on by one subframe: nothing that is due now is left behind.
LEMMA PhySubframeKeeps == MacInv /\ PhySubframe => MacInv'
<1> SUFFICES ASSUME MacInv, PhySubframe PROVE MacInv'
  OBVIOUS
<1>1. /\ pc = "phy" /\ pc' = "rrc" /\ now' = nextSubframe(now) /\ buf' = {}
      /\ outQueue' = outQueue /\ lastRRC' = lastRRC /\ lastIP' = lastIP
      /\ nextESF' = nextESF /\ uplinks' = 0
      /\ UNCHANGED <<harqVars, rxQueue>>
  BY DEF PhySubframe
<1>2. /\ now \in Times /\ lastRRC \in Times /\ lastIP \in Times
      /\ within(now, lastRRC, MaxTimeHorizon + 1)
      /\ within(now, lastIP, MaxTimeHorizon + 1)
  BY <1>1 DEF MacInv, MacTypeOK, LastTimes
<1>3. MacTypeOK'
  <2>1. now' \in Times
    BY <1>1, <1>2, NextSubframeIsTime
  <2>2. uplinks' \in 0 .. MaxUplink
    BY <1>1, MacAssumption
  <2> QED BY <1>1, <2>1, <2>2 DEF MacInv, MacTypeOK, harqVars
<1>4. QueueNeverStale'
  <2> SUFFICES ASSUME NEW p \in outQueue
               PROVE  within(nextSubframe(now), due(p),
                             IF p.kind \in Data THEN MaxTimeHorizon + 1 ELSE 8)
    BY <1>1 DEF QueueNeverStale, due
  <2> DEFINE k == IF p.kind \in Data THEN MaxTimeHorizon + 1 ELSE 8
  <2>1. within(now, due(p), k) /\ due(p) # now /\ due(p) \in Times
    BY <1>1, DueIs DEF MacInv, QueueNeverStale, MacTypeOK
  <2>2. k \in 0 .. NoFrames - 1
    BY ManyFrames, FramesPositive, HalfIsBeyondHorizon
  <2> HIDE DEF k
  <2>3. within(nextSubframe(now), due(p), k)
    BY <1>2, <2>1, <2>2, WindowAdvances
  <2> QED BY <2>3 DEF k
<1>5. LastTimes'
  <2>1. recent(nextSubframe(now), lastRRC) /\ recent(nextSubframe(now), lastIP)
    BY <1>2, RecentAdvances
  <2> QED BY <1>1, <2>1 DEF LastTimes, recent
<1>6. Handed'
  BY <1>1 DEF Handed
<1>7. EmptyChain'
  BY <1>1 DEF MacInv, EmptyChain, Handed
<1> QED BY <1>3, <1>4, <1>5, <1>6, <1>7 DEF MacInv

LEMMA StutterKeeps == MacInv /\ UNCHANGED vars => MacInv'
BY DEF MacInv, MacTypeOK, QueueNeverStale, LastTimes, recent, Handed, EmptyChain, due,
       vars, harqVars, envVars

----------------------------------------------------------------------------
LEMMA MacInvHolds == Spec => []MacInv
<1>1. Init => MacInv
  BY InitEstablishes
<1>2. MacInv /\ [Next]_vars => MacInv'
  BY RrcIgnoreKeeps, RrcAnswerKeeps, RrcLeaveKeeps, IpScheduleKeeps, IpDoneKeeps,
     EmitKeeps, EmitDoneKeeps, PhySubframeKeeps, UplinkPutKeeps, StutterKeeps
  DEF Next, txStep
<1> QED BY <1>1, <1>2, PTL DEF Spec

\* The scheduler's state keeps its types: HARQ process and NDI stay in range,
\* nextESF stays an index of the list of empty subframes, and every packet
\* queued or handed to the PHY is a well-formed one.
THEOREM MacTypeCorrect == Spec => []MacTypeOK
<1>1. MacInv => MacTypeOK
  BY DEF MacInv
<1> QED BY <1>1, MacInvHolds, PTL

\* No packet is left behind in the out queue, for every horizon, every number
\* of frames, every list of data and empty subframes and every queue size.
THEOREM QueueIsNeverStale == Spec => []QueueNeverStale
<1>1. MacInv => QueueNeverStale
  BY DEF MacInv
<1> QED BY <1>1, MacInvHolds, PTL

----------------------------------------------------------------------------
(* Few packets: the queue is never full, if it has enough slots. *)

\* A packet lies in a subframe of its kind.
InPlace(p) ==
  CASE p.kind \in Control -> Schedule!Belongs(p.kind, due(p))
    [] p.kind = "RRC"     -> p.subframe = 2
    [] p.kind = "IP"      -> p.subframe \in DataSubF

AtMostOneEach(S) == \A p, q \in S : p.kind = q.kind => p = q

IsControl(S) == {p \in S : p.kind \in Control}
Stream(S, k) == {p \in S : p.kind = k}

(***************************************************************************)
(* What bounds the number of packets: at time t the packets Q are queued   *)
(* and the packets B handed over.                                          *)
(***************************************************************************)
Sparse(Q, B, t) ==
  /\ Q \subseteq Packets
  /\ \A p \in Q \union B : InPlace(p)
  /\ AtMostOneEach(IsControl(Q \ B)) /\ AtMostOneEach(B)
  /\ \A p \in B : due(p) = t
  /\ \A p \in Q : p.kind \in Data => within(t, due(p), MaxTimeHorizon + 1)
  /\ \A p, q \in Q : p.kind \in Data /\ p.kind = q.kind /\ due(p) = due(q) => p = q

LEMMA BelongsIs ==
  ASSUME NEW t
  PROVE  /\ Schedule!Belongs("SIB2", t) <=> t.subframe = SIB2SF /\ t.frame % 8 = 0
         /\ Schedule!Belongs("SIB1", t) <=> t.subframe = SIB1SF /\ t.frame % 2 = 0
         /\ Schedule!Belongs("RAR", t) <=> t.subframe = RAR_SUBFRAME
         /\ Schedule!Belongs("DCI0", t) <=> t.subframe = 0
         /\ Schedule!Belongs("EMPTY", t)
              <=> \E i \in DOMAIN EmptySubF : t.subframe = EmptySubF[i]
BY DEF Schedule!Belongs

LEMMA ControlInPlace ==
  ASSUME NEW p, p.kind \in Control
  PROVE  InPlace(p) <=> Schedule!Belongs(p.kind, due(p))
<1> DEFINE b == Schedule!Belongs(p.kind, due(p))
<1>1. p.kind # "RRC" /\ p.kind # "IP"
  BY DEF Control
<1>2. InPlace(p) = b
  <2> HIDE DEF b
  <2> SUFFICES (CASE p.kind \in Control -> b
                  [] p.kind = "RRC"     -> p.subframe = 2
                  [] p.kind = "IP"      -> p.subframe \in DataSubF) = b
    BY DEF InPlace, b
  <2> QED BY <1>1
<1> QED BY <1>2

LEMMA FiveControls == IsFiniteSet(Control) /\ Cardinality(Control) = 5
<1>1. /\ IsFiniteSet({"SIB1"}) /\ Cardinality({"SIB1"}) = 1
  BY FS_Singleton
<1>2. /\ IsFiniteSet({"SIB1"} \union {"SIB2"})
      /\ Cardinality({"SIB1"} \union {"SIB2"}) = 2
  BY <1>1, FS_AddElement
<1>3. /\ IsFiniteSet(({"SIB1"} \union {"SIB2"}) \union {"RAR"})
      /\ Cardinality(({"SIB1"} \union {"SIB2"}) \union {"RAR"}) = 3
  BY <1>2, FS_AddElement
<1>4. /\ IsFiniteSet((({"SIB1"} \union {"SIB2"}) \union {"RAR"}) \union {"DCI0"})
      /\ Cardinality((({"SIB1"} \union {"SIB2"}) \union {"RAR"}) \union {"DCI0"}) = 4
  BY <1>3, FS_AddElement
<1>5. /\ IsFiniteSet(((({"SIB1"} \union {"SIB2"}) \union {"RAR"}) \union {"DCI0"}) \union {"EMPTY"})
      /\ Cardinality(((({"SIB1"} \union {"SIB2"}) \union {"RAR"}) \union {"DCI0"}) \union {"EMPTY"}) = 5
  BY <1>4, FS_AddElement
<1>6. Control = ((({"SIB1"} \union {"SIB2"}) \union {"RAR"}) \union {"DCI0"}) \union {"EMPTY"}
  BY DEF Control
<1> QED BY <1>5, <1>6

\* At most one packet of each kind of K.
LEMMA KindsBound ==
  ASSUME NEW S, NEW K, IsFiniteSet(K), AtMostOneEach(S), \A p \in S : p.kind \in K
  PROVE  IsFiniteSet(S) /\ Cardinality(S) <= Cardinality(K)
<1> DEFINE f == [p \in S |-> p.kind]
<1>1. f \in Injection(S, K)
  BY DEF AtMostOneEach, Injection, IsInjective
<1> QED BY <1>1, FS_Injection

LEMMA SumBound ==
  ASSUME NEW S, NEW T, IsFiniteSet(S), IsFiniteSet(T), NEW m \in Nat, NEW n \in Nat,
         Cardinality(S) <= m, Cardinality(T) <= n
  PROVE  IsFiniteSet(S \union T) /\ Cardinality(S \union T) <= m + n
<1>1. /\ IsFiniteSet(S \union T)
      /\ Cardinality(S \union T) = Cardinality(S) + Cardinality(T) - Cardinality(S \intersect T)
  BY FS_Union
<1>2. IsFiniteSet(S \intersect T)
  BY FS_Intersection
<1>3. Cardinality(S) \in Nat /\ Cardinality(T) \in Nat /\ Cardinality(S \intersect T) \in Nat
  BY <1>2, FS_CardinalityType
<1> QED BY <1>1, <1>3

LEMMA DataFinite ==
  /\ IsFiniteSet(DataSubF) /\ Cardinality(DataSubF) \in Nat
  /\ IsFiniteSet(0 .. MaxTimeHorizon + 1)
  /\ Cardinality(0 .. MaxTimeHorizon + 1) = MaxTimeHorizon + 2
<1>1. IsFiniteSet(0 .. 9)
  <2>1. 0 \in Int /\ 9 \in Int
    OBVIOUS
  <2> QED BY <2>1, FS_Interval
<1>2. IsFiniteSet(DataSubF)
  BY <1>1, FS_Subset, TimeAssumption
<1>3. /\ IsFiniteSet(0 .. MaxTimeHorizon + 1)
      /\ Cardinality(0 .. MaxTimeHorizon + 1) = MaxTimeHorizon + 2
  BY FramesPositive, FS_Interval
<1> QED BY <1>2, <1>3, FS_CardinalityType

\* The packets of a stream that lie in the subframes D.
LEMMA StreamBound ==
  ASSUME NEW t \in Times, NEW S \in SUBSET Packets, NEW D, IsFiniteSet(D),
         \A p \in S : within(t, due(p), MaxTimeHorizon + 1) /\ p.subframe \in D,
         \A p, q \in S : due(p) = due(q) => p = q
  PROVE  IsFiniteSet(S) /\ Cardinality(S) <= (MaxTimeHorizon + 2) * Cardinality(D)
<1> DEFINE H == 0 .. MaxTimeHorizon + 1
           f == [p \in S |-> <<framesAhead(t.frame, p.frame), p.subframe>>]
<1>1. ASSUME NEW p \in S
      PROVE  framesAhead(t.frame, p.frame) \in H
  <2>1. due(p) \in Times /\ due(p).frame = p.frame /\ within(t, due(p), MaxTimeHorizon + 1)
    BY DueIs
  <2>2. MaxTimeHorizon + 1 \in Nat
    BY FramesPositive
  <2> QED BY <2>1, <2>2, WithinIs
<1>2. f \in [S -> H \X D]
  BY <1>1
<1>3. ASSUME NEW p \in S, NEW q \in S, f[p] = f[q] PROVE p = q
  <2>1. framesAhead(t.frame, p.frame) = framesAhead(t.frame, q.frame) /\ p.subframe = q.subframe
    BY <1>3
  <2>2. /\ t.frame \in Frames /\ p.frame \in Frames /\ q.frame \in Frames
        /\ due(p) \in Times /\ due(q) \in Times
        /\ due(p).frame = p.frame /\ due(q).frame = q.frame
        /\ due(p).subframe = p.subframe /\ due(q).subframe = q.subframe
    BY DueIs, TimeFields
  <2>3. framesAhead(p.frame, q.frame) = 0
    BY <2>1, <2>2, AheadFrom, SameFrame
  <2>4. p.frame = q.frame
    BY <2>2, <2>3, SameFrame
  <2>5. due(p) = due(q)
    BY <2>1, <2>2, <2>4, TimeFields
  <2> QED BY <2>5
<1>4. f \in Injection(S, H \X D)
  <2> HIDE DEF f
  <2> QED BY <1>2, <1>3 DEF Injection, IsInjective
<1>5. /\ IsFiniteSet(H \X D)
      /\ Cardinality(H \X D) = (MaxTimeHorizon + 2) * Cardinality(D)
  BY DataFinite, FS_Product
<1> HIDE DEF f, H
<1> QED BY <1>4, <1>5, FS_Injection

LEMMA SparseFits ==
  ASSUME EnoughSlots, NEW t \in Times, NEW Q, NEW B, Sparse(Q, B, t)
  PROVE  IsFiniteSet(Q) /\ Cardinality(Q) <= QueueSize
<1> DEFINE pend == IsControl(Q \ B)
           sent == IsControl(Q \intersect B)
           rrcs == Stream(Q, "RRC")
           ips == Stream(Q, "IP")
           h == MaxTimeHorizon + 2
           d == Cardinality(DataSubF)
           c == Cardinality(ControlIn(t.subframe))
<1>1. IsFiniteSet(pend) /\ Cardinality(pend) <= 5
  <2>1. AtMostOneEach(pend) /\ \A p \in pend : p.kind \in Control
    BY DEF Sparse, IsControl
  <2> QED BY <2>1, KindsBound, FiveControls
<1>2. IsFiniteSet(ControlIn(t.subframe)) /\ c \in Nat
  <2>1. ControlIn(t.subframe) \in SUBSET Control
    BY DEF ControlIn
  <2>2. IsFiniteSet(ControlIn(t.subframe))
    BY <2>1, FiveControls, FS_Subset
  <2> QED BY <2>2, FS_CardinalityType
<1>3. IsFiniteSet(sent) /\ Cardinality(sent) <= c
  <2>1. AtMostOneEach(sent)
    BY DEF Sparse, IsControl, AtMostOneEach
  <2>2. ASSUME NEW p \in sent PROVE p.kind \in ControlIn(t.subframe)
    <3>1. p.kind \in Control /\ due(p) = t /\ InPlace(p)
      BY DEF Sparse, IsControl
    <3>4. Schedule!Belongs(p.kind, t)
      BY <3>1, ControlInPlace
    <3>2. t.subframe \in Subframes /\ At(0, t.subframe).subframe = t.subframe
          /\ At(0, t.subframe).frame = 0
      BY TimeFields DEF At
    <3>3. Schedule!Belongs(p.kind, At(0, t.subframe))
      BY <3>1, <3>2, <3>4, BelongsIs DEF Control
    <3> QED BY <3>1, <3>3 DEF ControlIn
  <2> QED BY <1>2, <2>1, <2>2, KindsBound
<1>4. h \in Nat /\ d \in Nat
  BY DataFinite, FramesPositive
<1>5. IsFiniteSet(rrcs) /\ Cardinality(rrcs) <= h
  <2>1. rrcs \in SUBSET Packets
    BY DEF Sparse, Stream
  <2>2. \A p \in rrcs : within(t, due(p), MaxTimeHorizon + 1) /\ p.subframe \in {2}
    BY DEF Sparse, Stream, InPlace, Data, Control
  <2>3. \A p, q \in rrcs : due(p) = due(q) => p = q
    BY DEF Sparse, Stream, Data
  <2>4. IsFiniteSet({2}) /\ Cardinality({2}) = 1
    BY FS_Singleton
  <2>5. IsFiniteSet(rrcs) /\ Cardinality(rrcs) <= (MaxTimeHorizon + 2) * Cardinality({2})
    <3> HIDE DEF rrcs
    <3> QED BY <2>1, <2>2, <2>3, <2>4, StreamBound
  <2> QED BY <1>4, <2>4, <2>5
<1>6. IsFiniteSet(ips) /\ Cardinality(ips) <= h * d
  <2>1. ips \in SUBSET Packets
    BY DEF Sparse, Stream
  <2>2. \A p \in ips : within(t, due(p), MaxTimeHorizon + 1) /\ p.subframe \in DataSubF
    BY DEF Sparse, Stream, InPlace, Data, Control
  <2>3. \A p, q \in ips : due(p) = due(q) => p = q
    BY DEF Sparse, Stream, Data
  <2> HIDE DEF ips
  <2> QED BY <2>1, <2>2, <2>3, DataFinite, StreamBound
<1>7. Q = ((pend \union sent) \union rrcs) \union ips
  <2>1. \A p \in Q : p.kind \in Control \/ p.kind = "RRC" \/ p.kind = "IP"
    BY DEF Sparse, Packets, Kinds, Data
  <2> QED BY <2>1 DEF IsControl, Stream
<1>8. h * d \in Nat /\ DataSlots = h + h * d
  BY <1>4 DEF DataSlots
<1> HIDE DEF pend, sent, rrcs, ips, h, d, c
<1> DEFINE e == h * d
           b == 5 + c
           a == b + h
<1>14. e \in Nat /\ b \in Nat /\ a \in Nat
  BY <1>2, <1>4, <1>8
<1>9. IsFiniteSet(pend \union sent) /\ Cardinality(pend \union sent) <= b
  BY <1>1, <1>2, <1>3, SumBound
<1>10. /\ IsFiniteSet((pend \union sent) \union rrcs)
       /\ Cardinality((pend \union sent) \union rrcs) <= a
  <2> HIDE DEF b
  <2> QED BY <1>4, <1>5, <1>9, <1>14, SumBound
<1>11. IsFiniteSet(Q) /\ Cardinality(Q) <= a + e
  <2> HIDE DEF a
  <2>1. Cardinality(ips) <= e
    BY <1>6
  <2> HIDE DEF e
  <2> QED BY <1>6, <1>7, <1>10, <1>14, <2>1, SumBound
<1>12. 5 + c + DataSlots <= QueueSize
  BY TimeFields DEF EnoughSlots, c
<1>13. Cardinality(Q) \in Nat /\ QueueSize \in Nat
  BY <1>11, FS_CardinalityType, MacAssumption
<1>15. Cardinality(Q) <= QueueSize
  <2>1. 5 + c + (h + e) <= QueueSize
    BY <1>8, <1>12
  <2> HIDE DEF e
  <2> QED BY <1>2, <1>4, <1>11, <1>13, <1>14, <2>1
<1> QED BY <1>11, <1>15

\* A packet is never dropped.
LEMMA SparseAdd ==
  ASSUME EnoughSlots, NEW t \in Times, NEW Q, NEW B, NEW p, Sparse(Q \union {p}, B, t)
  PROVE  added(Q, p) = Q \union {p}
<1>1. IsFiniteSet(Q \union {p}) /\ Cardinality(Q \union {p}) <= QueueSize
  BY SparseFits
<1>2. CASE p \in Q
  BY <1>2 DEF added
<1>3. CASE p \notin Q
  <2>1. IsFiniteSet(Q)
    BY <1>1, FS_Subset
  <2>2. Cardinality(Q \union {p}) = Cardinality(Q) + 1
    BY <1>3, <2>1, FS_AddElement
  <2>3. Cardinality(Q) \in Nat
    BY <2>1, FS_CardinalityType
  <2>4. Cardinality(Q) < QueueSize
    BY <1>1, <2>2, <2>3, MacAssumption
  <2> QED BY <2>4 DEF added
<1> QED BY <1>2, <1>3

----------------------------------------------------------------------------
(***************************************************************************)
(* The invariant.  Every control packet has one packet of its kind still   *)
(* to come (Chained), which is the next of its kind (OnTime): none was     *)
(* skipped, since none belongs between now and it.  The packets of a data  *)
(* stream lie before the last time of the stream (StreamOrder), so that    *)
(* the next one gets a subframe of its own.                                *)
(***************************************************************************)
Recurrent == {"SIB1", "SIB2", "RAR", "DCI0"}

period(k) == CASE k = "SIB2" -> 8 [] k = "SIB1" -> 2 [] k \in {"RAR", "DCI0"} -> 1

pending == outQueue \ buf
emitted(k) == \E q \in buf : q.kind = k

\* The recurrent packet p is the next of its kind.
Upcoming(p) ==
  IF emitted(p.kind)
  THEN p.frame = plusFrames(now.frame, period(p.kind)) /\ p.subframe = now.subframe
  ELSE sooner(now, due(p), period(p.kind))

\* So is the empty subframe p: those before it in the list are over.
EmptyIsNext(p) ==
  LET first == now.subframe + (IF emitted("EMPTY") THEN 1 ELSE 0) IN
  \/ /\ p.frame = now.frame /\ p.subframe >= first
     /\ \A j \in 1 .. Len(EmptySubF) : j < nextESF => EmptySubF[j] < first
  \/ /\ p.frame = plusFrames(now.frame, 1) /\ nextESF = 1
     /\ \A j \in 1 .. Len(EmptySubF) : EmptySubF[j] < first

Chained == \A k \in Control : \E p \in pending : p.kind = k

OnTime ==
  \A p \in pending : /\ p.kind \in Recurrent => Upcoming(p)
                     /\ p.kind = "EMPTY" => EmptyIsNext(p)

lastOf(k) == IF k = "RRC" THEN lastRRC ELSE lastIP

StreamOrder ==
  \A p \in outQueue :
    p.kind \in Data => within(due(p), lastOf(p.kind), MaxTimeHorizon + 1)

ScheduleInv ==
  /\ Sparse(outQueue, buf, now) /\ Chained /\ OnTime /\ StreamOrder
  /\ pc = "emit" => buf \subseteq outQueue

----------------------------------------------------------------------------
LEMMA PeriodIs ==
  ASSUME NEW k \in Recurrent
  PROVE  period(k) \in {1, 2, 8} /\ period(k) \in 1 .. 8
<1>1. CASE k = "SIB2"
  BY <1>1 DEF period
<1>2. CASE k = "SIB1"
  BY <1>2 DEF period
<1>3. CASE k \in {"RAR", "DCI0"}
  BY <1>3 DEF period
<1> QED BY <1>1, <1>2, <1>3 DEF Recurrent

Home(k) == CASE k = "SIB2" -> SIB2SF [] k = "SIB1" -> SIB1SF
             [] k = "RAR" -> RAR_SUBFRAME [] k = "DCI0" -> 0

\* Where a recurrent packet belongs.
LEMMA RecurrentBelongs ==
  ASSUME NEW k \in Recurrent, NEW t \in Times
  PROVE  Schedule!Belongs(k, t) <=> t.subframe = Home(k) /\ t.frame % period(k) = 0
<1>1. t.frame \in Nat
  BY TimeFields, FramesPositive DEF Frames
<1>2. CASE k = "SIB2"
  BY <1>2, BelongsIs DEF Home, period
<1>3. CASE k = "SIB1"
  BY <1>3, BelongsIs DEF Home, period
<1>4. t.frame % 1 = 0
  BY <1>1
<1>5. CASE k = "RAR"
  BY <1>4, <1>5, BelongsIs DEF Home, period
<1>6. CASE k = "DCI0"
  BY <1>4, <1>6, BelongsIs DEF Home, period
<1> QED BY <1>2, <1>3, <1>5, <1>6 DEF Recurrent

\* The successor of a recurrent packet is due a period later.
LEMMA RecurrentSuccessor ==
  ASSUME NEW p \in Packets, p.kind \in Recurrent
  PROVE  \E n : /\ followUp(p) = {n}
                /\ n.kind = p.kind /\ n.subframe = Home(p.kind)
                /\ n.frame = plusFrames(p.frame, period(p.kind))
<1>1. CASE p.kind = "SIB2"
  <2> DEFINE n == fill_SIB2(plusFrames(p.frame, 8))
  <2>1. followUp(p) = {n}
    BY <1>1 DEF followUp, Data
  <2>2. period("SIB2") = 8 /\ Home("SIB2") = SIB2SF
    BY DEF period, Home
  <2>3. n.kind = "SIB2" /\ n.subframe = SIB2SF /\ n.frame = plusFrames(p.frame, 8)
    BY DEF fill_SIB2, fillControl
  <2> HIDE DEF n
  <2> QED BY <1>1, <2>1, <2>2, <2>3
<1>2. CASE p.kind = "SIB1"
  <2> DEFINE n == fill_SIB1(plusFrames(p.frame, 2))
  <2>1. followUp(p) = {n}
    BY <1>2 DEF followUp, Data
  <2>2. period("SIB1") = 2 /\ Home("SIB1") = SIB1SF
    BY DEF period, Home
  <2>3. n.kind = "SIB1" /\ n.subframe = SIB1SF /\ n.frame = plusFrames(p.frame, 2)
    BY DEF fill_SIB1, fillControl
  <2> HIDE DEF n
  <2> QED BY <1>2, <2>1, <2>2, <2>3
<1>3. CASE p.kind = "RAR"
  <2> DEFINE n == fill_RAR(plusFrames(p.frame, 1))
  <2>1. followUp(p) = {n}
    BY <1>3 DEF followUp, Data
  <2>2. period("RAR") = 1 /\ Home("RAR") = RAR_SUBFRAME
    BY DEF period, Home
  <2>3. n.kind = "RAR" /\ n.subframe = RAR_SUBFRAME /\ n.frame = plusFrames(p.frame, 1)
    BY DEF fill_RAR, fillControl
  <2> HIDE DEF n
  <2> QED BY <1>3, <2>1, <2>2, <2>3
<1>4. CASE p.kind = "DCI0"
  <2> DEFINE n == fill_DCI0(plusFrames(p.frame, 1), 0, p.copy)
  <2>1. followUp(p) = {n}
    BY <1>4 DEF followUp, Data
  <2>2. period("DCI0") = 1 /\ Home("DCI0") = 0
    BY DEF period, Home
  <2>3. n.kind = "DCI0" /\ n.subframe = 0 /\ n.frame = plusFrames(p.frame, 1)
    BY DEF fill_DCI0, fillControl
  <2> HIDE DEF n
  <2> QED BY <1>4, <2>1, <2>2, <2>3
<1> QED BY <1>1, <1>2, <1>3, <1>4 DEF Recurrent

LEMMA KindOfPacket ==
  ASSUME NEW p \in Packets
  PROVE  \/ p.kind \in Recurrent /\ p.kind # "EMPTY"
         \/ p.kind = "EMPTY"
         \/ p.kind \in Data /\ p.kind \notin Control
BY DEF Packets, Kinds, Recurrent, Control, Data

----------------------------------------------------------------------------
LEMMA InitSchedule == EmptySubF # <<>> /\ Init => ScheduleInv
<1> SUFFICES ASSUME EmptySubF # <<>>, Init PROVE ScheduleInv
  OBVIOUS
<1>1. /\ MacInv /\ buf = {} /\ now = At(0, 0) /\ pc = "rrc" /\ nextESF = 1
      /\ outQueue = {fill_SIB2(0), fill_RAR(0), fill_SIB1(0), fill_DCI0(0, 0, 1),
                     fill_EMPTY(0, EmptySubF[1])}
  BY InitEstablishes DEF Init, initialPackets
<1>2. now \in Times /\ now.frame = 0 /\ now.subframe = 0
  BY <1>1 DEF MacInv, MacTypeOK, At
<1> DEFINE P(p, kind, sf) == p.kind = kind /\ p.frame = 0 /\ p.subframe = sf
<1>3. /\ P(fill_SIB2(0), "SIB2", SIB2SF) /\ P(fill_SIB1(0), "SIB1", SIB1SF)
      /\ P(fill_RAR(0), "RAR", RAR_SUBFRAME) /\ P(fill_DCI0(0, 0, 1), "DCI0", 0)
      /\ P(fill_EMPTY(0, EmptySubF[1]), "EMPTY", EmptySubF[1])
  BY DEF fill_SIB2, fill_SIB1, fill_RAR, fill_DCI0, fill_EMPTY, fillControl
<1>4. Chained
  BY <1>1, <1>3 DEF Chained, pending, Control
<1>5. AtMostOneEach(outQueue)
  BY <1>1, <1>3 DEF AtMostOneEach
<1>6. ASSUME NEW p \in outQueue
      PROVE  /\ p \in Packets /\ p.kind \in Control /\ InPlace(p)
             /\ p.frame = 0 /\ due(p) \in Times /\ due(p).frame = 0
             /\ due(p).subframe = p.subframe
  <2>1. p \in Packets /\ p.frame = 0 /\ p.kind \in Control
    BY <1>1, <1>3 DEF MacInv, MacTypeOK, Control
  <2>2. due(p) \in Times /\ due(p).frame = 0 /\ due(p).subframe = p.subframe
    BY <2>1, DueIs
  <2>3. CASE p.kind \in Recurrent
    <3>1. p.subframe = Home(p.kind)
      BY <1>1, <1>3, <2>3 DEF Home, Recurrent
    <3>2. 0 % period(p.kind) = 0
      BY <2>3, PeriodIs
    <3>3. Schedule!Belongs(p.kind, due(p))
      BY <2>2, <2>3, <3>1, <3>2, RecurrentBelongs
    <3> QED BY <2>1, <2>2, <3>3, ControlInPlace
  <2>4. CASE p.kind = "EMPTY"
    <3>1. p.subframe = EmptySubF[1]
      BY <1>1, <1>3, <2>4
    <3>2. 1 \in DOMAIN EmptySubF
      BY EmptyList, MacAssumption
    <3>3. Schedule!Belongs("EMPTY", due(p))
      BY <2>2, <3>1, <3>2, BelongsIs
    <3> QED BY <2>1, <2>2, <2>4, <3>3, ControlInPlace
  <2> QED BY <2>1, <2>3, <2>4, KindOfPacket DEF Control, Data
<1>7. Sparse(outQueue, buf, now)
  <2>1. AtMostOneEach(IsControl(outQueue \ buf)) /\ AtMostOneEach(buf)
    BY <1>1, <1>5 DEF AtMostOneEach, IsControl
  <2>2. ASSUME NEW p \in outQueue PROVE p.kind \notin Data
    BY <1>6 DEF Control, Data
  <2> QED BY <1>1, <1>6, <2>1, <2>2 DEF Sparse
<1>8. OnTime
  <2> SUFFICES ASSUME NEW p \in outQueue
               PROVE  /\ p.kind \in Recurrent => Upcoming(p)
                      /\ p.kind = "EMPTY" => EmptyIsNext(p)
    BY <1>1 DEF OnTime, pending
  <2>1. p.subframe \in Nat /\ now.frame = p.frame
    BY <1>2, <1>6 DEF Packets, Subframes
  <2>2. ASSUME p.kind \in Recurrent PROVE Upcoming(p)
    BY <1>1, <1>2, <1>6, <2>1 DEF Upcoming, emitted, sooner, within
  <2>3. ASSUME p.kind = "EMPTY" PROVE EmptyIsNext(p)
    BY <1>1, <1>2, <2>1 DEF EmptyIsNext, emitted
  <2> QED BY <2>2, <2>3
<1>9. StreamOrder
  BY <1>6 DEF StreamOrder, Control, Data
<1> QED BY <1>1, <1>4, <1>7, <1>8, <1>9 DEF ScheduleInv

----------------------------------------------------------------------------
\* Steps that leave the packets alone.
LEMMA OthersKeepSchedule ==
  ASSUME MacInv, ScheduleInv, UNCHANGED <<now, outQueue, nextESF, buf>>,
         pc' = "emit" => pc \in {"ip", "emit"},
         \/ lastRRC' = lastRRC
         \/ pc = "rrc" /\ lastRRC' = notLagging(now, lastRRC),
         \/ lastIP' = lastIP
         \/ pc = "ip" /\ lastIP' = notLagging(now, lastIP)
  PROVE  ScheduleInv'
<1>1. Sparse(outQueue, buf, now)'
  BY DEF ScheduleInv, Sparse, InPlace, due
<1>2. Chained' /\ OnTime'
  BY DEF ScheduleInv, Chained, OnTime, pending, Upcoming, EmptyIsNext, emitted, due
<1>3. StreamOrder'
  <2> SUFFICES ASSUME NEW p \in outQueue, p.kind \in Data
               PROVE  within(due(p), lastOf(p.kind)', MaxTimeHorizon + 1)
    BY DEF StreamOrder, due
  <2>1. /\ due(p) \in Times /\ now \in Times /\ lastRRC \in Times /\ lastIP \in Times
        /\ within(now, due(p), MaxTimeHorizon + 1)
        /\ within(due(p), lastOf(p.kind), MaxTimeHorizon + 1)
        /\ p.kind = "RRC" \/ p.kind = "IP"
    BY DueIs DEF MacInv, MacTypeOK, ScheduleInv, StreamOrder, QueueNeverStale, Data
  <2>2. CASE p.kind = "RRC"
    <3>1. pc = "rrc" => recent(now, lastRRC)
      BY DEF MacInv, LastTimes
    <3>2. within(due(p), lastRRC, MaxTimeHorizon + 1)
      BY <2>1, <2>2 DEF lastOf
    <3>3. lastRRC' = lastRRC
      BY <2>1, <3>1, <3>2, StreamNotLagging, ManyFrames
    <3> QED BY <2>2, <3>2, <3>3 DEF lastOf
  <2>3. CASE p.kind = "IP"
    <3>1. pc = "ip" => recent(now, lastIP)
      BY DEF MacInv, LastTimes
    <3>2. within(due(p), lastIP, MaxTimeHorizon + 1)
      BY <2>1, <2>3 DEF lastOf
    <3>3. lastIP' = lastIP
      BY <2>1, <3>1, <3>2, StreamNotLagging, ManyFrames
    <3> QED BY <2>3, <3>2, <3>3 DEF lastOf
  <2> QED BY <2>1, <2>2, <2>3
<1>4. pc' = "emit" => buf' \subseteq outQueue'
  BY DEF MacInv, Handed, ScheduleInv
<1> QED BY <1>1, <1>2, <1>3, <1>4 DEF ScheduleInv

\* The next packet of a data stream, due at v, finds a slot and comes after the
\* others of its stream.
LEMMA DataFindsSlot ==
  ASSUME EnoughSlots, MacInv, ScheduleInv, pc \in {"rrc", "ip"}, NEW v \in Times,
         NEW d \in Packets, d.kind \in Data, InPlace(d), due(d) = v,
         recent(now, lastOf(d.kind)), within(now, v, MaxTimeHorizon + 1),
         \/ v.frame = lastOf(d.kind).frame /\ v.subframe > lastOf(d.kind).subframe
         \/ v.frame = plusFrames(lastOf(d.kind).frame, 1)
  PROVE  /\ added(outQueue, d) = outQueue \union {d} /\ buf = {}
         /\ Sparse(outQueue \union {d}, buf, now)
         /\ \A p \in outQueue : p.kind = d.kind =>
              within(due(p), v, MaxTimeHorizon + 1) /\ due(p) # v
<1>1. /\ buf = {} /\ now \in Times /\ lastOf(d.kind) \in Times
      /\ d.kind \notin Control /\ outQueue \subseteq Packets
  BY DEF MacInv, MacTypeOK, Handed, lastOf, Control, Data
<1>2. ASSUME NEW p \in outQueue, p.kind = d.kind
      PROVE  within(due(p), v, MaxTimeHorizon + 1) /\ due(p) # v
  <2>1. /\ due(p) \in Times /\ within(now, due(p), MaxTimeHorizon + 1)
        /\ within(due(p), lastOf(d.kind), MaxTimeHorizon + 1)
    BY <1>1, <1>2, DueIs DEF MacInv, QueueNeverStale, ScheduleInv, StreamOrder
  <2> QED BY <1>1, <2>1, NextIsLast, ManyFrames
<1>3. Sparse(outQueue \union {d}, buf, now)
  <2>1. IsControl((outQueue \union {d}) \ buf) = IsControl(outQueue \ buf)
    BY <1>1 DEF IsControl
  <2>2. ASSUME NEW p \in outQueue \union {d}, p.kind \in Data
        PROVE  within(now, due(p), MaxTimeHorizon + 1)
    BY <2>2 DEF ScheduleInv, Sparse
  <2>3. ASSUME NEW p \in outQueue \union {d}, NEW q \in outQueue \union {d},
               p.kind \in Data, p.kind = q.kind, due(p) = due(q)
        PROVE  p = q
    BY <1>2, <2>3 DEF ScheduleInv, Sparse
  <2> QED BY <1>1, <2>1, <2>2, <2>3 DEF ScheduleInv, Sparse
<1>4. added(outQueue, d) = outQueue \union {d}
  BY <1>1, <1>3, SparseAdd
<1> QED BY <1>1, <1>2, <1>3, <1>4

LEMMA DataKeepsSchedule ==
  ASSUME EnoughSlots, MacInv, ScheduleInv, pc \in {"rrc", "ip"}, NEW v \in Times,
         NEW d \in Packets, d.kind \in Data, InPlace(d), due(d) = v,
         recent(now, lastOf(d.kind)), within(now, v, MaxTimeHorizon + 1),
         \/ v.frame = lastOf(d.kind).frame /\ v.subframe > lastOf(d.kind).subframe
         \/ v.frame = plusFrames(lastOf(d.kind).frame, 1),
         outQueue' = added(outQueue, d), UNCHANGED <<now, pc, nextESF, buf>>,
         \A k \in Data : lastOf(k)' = IF k = d.kind THEN v ELSE lastOf(k)
  PROVE  ScheduleInv'
<1>1. /\ buf = {} /\ now \in Times /\ lastOf(d.kind) \in Times
      /\ d.kind \notin Control /\ outQueue \subseteq Packets
  BY DEF MacInv, MacTypeOK, Handed, lastOf, Control, Data
<1>2. ASSUME NEW p \in outQueue, p.kind = d.kind
      PROVE  within(due(p), v, MaxTimeHorizon + 1) /\ due(p) # v
  BY <1>2, DataFindsSlot
<1>3. Sparse(outQueue \union {d}, buf, now)
  BY DataFindsSlot
<1>4. outQueue' = outQueue \union {d}
  BY DataFindsSlot
<1>5. Sparse(outQueue, buf, now)'
  BY <1>3, <1>4 DEF Sparse, InPlace, due
<1>6. Chained'
  BY <1>1, <1>4 DEF ScheduleInv, Chained, pending
<1>7. OnTime'
  BY <1>1, <1>4
     DEF ScheduleInv, OnTime, pending, Upcoming, EmptyIsNext, emitted, due, Recurrent, Control
<1>8. StreamOrder'
  <2> SUFFICES ASSUME NEW p \in outQueue \union {d}, p.kind \in Data
               PROVE  within(due(p), lastOf(p.kind)', MaxTimeHorizon + 1)
    BY <1>4 DEF StreamOrder, due
  <2>1. within(v, v, MaxTimeHorizon + 1)
    BY TimeFields DEF within, Subframes
  <2>2. CASE p = d
    BY <2>1, <2>2
  <2>3. CASE p # d /\ p.kind = d.kind
    BY <1>2, <2>3
  <2>4. CASE p # d /\ p.kind # d.kind
    BY <2>4 DEF ScheduleInv, StreamOrder
  <2> QED BY <2>2, <2>3, <2>4
<1> QED BY <1>1, <1>5, <1>6, <1>7, <1>8 DEF ScheduleInv

----------------------------------------------------------------------------
(* The steps of a subframe. *)

\* A packet that is due now is the first of its kind that is handed over.
LEMMA DueNowIsFirst ==
  ASSUME MacInv, ScheduleInv, pc = "emit", NEW p \in dueNow \ buf
  PROVE  ~ emitted(p.kind)
<1>1. /\ p \in outQueue /\ p \in pending /\ p \in Packets /\ due(p) = now
      /\ now \in Times /\ p.frame = now.frame /\ p.subframe = now.subframe
      /\ now.frame \in Frames /\ now.subframe \in Subframes
  BY DueIs, TimeFields DEF dueNow, pending, MacInv, MacTypeOK
<1> SUFFICES ASSUME emitted(p.kind) PROVE FALSE
  OBVIOUS
<1>2. CASE p.kind \in Recurrent
  <2>1. p.frame = plusFrames(now.frame, period(p.kind))
    BY <1>1, <1>2 DEF ScheduleInv, OnTime, Upcoming
  <2>2. period(p.kind) \in 1 .. 8
    BY <1>2, PeriodIs
  <2>3. now # now
    BY <1>1, <2>1, <2>2, PeriodAhead, ManyFrames
  <2> QED BY <2>3
<1>3. CASE p.kind = "EMPTY"
  <2>1. EmptyIsNext(p) /\ emitted("EMPTY")
    BY <1>1, <1>3 DEF ScheduleInv, OnTime
  <2>2. plusFrames(now.frame, 1) # now.frame
    BY <1>1, NextFrameDiffers, ManyFrames
  <2> QED BY <1>1, <2>1, <2>2 DEF EmptyIsNext, Subframes
<1>4. CASE p.kind \in Data
  <2>1. PICK q \in buf : q.kind = p.kind
    BY DEF emitted
  <2>2. q \in outQueue /\ due(q) = now
    BY DEF ScheduleInv, MacInv, Handed
  <2>3. q = p
    BY <1>1, <1>4, <2>1, <2>2 DEF ScheduleInv, Sparse
  <2> QED BY <2>1, <2>3
<1> QED BY <1>1, <1>2, <1>3, <1>4, KindOfPacket

\* The empty subframe after the one that is handed over.
LEMMA EmptySuccessor ==
  ASSUME MacInv, NEW p \in outQueue \ buf, p.kind = "EMPTY", due(p) = now
  PROVE  /\ nextESF \in 1 .. Len(EmptySubF) /\ now.subframe = EmptySubF[nextESF]
         /\ followUp(p) = {schedule_EMPTY(now.frame)}
         /\ schedule_EMPTY(now.frame).kind = "EMPTY"
         /\ advancedESF \in 1 .. Len(EmptySubF)
         /\ schedule_EMPTY(now.frame).subframe = EmptySubF[advancedESF]
         /\ schedule_EMPTY(now.frame).frame
              = IF nextESF = Len(EmptySubF) THEN plusFrames(now.frame, 1) ELSE now.frame
<1>1. p.frame = now.frame /\ p.subframe = now.subframe
  BY DueIs DEF MacInv, MacTypeOK
<1>2. nextESF \in 1 .. Len(EmptySubF) /\ now.subframe = EmptySubF[nextESF]
  BY <1>1, EmptyList DEF MacInv, MacTypeOK, EmptyChain
<1>3. followUp(p) = {schedule_EMPTY(now.frame)}
  BY <1>1 DEF followUp, Data
<1>4. CASE nextESF = Len(EmptySubF)
  <2>1. schedule_EMPTY(now.frame) = fillControl("EMPTY", plusFrames(now.frame, 1), EmptySubF[1], 0, 1)
    BY <1>4 DEF schedule_EMPTY, fill_EMPTY
  <2> QED BY <1>2, <1>3, <1>4, <2>1, EmptyList DEF fillControl, advancedESF
<1>5. CASE nextESF # Len(EmptySubF)
  <2>1. schedule_EMPTY(now.frame) = fillControl("EMPTY", now.frame, EmptySubF[nextESF + 1], 0, 1)
    BY <1>5 DEF schedule_EMPTY, fill_EMPTY
  <2> QED BY <1>2, <1>3, <1>5, <2>1, EmptyList DEF fillControl, advancedESF
<1> QED BY <1>4, <1>5

\* Handing over a data packet queues nothing.
LEMMA EmitDataKeepsSchedule ==
  ASSUME MacInv, ScheduleInv, pc = "emit", NEW p \in dueNow \ buf, p.kind \in Data,
         buf' = buf \union {p}, UNCHANGED <<now, pc, outQueue, nextESF, lastRRC, lastIP>>
  PROVE  ScheduleInv'
<1>1. p \in outQueue /\ p \notin buf /\ p.kind \notin Control /\ due(p) = now
  BY DEF dueNow, Control, Data
<1>2. ~ emitted(p.kind)
  BY DueNowIsFirst
<1>3. pending' = pending \ {p}
  BY DEF pending
<1>4. \A k \in Control : emitted(k)' <=> emitted(k)
  BY <1>1 DEF emitted
<1>5. Sparse(outQueue, buf, now)'
  <2>1. Sparse(outQueue, buf \union {p}, now)
    <3>1. AtMostOneEach(buf \union {p})
      BY <1>2 DEF ScheduleInv, Sparse, AtMostOneEach, emitted
    <3>2. AtMostOneEach(IsControl(outQueue \ (buf \union {p})))
      BY DEF ScheduleInv, Sparse, AtMostOneEach, IsControl
    <3> QED BY <1>1, <3>1, <3>2 DEF ScheduleInv, Sparse
  <2> QED BY <2>1 DEF Sparse, InPlace, due
<1>6. Chained'
  BY <1>1, <1>3 DEF ScheduleInv, Chained
<1>7. OnTime'
  BY <1>3, <1>4 DEF ScheduleInv, OnTime, Upcoming, EmptyIsNext, due, Recurrent, Control
<1>8. StreamOrder'
  BY DEF ScheduleInv, StreamOrder, lastOf, due
<1>9. pc' = "emit" => buf' \subseteq outQueue'
  BY <1>1 DEF ScheduleInv
<1> QED BY <1>5, <1>6, <1>7, <1>8, <1>9 DEF ScheduleInv

\* The successor of a control packet: it is in place, later than now, and the
\* next of its kind.
LEMMA SuccessorInPlace ==
  ASSUME MacInv, ScheduleInv, pc = "emit", NEW p \in dueNow \ buf, p.kind \in Control
  PROVE  \E n \in Packets :
           /\ followUp(p) = {n} /\ n.kind = p.kind
           /\ InPlace(n) /\ due(n) # now
           /\ n.kind \in Recurrent =>
                n.frame = plusFrames(now.frame, period(n.kind)) /\ n.subframe = now.subframe
           /\ n.kind = "EMPTY" =>
                \/ /\ n.frame = now.frame /\ n.subframe >= now.subframe + 1
                   /\ \A j \in 1 .. Len(EmptySubF) :
                        j < advancedESF => EmptySubF[j] < now.subframe + 1
                \/ /\ n.frame = plusFrames(now.frame, 1) /\ advancedESF = 1
                   /\ \A j \in 1 .. Len(EmptySubF) : EmptySubF[j] < now.subframe + 1
<1>1. /\ p \in outQueue /\ p \in outQueue \ buf /\ p \in Packets /\ due(p) = now
      /\ now \in Times /\ p.frame = now.frame /\ p.subframe = now.subframe
      /\ now.frame \in Frames /\ now.subframe \in Subframes
      /\ InPlace(p)
  BY DueIs, TimeFields DEF dueNow, MacInv, MacTypeOK, ScheduleInv, Sparse
<1>2. p.kind = "EMPTY" => nextESF >= 1 /\ p.subframe = EmptySubF[nextESF]
  BY <1>1 DEF MacInv, EmptyChain
<1>3. Schedule!Belongs(p.kind, now)
  BY <1>1, ControlInPlace
<1>4. \A n \in followUp(p) : n \in Packets
  BY <1>1, <1>2, Successor DEF MacInv
<1>5. CASE p.kind \in Recurrent
  <2>1. PICK n : /\ followUp(p) = {n} /\ n.kind = p.kind /\ n.subframe = Home(p.kind)
                 /\ n.frame = plusFrames(now.frame, period(p.kind))
    BY <1>1, <1>5, RecurrentSuccessor
  <2>2. n \in Packets
    BY <1>4, <2>1
  <2>3. now.subframe = Home(p.kind) /\ now.frame % period(p.kind) = 0
    BY <1>1, <1>3, <1>5, RecurrentBelongs
  <2>4. /\ due(n) \in Times /\ due(n).frame = n.frame /\ due(n).subframe = n.subframe
    BY <2>2, DueIs
  <2>5. period(p.kind) \in {1, 2, 8} /\ period(p.kind) \in 1 .. 8
    BY <1>5, PeriodIs
  <2>6. plusFrames(now.frame, period(p.kind)) % period(p.kind) = 0
    BY <1>1, <2>3, <2>5, PeriodKept, ManyFrames
  <2>7. Schedule!Belongs(n.kind, due(n))
    BY <1>5, <2>1, <2>4, <2>6, RecurrentBelongs
  <2>8. InPlace(n)
    BY <2>1, <2>7, ControlInPlace
  <2>9. due(n) # now
    BY <1>1, <2>1, <2>3, <2>4, <2>5, PeriodAhead, ManyFrames
  <2>10. n.kind # "EMPTY"
    BY <1>5, <2>1 DEF Recurrent
  <2> QED BY <2>1, <2>2, <2>3, <2>8, <2>9, <2>10
<1>6. CASE p.kind = "EMPTY"
  <2>1. PICK n : n = schedule_EMPTY(now.frame)
    OBVIOUS
  <2>2. /\ nextESF \in 1 .. Len(EmptySubF) /\ now.subframe = EmptySubF[nextESF]
        /\ followUp(p) = {n} /\ n.kind = "EMPTY"
        /\ advancedESF \in 1 .. Len(EmptySubF) /\ n.subframe = EmptySubF[advancedESF]
        /\ n.frame = IF nextESF = Len(EmptySubF) THEN plusFrames(now.frame, 1) ELSE now.frame
    BY <1>1, <1>6, <2>1, EmptySuccessor
  <2>3. n \in Packets /\ due(n) \in Times /\ due(n).frame = n.frame
        /\ due(n).subframe = n.subframe
    BY <1>4, <2>2, DueIs
  <2>4. advancedESF \in DOMAIN EmptySubF
    BY <2>2, MacAssumption
  <2>5. Schedule!Belongs(n.kind, due(n))
    BY <2>2, <2>3, <2>4, BelongsIs
  <2>6. InPlace(n)
    BY <2>2, <2>5, ControlInPlace DEF Control
  <2>7. n.kind \notin Recurrent
    BY <2>2 DEF Recurrent
  <2>8. CASE nextESF = Len(EmptySubF)
    <3>1. n.frame = plusFrames(now.frame, 1) /\ advancedESF = 1
      BY <2>2, <2>8 DEF advancedESF
    <3>2. plusFrames(now.frame, 1) # now.frame
      BY <1>1, NextFrameDiffers, ManyFrames
    <3>3. ASSUME NEW j \in 1 .. Len(EmptySubF) PROVE EmptySubF[j] < now.subframe + 1
      BY <2>2, <2>8, EmptyList DEF Subframes
    <3>4. due(n) # now
      BY <2>3, <3>1, <3>2
    <3> QED BY <1>6, <2>2, <2>3, <2>6, <2>7, <3>1, <3>3, <3>4
  <2>9. CASE nextESF # Len(EmptySubF)
    <3>1. n.frame = now.frame /\ advancedESF = nextESF + 1
      BY <2>2, <2>9 DEF advancedESF
    <3>2. n.subframe >= now.subframe + 1
      <4>1. EmptySubF[nextESF] < EmptySubF[advancedESF]
        BY <2>2, <3>1, EmptyList
      <4>2. EmptySubF[nextESF] \in Subframes /\ EmptySubF[advancedESF] \in Subframes
        BY <2>2, EmptyList
      <4> QED BY <2>2, <4>1, <4>2 DEF Subframes
    <3>3. ASSUME NEW j \in 1 .. Len(EmptySubF), j < advancedESF
          PROVE  EmptySubF[j] < now.subframe + 1
      <4>1. j < nextESF \/ j = nextESF
        BY <2>2, <3>1, <3>3, EmptyList
      <4>2. EmptySubF[j] < EmptySubF[nextESF] \/ EmptySubF[j] = EmptySubF[nextESF]
        BY <2>2, <4>1, EmptyList
      <4>3. EmptySubF[nextESF] \in Subframes /\ EmptySubF[j] \in Subframes
        BY <2>2, EmptyList
      <4> QED BY <2>2, <4>2, <4>3 DEF Subframes
    <3>4. due(n) # now
      BY <1>1, <2>3, <3>2 DEF Subframes
    <3> QED BY <1>6, <2>2, <2>3, <2>6, <2>7, <3>1, <3>2, <3>3, <3>4
  <2> QED BY <2>8, <2>9
<1> QED BY <1>1, <1>5, <1>6, KindOfPacket DEF Control, Data

\* Handing over a control packet queues its successor, for which there is room.
LEMMA EmitControlKeepsSchedule ==
  ASSUME EnoughSlots, MacInv, ScheduleInv, pc = "emit",
         NEW p \in dueNow \ buf, p.kind \in Control,
         \E m \in followUp(p) : outQueue' = added(outQueue, m),
         buf' = buf \union {p}, UNCHANGED <<now, pc, lastRRC, lastIP>>,
         nextESF' = IF p.kind # "EMPTY" THEN nextESF ELSE advancedESF
  PROVE  ScheduleInv'
<1>1. /\ p \in outQueue /\ p \notin buf /\ p \in pending /\ p.kind \notin Data
      /\ due(p) = now /\ now \in Times
  BY DEF dueNow, pending, MacInv, MacTypeOK, Control, Data
<1>2. ~ emitted(p.kind)
  BY DueNowIsFirst
<1>3. PICK n \in Packets :
        /\ followUp(p) = {n} /\ n.kind = p.kind
        /\ InPlace(n) /\ due(n) # now
        /\ n.kind \in Recurrent =>
             n.frame = plusFrames(now.frame, period(n.kind)) /\ n.subframe = now.subframe
        /\ n.kind = "EMPTY" =>
             \/ /\ n.frame = now.frame /\ n.subframe >= now.subframe + 1
                /\ \A j \in 1 .. Len(EmptySubF) :
                     j < advancedESF => EmptySubF[j] < now.subframe + 1
             \/ /\ n.frame = plusFrames(now.frame, 1) /\ advancedESF = 1
                /\ \A j \in 1 .. Len(EmptySubF) : EmptySubF[j] < now.subframe + 1
  BY SuccessorInPlace
<1>4. n \notin buf \union {p}
  BY <1>1, <1>3 DEF MacInv, Handed
<1>5. \A r \in pending : r.kind = p.kind => r = p
  <2>1. p \in IsControl(outQueue \ buf)
    BY <1>1 DEF IsControl
  <2>2. \A r \in pending : r.kind = p.kind => r \in IsControl(outQueue \ buf)
    BY DEF IsControl, pending
  <2> QED BY <2>1, <2>2 DEF ScheduleInv, Sparse, AtMostOneEach
<1>6. Sparse(outQueue \union {n}, buf \union {p}, now)
  <2>1. AtMostOneEach(buf \union {p})
    BY <1>2 DEF ScheduleInv, Sparse, AtMostOneEach, emitted
  <2>2. AtMostOneEach(IsControl((outQueue \union {n}) \ (buf \union {p})))
    <3> SUFFICES ASSUME NEW q \in IsControl((outQueue \union {n}) \ (buf \union {p})),
                        NEW r \in IsControl((outQueue \union {n}) \ (buf \union {p})),
                        q.kind = r.kind
                 PROVE  q = r
      BY DEF AtMostOneEach
    <3>1. /\ q = n \/ (q \in pending /\ q # p)
          /\ r = n \/ (r \in pending /\ r # p)
          /\ q.kind \in Control
      BY DEF IsControl, pending
    <3>2. CASE q.kind = p.kind
      BY <1>5, <3>1, <3>2
    <3>3. CASE q.kind # p.kind
      <4>1. q \in IsControl(outQueue \ buf) /\ r \in IsControl(outQueue \ buf)
        BY <1>3, <3>1, <3>3 DEF IsControl, pending
      <4> QED BY <4>1 DEF ScheduleInv, Sparse, AtMostOneEach
    <3> QED BY <3>2, <3>3
  <2>3. n.kind \notin Data
    BY <1>1, <1>3
  <2> QED BY <1>1, <1>3, <2>1, <2>2, <2>3 DEF ScheduleInv, Sparse
<1>7. outQueue' = outQueue \union {n}
  BY <1>1, <1>3, <1>6, SparseAdd
<1>8. Sparse(outQueue, buf, now)'
  BY <1>6, <1>7 DEF Sparse, InPlace, due
<1>9. pending' = (pending \ {p}) \union {n}
  BY <1>4, <1>7 DEF pending
<1>10. Chained'
  <2> SUFFICES ASSUME NEW k \in Control PROVE \E q \in (pending \ {p}) \union {n} : q.kind = k
    BY <1>9 DEF Chained
  <2>1. CASE k = p.kind
    BY <1>3, <2>1
  <2>2. CASE k # p.kind
    BY <2>2 DEF ScheduleInv, Chained
  <2> QED BY <2>1, <2>2
<1>11. OnTime'
  <2> SUFFICES ASSUME NEW r \in (pending \ {p}) \union {n}
               PROVE  /\ r.kind \in Recurrent => Upcoming(r)'
                      /\ r.kind = "EMPTY" => EmptyIsNext(r)'
    BY <1>9 DEF OnTime
  <2>1. CASE r = n
    <3>1. emitted(n.kind)'
      BY <1>3 DEF emitted
    <3>2. ASSUME n.kind \in Recurrent PROVE Upcoming(n)'
      BY <1>3, <3>1, <3>2 DEF Upcoming
    <3>3. ASSUME n.kind = "EMPTY" PROVE EmptyIsNext(n)'
      <4>1. nextESF' = advancedESF /\ emitted("EMPTY")'
        BY <1>3, <3>1, <3>3
      <4> QED BY <1>3, <3>3, <4>1 DEF EmptyIsNext
    <3> QED BY <2>1, <3>2, <3>3
  <2>2. CASE r # n
    <3>1. r \in pending /\ r.kind # p.kind
      BY <1>5, <2>2
    <3>2. emitted(r.kind)' <=> emitted(r.kind)
      BY <3>1 DEF emitted
    <3>3. ASSUME r.kind \in Recurrent PROVE Upcoming(r)'
      BY <3>1, <3>2, <3>3 DEF ScheduleInv, OnTime, Upcoming, due
    <3>4. ASSUME r.kind = "EMPTY" PROVE EmptyIsNext(r)'
      <4>1. nextESF' = nextESF /\ (emitted("EMPTY")' <=> emitted("EMPTY"))
        BY <3>1, <3>2, <3>4
      <4>2. EmptyIsNext(r)
        BY <3>1, <3>4 DEF ScheduleInv, OnTime
      <4> QED BY <4>1, <4>2 DEF EmptyIsNext
    <3> QED BY <3>3, <3>4
  <2> QED BY <2>1, <2>2
<1>12. StreamOrder'
  <2>1. n.kind \notin Data
    BY <1>1, <1>3
  <2> QED BY <1>7, <2>1 DEF ScheduleInv, StreamOrder, lastOf, due
<1>13. pc' = "emit" => buf' \subseteq outQueue'
  BY <1>1, <1>7 DEF ScheduleInv
<1> QED BY <1>8, <1>10, <1>11, <1>12, <1>13 DEF ScheduleInv

LEMMA EmitKeepsSchedule == EnoughSlots /\ MacInv /\ ScheduleInv /\ Emit => ScheduleInv'
<1> SUFFICES ASSUME EnoughSlots, MacInv, ScheduleInv, Emit PROVE ScheduleInv'
  OBVIOUS
<1>1. PICK p \in dueNow \ buf :
        /\ pc = "emit"
        /\ buf' = buf \union {p}
        /\ \/ \E n \in followUp(p) : outQueue' = added(outQueue, n)
           \/ followUp(p) = {} /\ UNCHANGED outQueue
        /\ nextESF' = IF p.kind # "EMPTY" THEN nextESF
                      ELSE IF nextESF = Len(EmptySubF) THEN 1 ELSE nextESF + 1
        /\ UNCHANGED <<now, pc, harqVars, lastRRC, lastIP, envVars>>
  BY DEF Emit
<1>2. p \in Packets
  BY DEF dueNow, MacInv, MacTypeOK
<1>3. CASE p.kind \in Control
  <2>1. followUp(p) # {}
    BY <1>1, <1>3, SuccessorInPlace
  <2>2. nextESF' = IF p.kind # "EMPTY" THEN nextESF ELSE advancedESF
    BY <1>1 DEF advancedESF
  <2> QED BY <1>1, <1>3, <2>1, <2>2, EmitControlKeepsSchedule
<1>4. CASE p.kind \in Data
  <2>1. followUp(p) = {}
    BY <1>4 DEF followUp, Data
  <2>2. nextESF' = nextESF
    BY <1>1, <1>4 DEF Data
  <2> QED BY <1>1, <1>4, <2>1, <2>2, EmitDataKeepsSchedule
<1> QED BY <1>2, <1>3, <1>4, KindOfPacket DEF Recurrent, Control

LEMMA EmitDoneKeepsSchedule == MacInv /\ ScheduleInv /\ EmitDone => ScheduleInv'
<1> SUFFICES ASSUME MacInv, ScheduleInv, EmitDone PROVE ScheduleInv'
  OBVIOUS
<1>1. /\ outQueue' = outQueue \ dueNow /\ dueNow \subseteq buf
      /\ UNCHANGED <<now, nextESF, buf, lastRRC, lastIP>> /\ pc' = "phy"
  BY DEF EmitDone
<1>2. pending' = pending /\ outQueue' \ buf' = outQueue \ buf /\ outQueue' \subseteq outQueue
  BY <1>1 DEF pending
<1>3. Sparse(outQueue, buf, now)'
  BY <1>1, <1>2 DEF ScheduleInv, Sparse, InPlace, due
<1>4. Chained' /\ OnTime'
  BY <1>1, <1>2 DEF ScheduleInv, Chained, OnTime, Upcoming, EmptyIsNext, emitted, due
<1>5. StreamOrder'
  BY <1>1, <1>2 DEF ScheduleInv, StreamOrder, lastOf, due
<1> QED BY <1>1, <1>3, <1>4, <1>5 DEF ScheduleInv

\* The empty subframe that is next stays so when the PHY moves on.
LEMMA EmptyStaysNext ==
  ASSUME MacInv, NEW p \in outQueue \ buf, p.kind = "EMPTY", due(p) # now, EmptyIsNext(p),
         now' = nextSubframe(now), buf' = {}, nextESF' = nextESF
  PROVE  EmptyIsNext(p)'
<1> DEFINE first == now.subframe + (IF emitted("EMPTY") THEN 1 ELSE 0)
<1>1. /\ now \in Times /\ now.frame \in Frames /\ now.subframe \in Subframes
      /\ due(p) \in Times /\ due(p).frame = p.frame /\ due(p).subframe = p.subframe
      /\ p.frame \in Frames /\ p.subframe \in Subframes
      /\ nextESF >= 1 /\ nextESF \in 1 .. Len(EmptySubF) /\ p.subframe = EmptySubF[nextESF]
  BY DueIs, TimeFields, EmptyList DEF MacInv, MacTypeOK, EmptyChain
<1>2. /\ ~ emitted("EMPTY")'
      /\ first \in Nat /\ now.subframe <= first /\ first <= now.subframe + 1
  <2>1. ~ emitted("EMPTY")'
    BY DEF emitted
  <2>2. now.subframe \in Nat
    BY <1>1 DEF Subframes
  <2>3. first = now.subframe \/ first = now.subframe + 1
    BY <2>2 DEF emitted
  <2> HIDE DEF first
  <2> QED BY <2>1, <2>2, <2>3
<1>3. \/ /\ p.frame = now.frame /\ p.subframe >= first
         /\ \A j \in 1 .. Len(EmptySubF) : j < nextESF => EmptySubF[j] < first
      \/ /\ p.frame = plusFrames(now.frame, 1) /\ nextESF = 1
         /\ \A j \in 1 .. Len(EmptySubF) : EmptySubF[j] < first
  BY DEF EmptyIsNext
<1> HIDE DEF first
<1>4. \A j \in 1 .. Len(EmptySubF) : EmptySubF[j] \in Subframes
  BY EmptyList
<1>5. CASE now.subframe = 9
  <2>1. now'.frame = plusFrames(now.frame, 1) /\ now'.subframe = 0
    BY <1>1, <1>5, NextSubframeFields
  <2>2. p.frame # now.frame
    <3> SUFFICES ASSUME p.frame = now.frame PROVE FALSE
      OBVIOUS
    <3>1. p.subframe >= 9 \/ (p.frame = plusFrames(now.frame, 1))
      BY <1>1, <1>2, <1>3, <1>5 DEF Subframes
    <3>2. plusFrames(now.frame, 1) # now.frame
      BY <1>1, NextFrameDiffers, ManyFrames
    <3>3. p.subframe = now.subframe
      BY <1>1, <1>5, <3>1, <3>2 DEF Subframes
    <3> QED BY <1>1, <3>3, TimeFields
  <2>3. p.frame = now'.frame /\ nextESF = 1
    BY <1>3, <2>1, <2>2
  <2> QED BY <1>1, <1>2, <2>1, <2>3 DEF EmptyIsNext, Subframes
<1>6. CASE now.subframe # 9
  <2>1. now'.frame = now.frame /\ now'.subframe = now.subframe + 1
    BY <1>1, <1>6, NextSubframeFields
  <2>2. CASE /\ p.frame = now.frame /\ p.subframe >= first
             /\ \A j \in 1 .. Len(EmptySubF) : j < nextESF => EmptySubF[j] < first
    <3>1. p.subframe # now.subframe
      BY <1>1, <2>2, TimeFields
    <3>2. p.subframe >= now.subframe + 1
      BY <1>1, <1>2, <2>2, <3>1 DEF Subframes
    <3>3. \A j \in 1 .. Len(EmptySubF) : j < nextESF => EmptySubF[j] < now.subframe + 1
      BY <1>1, <1>2, <1>4, <2>2, SMTT(30) DEF Subframes
    <3> QED BY <1>1, <1>2, <2>1, <2>2, <3>2, <3>3 DEF EmptyIsNext, Subframes
  <2>3. CASE /\ p.frame = plusFrames(now.frame, 1) /\ nextESF = 1
             /\ \A j \in 1 .. Len(EmptySubF) : EmptySubF[j] < first
    <3>1. \A j \in 1 .. Len(EmptySubF) : EmptySubF[j] < now.subframe + 1
      BY <1>1, <1>2, <1>4, <2>3 DEF Subframes
    <3> QED BY <1>1, <1>2, <2>1, <2>3, <3>1 DEF EmptyIsNext, Subframes
  <2> QED BY <1>3, <2>2, <2>3
<1> QED BY <1>5, <1>6

LEMMA PhyKeepsSchedule == MacInv /\ ScheduleInv /\ PhySubframe => ScheduleInv'
<1> SUFFICES ASSUME MacInv, ScheduleInv, PhySubframe PROVE ScheduleInv'
  OBVIOUS
<1>1. /\ pc = "phy" /\ pc' = "rrc" /\ now' = nextSubframe(now) /\ buf' = {}
      /\ UNCHANGED <<outQueue, lastRRC, lastIP, nextESF>>
  BY DEF PhySubframe
<1>2. now \in Times /\ outQueue \subseteq Packets /\ \A p \in outQueue : due(p) # now
  BY <1>1 DEF MacInv, MacTypeOK, QueueNeverStale
<1>3. pending = outQueue /\ pending' = outQueue /\ outQueue \ buf = outQueue
      /\ outQueue' \ buf' = outQueue
  BY <1>1 DEF pending, MacInv, Handed
<1>4. Sparse(outQueue, buf, now)'
  <2>1. ASSUME NEW p \in outQueue, p.kind \in Data
        PROVE  within(now', due(p), MaxTimeHorizon + 1)
    <3>1. due(p) \in Times /\ due(p) # now /\ within(now, due(p), MaxTimeHorizon + 1)
      BY <1>2, <2>1, DueIs DEF MacInv, QueueNeverStale
    <3>2. MaxTimeHorizon + 1 \in 0 .. NoFrames - 1
      BY FramesPositive, HalfIsBeyondHorizon
    <3> QED BY <1>1, <1>2, <3>1, <3>2, WindowAdvances
  <2>2. AtMostOneEach(buf')
    BY <1>1 DEF AtMostOneEach
  <2>3. AtMostOneEach(IsControl(outQueue))
    BY <1>3 DEF ScheduleInv, Sparse
  <2>4. Sparse(outQueue, {}, now')
    BY <1>1, <2>1, <2>2, <2>3 DEF ScheduleInv, Sparse
  <2> QED BY <1>1, <2>4 DEF Sparse, InPlace, due
<1>5. Chained'
  BY <1>3 DEF ScheduleInv, Chained
<1>6. OnTime'
  <2> SUFFICES ASSUME NEW p \in outQueue
               PROVE  /\ p.kind \in Recurrent => Upcoming(p)'
                      /\ p.kind = "EMPTY" => EmptyIsNext(p)'
    BY <1>3 DEF OnTime
  <2>1. /\ due(p) \in Times /\ due(p) # now
        /\ due(p).frame = p.frame /\ due(p).subframe = p.subframe
    BY <1>2, DueIs
  <2>2. ~ emitted(p.kind)'
    BY <1>1 DEF emitted
  <2>3. ASSUME p.kind \in Recurrent PROVE Upcoming(p)'
    <3>1. Upcoming(p) /\ period(p.kind) \in 1 .. 8
      BY <1>3, <2>3, PeriodIs DEF ScheduleInv, OnTime
    <3>2. sooner(nextSubframe(now), due(p), period(p.kind))
      BY <1>2, <2>1, <3>1, SoonerAdvances, PeriodAhead, ManyFrames DEF Upcoming
    <3> QED BY <1>1, <2>2, <3>2 DEF Upcoming, due
  <2>4. ASSUME p.kind = "EMPTY" PROVE EmptyIsNext(p)'
    <3>1. EmptyIsNext(p) /\ p \in outQueue \ buf
      BY <1>3, <2>4 DEF ScheduleInv, OnTime
    <3> QED BY <1>1, <2>1, <2>4, <3>1, EmptyStaysNext
  <2> QED BY <2>3, <2>4
<1>7. StreamOrder'
  BY <1>1 DEF ScheduleInv, StreamOrder, lastOf, due
<1> QED BY <1>1, <1>4, <1>5, <1>6, <1>7 DEF ScheduleInv

----------------------------------------------------------------------------
LEMMA ScheduleStep ==
  EnoughSlots /\ MacInv /\ ScheduleInv /\ [Next]_vars => ScheduleInv'
<1> SUFFICES ASSUME EnoughSlots, MacInv, ScheduleInv, [Next]_vars PROVE ScheduleInv'
  OBVIOUS
<1>1. CASE RrcIgnore \/ UplinkPut \/ UNCHANGED vars
  BY <1>1, OthersKeepSchedule DEF RrcIgnore, UplinkPut, vars
<1>2. CASE RrcFull \/ RrcDone
  BY <1>2, OthersKeepSchedule DEF RrcFull, RrcDone, leaveRRC
<1>3. CASE IpDone
  BY <1>3, OthersKeepSchedule DEF IpDone
<1>4. CASE RrcAnswer
  <2> DEFINE v == nextRRCSubframe(lastRRC)
             d == dataPacket("RRC", v)
  <2>1. MacTypeOK /\ now \in Times /\ lastRRC \in Times /\ recent(now, lastRRC) /\ pc = "rrc"
    BY <1>4 DEF MacInv, MacTypeOK, LastTimes, RrcAnswer
  <2>2. /\ v \in Times /\ within(now, v, MaxTimeHorizon + 1)
        /\ \/ v.frame = lastRRC.frame /\ v.subframe > lastRRC.subframe
           \/ v.frame = plusFrames(lastRRC.frame, 1)
    BY <1>4, <2>1, NextRRCIs, HorizonInWindow, ManyFrames DEF RrcAnswer
  <2>3. v.subframe = 2
    BY DEF nextRRCSubframe, At
  <2>4. /\ outQueue' = added(outQueue, d) /\ UNCHANGED <<now, pc, nextESF, buf>>
        /\ lastRRC' = v /\ lastIP' = lastIP
    BY <1>4 DEF RrcAnswer
  <2> HIDE DEF v
  <2>5. d \in Packets /\ due(d) = v /\ d.kind = "RRC" /\ "RRC" \in Data
    BY <2>1, <2>2, DataPacket DEF Data
  <2> HIDE DEF d
  <2>6. InPlace(d)
    BY <2>2, <2>3, <2>5, DueIs DEF InPlace, Control
  <2>7. lastOf("RRC") = lastRRC /\ \A k \in Data : lastOf(k)' = IF k = "RRC" THEN v ELSE lastOf(k)
    BY <2>4 DEF lastOf
  <2> QED BY <2>1, <2>2, <2>4, <2>5, <2>6, <2>7, DataKeepsSchedule
<1>5. CASE IpSchedule
  <2> DEFINE v == nextIPSubframe(lastIP)
             d == dataPacket("IP", v)
  <2>1. MacTypeOK /\ now \in Times /\ lastIP \in Times /\ recent(now, lastIP) /\ pc = "ip"
    BY <1>5 DEF MacInv, MacTypeOK, LastTimes, IpSchedule
  <2>2. /\ v \in Times /\ within(now, v, MaxTimeHorizon + 1)
        /\ \/ v.frame = lastIP.frame /\ v.subframe > lastIP.subframe
           \/ v.frame = plusFrames(lastIP.frame, 1)
    BY <1>5, <2>1, NextIPIs, HorizonInWindow, ManyFrames DEF IpSchedule
  <2>3. v.subframe \in DataSubF
    BY NextIPInDataSubF
  <2>4. /\ outQueue' = added(outQueue, d) /\ UNCHANGED <<now, pc, nextESF, buf>>
        /\ lastIP' = v /\ lastRRC' = lastRRC
    BY <1>5 DEF IpSchedule
  <2> HIDE DEF v
  <2>5. d \in Packets /\ due(d) = v /\ d.kind = "IP" /\ "IP" \in Data
    BY <2>1, <2>2, DataPacket DEF Data
  <2> HIDE DEF d
  <2>6. InPlace(d)
    BY <2>2, <2>3, <2>5, DueIs DEF InPlace, Control
  <2>7. lastOf("IP") = lastIP /\ \A k \in Data : lastOf(k)' = IF k = "IP" THEN v ELSE lastOf(k)
    BY <2>4 DEF lastOf, Data
  <2> QED BY <2>1, <2>2, <2>4, <2>5, <2>6, <2>7, DataKeepsSchedule
<1> QED BY <1>1, <1>2, <1>3, <1>4, <1>5, EmitKeepsSchedule, EmitDoneKeepsSchedule,
           PhyKeepsSchedule DEF Next, txStep

----------------------------------------------------------------------------
(* The refinement. *)

\* A set with at most one packet of each kind.
LEMMA ContentIs ==
  ASSUME NEW S, AtMostOneEach(S), NEW k \in Kinds
  PROVE  content(S)[k] = IF \E p \in S : p.kind = k THEN 1 ELSE 0
<1> DEFINE K == {p \in S : p.kind = k}
<1>1. content(S)[k] = Cardinality(K)
  BY DEF content
<1>2. CASE \E p \in S : p.kind = k
  <2>1. PICK p \in S : p.kind = k
    BY <1>2
  <2>2. K = {p}
    BY <2>1 DEF AtMostOneEach
  <2> QED BY <1>1, <1>2, <2>2, FS_Singleton
<1>3. CASE ~ \E p \in S : p.kind = k
  <2>1. K = {}
    BY <1>3
  <2> QED BY <1>1, <1>3, <2>1, FS_EmptySet
<1> QED BY <1>2, <1>3

LEMMA NothingIs == content({}) = Schedule!Nothing
<1>1. AtMostOneEach({})
  BY DEF AtMostOneEach
<1>2. \A k \in Kinds : content({})[k] = 0
  BY <1>1, ContentIs
<1>3. content({}) = [k \in Kinds |-> 0]
  BY <1>2 DEF content
<1>4. Kinds = Schedule!Control \union {"RRC", "IP"}
  BY DEF Kinds, Control, Data, Schedule!Control
<1> QED BY <1>3, <1>4 DEF Schedule!Nothing

\* Once everything due now is handed over, the PHY has the right packets.
LEMMA ScheduleKept ==
  ASSUME MacInv, ScheduleInv, pc = "emit", dueNow \subseteq buf
  PROVE  Schedule!GoodContent(content(buf), now)
<1>1. /\ now \in Times /\ buf \subseteq Packets /\ AtMostOneEach(buf)
      /\ \A p \in buf : due(p) = now /\ InPlace(p)
  BY DEF MacInv, MacTypeOK, Handed, ScheduleInv, Sparse
<1>2. ASSUME NEW k \in Control
      PROVE  (\E p \in buf : p.kind = k) <=> Schedule!Belongs(k, now)
  <2>1. ASSUME NEW p \in buf, p.kind = k PROVE Schedule!Belongs(k, now)
    BY <1>1, <2>1, ControlInPlace
  <2>2. ASSUME Schedule!Belongs(k, now), ~ emitted(k) PROVE FALSE
    <3>1. PICK p \in pending : p.kind = k
      BY DEF ScheduleInv, Chained
    <3>2. /\ p \in outQueue \ buf /\ p \in Packets /\ due(p) # now /\ InPlace(p)
          /\ due(p) \in Times /\ due(p).frame = p.frame /\ due(p).subframe = p.subframe
      BY DueIs DEF pending, dueNow, MacInv, MacTypeOK, ScheduleInv, Sparse
    <3>3. Schedule!Belongs(k, due(p))
      BY <3>1, <3>2, ControlInPlace
    <3>4. CASE k \in Recurrent
      <4>1. sooner(now, due(p), period(k))
        BY <2>2, <3>1, <3>4 DEF ScheduleInv, OnTime, Upcoming
      <4>2. /\ due(p).subframe = now.subframe
            /\ due(p).frame % period(k) = 0 /\ now.frame % period(k) = 0
        BY <1>1, <2>2, <3>2, <3>3, <3>4, RecurrentBelongs
      <4>3. period(k) \in {1, 2, 8}
        BY <3>4, PeriodIs
      <4>4. now = due(p)
        BY <1>1, <3>2, <4>1, <4>2, <4>3, NoneBetween
      <4> QED BY <3>2, <4>4
    <3>5. CASE k = "EMPTY"
      <4>1. EmptyIsNext(p) /\ p.subframe = EmptySubF[nextESF]
            /\ nextESF \in 1 .. Len(EmptySubF)
        BY <3>1, <3>2, <3>5, EmptyList
           DEF ScheduleInv, OnTime, MacInv, EmptyChain, MacTypeOK
      <4>2. PICK i \in DOMAIN EmptySubF : now.subframe = EmptySubF[i]
        BY <2>2, <3>5, BelongsIs
      <4>3. i \in 1 .. Len(EmptySubF) /\ EmptySubF[i] \in Subframes
            /\ EmptySubF[nextESF] \in Subframes
        BY <4>1, MacAssumption, EmptyList
      <4>4. ~ emitted("EMPTY")
        BY <2>2, <3>5
      <4>5. CASE p.frame = now.frame /\ p.subframe >= now.subframe
                 /\ \A j \in 1 .. Len(EmptySubF) : j < nextESF => EmptySubF[j] < now.subframe
        <5>1. p.subframe # now.subframe
          BY <1>1, <3>2, <4>5, TimeFields
        <5>2. ~ (i < nextESF)
          BY <4>2, <4>3, <4>5 DEF Subframes
        <5>3. i = nextESF \/ EmptySubF[nextESF] < EmptySubF[i]
          BY <4>1, <4>3, <5>2, EmptyList
        <5> QED BY <4>1, <4>2, <4>3, <4>5, <5>1, <5>3 DEF Subframes
      <4>6. CASE \A j \in 1 .. Len(EmptySubF) : EmptySubF[j] < now.subframe
        BY <4>2, <4>3, <4>6 DEF Subframes
      <4>7. now.subframe + 0 = now.subframe
        BY <1>1, TimeFields DEF Subframes
      <4> QED BY <4>1, <4>4, <4>5, <4>6, <4>7 DEF EmptyIsNext
    <3> QED BY <3>4, <3>5 DEF Recurrent, Control
  <2> QED BY <2>1, <2>2 DEF emitted
<1>3. ASSUME NEW k \in Schedule!Control
      PROVE  content(buf)[k] = IF Schedule!Belongs(k, now) THEN 1 ELSE 0
  <2>1. k \in Control /\ k \in Kinds
    BY DEF Schedule!Control, Control, Kinds
  <2> QED BY <1>1, <1>2, <2>1, ContentIs
<1>4. ASSUME NEW s \in {"RRC", "IP"}
      PROVE  content(buf)[s] = 0 \/ (content(buf)[s] = 1 /\ s \in Schedule!MayCarry(now))
  <2>1. s \in Kinds
    BY DEF Kinds, Data
  <2>2. CASE \E p \in buf : p.kind = s
    <3>1. PICK p \in buf : p.kind = s
      BY <2>2
    <3>2. p.subframe = now.subframe /\ InPlace(p)
      BY <1>1, DueIs
    <3>3. s \in Schedule!MayCarry(now)
      BY <3>1, <3>2 DEF InPlace, Schedule!MayCarry, Control
    <3> QED BY <1>1, <2>1, <2>2, <3>3, ContentIs
  <2>3. CASE ~ \E p \in buf : p.kind = s
    BY <1>1, <2>1, <2>3, ContentIs
  <2> QED BY <2>2, <2>3
<1> QED BY <1>3, <1>4 DEF Schedule!GoodContent

LEMMA ScheduleStepImplemented ==
  MacInv /\ ScheduleInv /\ [Next]_vars => [Schedule!Next]_(Schedule!scheduleVars)
<1> SUFFICES ASSUME MacInv, ScheduleInv, [Next]_vars
             PROVE  [Schedule!Next]_(Schedule!scheduleVars)
  OBVIOUS
<1> DEFINE air == content(IF pc = "phy" THEN buf ELSE {})
<1>1. CASE EmitDone
  <2>1. /\ pc = "emit" /\ pc' = "phy" /\ dueNow \subseteq buf
        /\ UNCHANGED <<now, buf>>
    BY <1>1 DEF EmitDone
  <2>2. air' = content(buf)
    BY <2>1 DEF content
  <2>3. Schedule!GoodContent(air', now)
    BY <2>1, <2>2, ScheduleKept
  <2>4. DOMAIN air' = DOMAIN Schedule!Nothing
    <3>1. DOMAIN air' = Kinds /\ DOMAIN Schedule!Nothing = Kinds
      BY <2>2, NothingIs DEF content
    <3> QED BY <3>1
  <2>5. Schedule!Build
    BY <2>1, <2>3, <2>4 DEF Schedule!Build
  <2> QED BY <2>5 DEF Schedule!Next
<1>2. CASE PhySubframe
  <2>1. pc = "phy" /\ pc' = "rrc" /\ now' = nextSubframe(now)
    BY <1>2 DEF PhySubframe
  <2>2. air' = Schedule!Nothing
    BY <2>1, NothingIs DEF content
  <2>3. Schedule!Advance
    BY <2>1, <2>2 DEF Schedule!Advance, Schedule!nextSubframe, nextSubframe,
                      Schedule!At, At, Schedule!plusFrames, plusFrames
  <2> QED BY <2>3 DEF Schedule!Next
<1>3. CASE UNCHANGED <<now, pc, buf>> \/ (pc # "phy" /\ pc' # "phy" /\ UNCHANGED now)
  <2>1. (pc = "phy")' = (pc = "phy") /\ UNCHANGED now /\ air' = air
    BY <1>3 DEF content
  <2> QED BY <2>1 DEF Schedule!scheduleVars
<1>4. ASSUME [Next]_vars, ~ EmitDone, ~ PhySubframe
      PROVE  UNCHANGED <<now, pc, buf>> \/ (pc # "phy" /\ pc' # "phy" /\ UNCHANGED now)
  BY <1>4 DEF Next, txStep, RrcIgnore, RrcAnswer, RrcFull, RrcDone, leaveRRC, IpSchedule,
              IpDone, Emit, UplinkPut, vars
<1> QED BY <1>1, <1>2, <1>3, <1>4

\* The PHY gets, subframe after subframe, exactly the control packets that the
\* schedule asks for and at most one packet of each data stream, in its own
\* subframes: no recurrent packet is ever dropped, delayed or sent twice,
\* whatever the traffic, if the queue has enough slots and there are empty
\* subframes (without them DCI0 is queued twice, see Init).
THEOREM SchedulerImplementsSchedule ==
  ASSUME EnoughSlots, EmptySubF # <<>>
  PROVE  Spec => ImplementsDlSchedule
<1>1. Init => Schedule!Init
  BY NothingIs DEF Init, Schedule!Init, Schedule!At, At
<1>2. Init => MacInv /\ ScheduleInv
  BY InitEstablishes, InitSchedule
<1>3. MacInv /\ ScheduleInv /\ [Next]_vars => ScheduleInv'
  BY ScheduleStep
<1>4. MacInv /\ ScheduleInv /\ [Next]_vars => [Schedule!Next]_(Schedule!scheduleVars)
  BY ScheduleStepImplemented
<1> QED BY <1>1, <1>2, <1>3, <1>4, MacInvHolds, PTL
        DEF Spec, ImplementsDlSchedule, Schedule!Spec

----------------------------------------------------------------------------
(***************************************************************************)
(* HARQ.  With one data stream the packets go out in the order in which    *)
(* they got their process and NDI.  Let the data packets be numbered in    *)
(* that order: number i has process i % MaxHARQ, and the NDI changes every *)
(* MaxHARQ packets.  Those with the numbers m .. n - 1 are still to be     *)
(* sent, in this order, and no process of the phone has seen the NDI of    *)
(* the next packet that is for it.                                         *)
(***************************************************************************)
harqOf(i) == i % MaxHARQ
ndiOf(i) == (i \div MaxHARQ) % 2

Waiting == {p \in outQueue \ buf : p.kind \in Data}

Numbered(s, m, n) ==
  /\ \A p : p \in Waiting <=> \E i \in m .. n - 1 : s[i] = p
  /\ \A i \in m .. n - 1 : s[i].harq = harqOf(i) /\ s[i].ndi = ndiOf(i)
  /\ \A i, j \in m .. n - 1 : i < j =>
       within(due(s[i]), due(s[j]), MaxTimeHorizon + 1) /\ due(s[i]) # due(s[j])

Awaits(m) == \A i \in m .. m + MaxHARQ - 1 : phoneNdi[harqOf(i)] # ndiOf(i)

HarqInv ==
  /\ rxQueue = <<>> /\ \A p \in outQueue : p.kind # "RRC"
  /\ phoneNdi \in [0 .. MaxHARQ - 1 -> {-1, 0, 1}]
  /\ \E m \in Nat, n \in Nat :
       /\ m <= n /\ lastHARQ = harqOf(n) /\ lastNDI = ndiOf(n)
       /\ Awaits(m)
       /\ \E s : Numbered(s, m, n)

\* Counting on: the process is the next one, and after the last one the NDI
\* changes.
LEMMA NextNumber ==
  ASSUME NEW n \in Nat
  PROVE  IF harqOf(n) = MaxHARQ - 1
         THEN harqOf(n + 1) = 0 /\ ndiOf(n + 1) = (ndiOf(n) + 1) % 2
         ELSE harqOf(n + 1) = harqOf(n) + 1 /\ ndiOf(n + 1) = ndiOf(n)
<1> DEFINE M == MaxHARQ
<1>1. M \in Nat \ {0}
  BY MacAssumption
<1> HIDE DEF M
<1>2. PICK q \in Nat, r \in 0 .. M - 1 : n = M * q + r /\ n % M = r /\ n \div M = q
  <2>1. n \div M \in Nat /\ (n % M) \in 0 .. M - 1 /\ n = M * (n \div M) + (n % M)
    BY <1>1
  <2> QED BY <2>1
<1>3. CASE r = M - 1
  <2> DEFINE k == q + 1
             z == 0
  <2>1. n + 1 = M * k + z /\ z \in 0 .. M - 1 /\ k \in Nat
    BY <1>1, <1>2, <1>3
  <2> HIDE DEF k, z
  <2>2. (n + 1) % M = z /\ (n + 1) \div M = k
    BY <1>1, <2>1, QuotientIs, RemainderUnique
  <2>3. (q + 1) % 2 = ((q % 2) + 1) % 2
    OBVIOUS
  <2> QED BY <1>2, <1>3, <2>2, <2>3 DEF harqOf, ndiOf, M, k, z
<1>4. CASE r # M - 1
  <2>1. n + 1 = M * q + (r + 1) /\ r + 1 \in 0 .. M - 1
    BY <1>1, <1>2, <1>4
  <2>2. (n + 1) % M = r + 1 /\ (n + 1) \div M = q
    BY <1>1, <2>1, QuotientIs, RemainderUnique
  <2> QED BY <1>2, <1>4, <2>2 DEF harqOf, ndiOf, M
<1> QED BY <1>3, <1>4
\* One round later the process is the same and the NDI is the other one.
LEMMA NextRound ==
  ASSUME NEW n \in Nat
  PROVE  harqOf(n + MaxHARQ) = harqOf(n) /\ ndiOf(n + MaxHARQ) # ndiOf(n)
<1> DEFINE M == MaxHARQ
<1>1. M \in Nat \ {0}
  BY MacAssumption
<1> HIDE DEF M
<1>2. PICK q \in Nat, r \in 0 .. M - 1 : n = M * q + r /\ n % M = r /\ n \div M = q
  <2>1. n \div M \in Nat /\ (n % M) \in 0 .. M - 1 /\ n = M * (n \div M) + (n % M)
    BY <1>1
  <2> QED BY <2>1
<1> DEFINE k == q + 1
<1>3. n + M = M * k + r /\ k \in Nat
  BY <1>1, <1>2
<1>4. k % 2 # q % 2
  BY <1>2
<1> HIDE DEF k
<1>5. (n + M) % M = r /\ (n + M) \div M = k
  BY <1>1, <1>2, <1>3, QuotientIs, RemainderUnique
<1> QED BY <1>2, <1>4, <1>5 DEF harqOf, ndiOf, M

LEMMA HarqRange ==
  ASSUME NEW n \in Nat
  PROVE  harqOf(n) \in 0 .. MaxHARQ - 1 /\ ndiOf(n) \in {0, 1}
<1>1. harqOf(n) \in 0 .. MaxHARQ - 1
  <2>1. MaxHARQ \in Nat \ {0} /\ n \in Int
    BY MacAssumption
  <2> QED BY <2>1, RemainderRange DEF harqOf
<1>2. n \div MaxHARQ \in Nat
  BY MacAssumption
<1> QED BY <1>1, <1>2 DEF ndiOf

\* Two times in each other's window are equal.
LEMMA WithinBoth ==
  ASSUME NEW t \in Times, NEW u \in Times,
         within(t, u, MaxTimeHorizon + 1), within(u, t, MaxTimeHorizon + 1)
  PROVE  t = u
<1> DEFINE k == MaxTimeHorizon + 1
           a == framesAhead(t.frame, u.frame)
           b == framesAhead(u.frame, t.frame)
<1>1. /\ t.frame \in Frames /\ t.subframe \in Subframes
      /\ u.frame \in Frames /\ u.subframe \in Subframes
      /\ (t.frame = u.frame /\ t.subframe = u.subframe) => t = u
  BY TimeFields
<1>2. k \in Nat /\ 2 * k + 2 <= NoFrames /\ NoFrames \in Nat
  BY FramesPositive, HalfIsBeyondHorizon
<1>3. /\ a \in 0 .. k /\ (a = 0 => t.subframe <= u.subframe)
      /\ b \in 0 .. k /\ (b = 0 => u.subframe <= t.subframe)
  <2> HIDE DEF k
  <2> QED BY <1>2, WithinIs DEF k
<1>4. /\ a = IF t.frame <= u.frame THEN u.frame - t.frame ELSE NoFrames + u.frame - t.frame
      /\ b = IF u.frame <= t.frame THEN t.frame - u.frame ELSE NoFrames + t.frame - u.frame
  BY <1>1, FramesAheadIs
<1>5. t.frame \in Nat /\ u.frame \in Nat /\ t.subframe \in Nat /\ u.subframe \in Nat
  BY <1>1 DEF Frames, Subframes
<1>6. t.frame = u.frame /\ a = 0 /\ b = 0
  <2> HIDE DEF a, b, k
  <2> QED BY <1>2, <1>3, <1>4, <1>5
<1> QED BY <1>1, <1>3, <1>5, <1>6

\* The invariant speaks of these only.
LEMMA HarqUnchanged ==
  ASSUME HarqInv, UNCHANGED <<lastHARQ, lastNDI, phoneNdi>>, Waiting' = Waiting,
         outQueue' \subseteq outQueue, rxQueue' = rxQueue
  PROVE  HarqInv'
<1>1. PICK m \in Nat, n \in Nat :
        /\ m <= n /\ lastHARQ = harqOf(n) /\ lastNDI = ndiOf(n)
        /\ Awaits(m)
        /\ \E s : Numbered(s, m, n)
  BY DEF HarqInv
<1>2. PICK s : Numbered(s, m, n)
  BY <1>1
<1>3. Awaits(m)' /\ Numbered(s, m, n)'
  BY <1>1, <1>2 DEF Awaits, Numbered, harqOf, ndiOf, due
<1>4. lastHARQ' = harqOf(n) /\ lastNDI' = ndiOf(n)
  BY <1>1
<1> QED BY <1>1, <1>3, <1>4 DEF HarqInv, harqOf, ndiOf

\* A packet is scheduled: it gets the next number.
LEMMA ScheduleNumbers ==
  ASSUME EnoughSlots, MacInv, ScheduleInv, HarqInv, IpSchedule, UNCHANGED phoneNdi
  PROVE  HarqInv'
<1> DEFINE v == nextIPSubframe(lastIP)
           d == dataPacket("IP", v)
<1>1. MacTypeOK /\ now \in Times /\ lastIP \in Times /\ recent(now, lastIP) /\ pc = "ip"
  BY DEF MacInv, MacTypeOK, LastTimes, IpSchedule
<1>2. /\ v \in Times /\ within(now, v, MaxTimeHorizon + 1)
      /\ \/ v.frame = lastIP.frame /\ v.subframe > lastIP.subframe
         \/ v.frame = plusFrames(lastIP.frame, 1)
  BY <1>1, NextIPIs, HorizonInWindow, ManyFrames DEF IpSchedule
<1>3. v.subframe \in DataSubF
  BY NextIPInDataSubF
<1>4. /\ outQueue' = added(outQueue, d) /\ updateHARQ
      /\ UNCHANGED <<buf, rxQueue>>
  BY DEF IpSchedule, envVars
<1>5. d.harq = lastHARQ /\ d.ndi = lastNDI
  BY DEF dataPacket
<1> HIDE DEF v
<1>6. d \in Packets /\ due(d) = v /\ d.kind = "IP" /\ "IP" \in Data
  BY <1>1, <1>2, DataPacket DEF Data
<1> HIDE DEF d
<1>7. InPlace(d)
  BY <1>2, <1>3, <1>6, DueIs DEF InPlace, Control
<1>8. /\ outQueue' = outQueue \union {d} /\ buf = {}
      /\ \A p \in outQueue : p.kind = "IP" =>
           within(due(p), v, MaxTimeHorizon + 1) /\ due(p) # v
  <2>1. lastOf("IP") = lastIP
    BY DEF lastOf
  <2> QED BY <1>1, <1>2, <1>4, <1>6, <1>7, <2>1, DataFindsSlot
<1>9. PICK m \in Nat, n \in Nat :
        /\ m <= n /\ lastHARQ = harqOf(n) /\ lastNDI = ndiOf(n)
        /\ Awaits(m)
        /\ \E s : Numbered(s, m, n)
  BY DEF HarqInv
<1>10. PICK s : Numbered(s, m, n)
  BY <1>9
<1>11. PICK r : r[n] = d /\ \A i \in m .. n - 1 : r[i] = s[i]
  <2> DEFINE r == [i \in m .. n |-> IF i = n THEN d ELSE s[i]]
  <2>1. r[n] = d /\ \A i \in m .. n - 1 : r[i] = s[i]
    BY <1>9
  <2> HIDE DEF r
  <2> QED BY <2>1
<1>12. m .. (n + 1) - 1 = m .. n /\ \A i \in m .. n : i = n \/ i \in m .. n - 1
  BY <1>9
<1>13. Waiting' = Waiting \union {d}
  BY <1>4, <1>6, <1>8 DEF Waiting
<1>14. \A i \in m .. n - 1 : s[i] \in outQueue /\ s[i].kind = "IP"
  BY <1>10 DEF Numbered, Waiting, HarqInv, Data
<1>15. Numbered(r, m, n + 1)'
  <2>1. \A p : p \in Waiting' <=> \E i \in m .. n : r[i] = p
    <3>1. n \in m .. n /\ \A i \in m .. n - 1 : i \in m .. n
      BY <1>9
    <3> QED BY <1>10, <1>11, <1>12, <1>13, <3>1 DEF Numbered
  <2>2. \A i \in m .. n : r[i].harq = harqOf(i) /\ r[i].ndi = ndiOf(i)
    BY <1>5, <1>9, <1>10, <1>11, <1>12 DEF Numbered
  <2>3. ASSUME NEW i \in m .. n, NEW j \in m .. n, i < j
        PROVE  within(due(r[i]), due(r[j]), MaxTimeHorizon + 1) /\ due(r[i]) # due(r[j])
    <3>1. i \in m .. n - 1 /\ r[i] = s[i]
      BY <1>9, <1>11, <2>3
    <3>2. CASE j = n
      BY <1>6, <1>8, <1>11, <1>14, <3>1, <3>2
    <3>3. CASE j # n
      <4>1. j \in m .. n - 1 /\ r[j] = s[j]
        BY <1>11, <1>12, <3>3
      <4> QED BY <1>10, <2>3, <3>1, <4>1 DEF Numbered
    <3> QED BY <3>2, <3>3
  <2>4. PICK k : k = n + 1 /\ m .. k - 1 = m .. n
    BY <1>12
  <2>5. \A i \in m .. k - 1 : (r[i].harq = harqOf(i) /\ r[i].ndi = ndiOf(i))'
    BY <2>2, <2>4 DEF harqOf, ndiOf
  <2>6. \A i, j \in m .. k - 1 : i < j =>
          (within(due(r[i]), due(r[j]), MaxTimeHorizon + 1) /\ due(r[i]) # due(r[j]))'
    BY <2>3, <2>4 DEF due
  <2>7. \A p : p \in Waiting' <=> \E i \in m .. k - 1 : r[i] = p
    BY <2>1, <2>4
  <2>8. Numbered(r, m, k)'
    BY <2>5, <2>6, <2>7 DEF Numbered
  <2> QED BY <2>4, <2>8
<1>16. lastHARQ' = harqOf(n + 1) /\ lastNDI' = ndiOf(n + 1)
  BY <1>4, <1>9, NextNumber DEF updateHARQ
<1>17. Awaits(m)'
  BY <1>9 DEF Awaits, harqOf, ndiOf
<1>18. /\ rxQueue' = <<>> /\ \A p \in outQueue' : p.kind # "RRC"
       /\ phoneNdi' \in [0 .. MaxHARQ - 1 -> {-1, 0, 1}]
  BY <1>4, <1>6, <1>8 DEF HarqInv
<1>19. n + 1 \in Nat /\ m <= n + 1
  BY <1>9
<1> QED BY <1>9, <1>15, <1>16, <1>17, <1>18, <1>19 DEF HarqInv, harqOf, ndiOf

\* A data packet that is handed over is the one with the first number: the
\* phone has not seen its NDI.
LEMMA HandedIsFirst ==
  ASSUME MacInv, HarqInv, NEW p \in dueNow \ buf, p.kind \in Data,
         NEW m \in Nat, NEW n \in Nat, NEW s, Numbered(s, m, n), Awaits(m)
  PROVE  m < n /\ p = s[m] /\ phoneNdi[p.harq] # p.ndi
<1>1. p \in Waiting /\ due(p) = now
  BY DEF dueNow, Waiting
<1>2. PICK j \in m .. n - 1 : s[j] = p
  BY <1>1 DEF Numbered
<1>3. m \in m .. n - 1 /\ m < n /\ m <= j
  BY <1>2
<1>4. s[m] \in outQueue /\ s[m].kind \in Data /\ s[m] \in Packets /\ now \in Times
  BY <1>3 DEF Numbered, Waiting, MacInv, MacTypeOK
<1>5. within(now, due(s[m]), MaxTimeHorizon + 1) /\ due(s[m]) \in Times
  BY <1>4, DueIs DEF MacInv, QueueNeverStale
<1>6. j = m
  <2>1. SUFFICES ASSUME m < j PROVE FALSE
    BY <1>2, <1>3
  <2>2. within(due(s[m]), now, MaxTimeHorizon + 1) /\ due(s[m]) # now
    BY <1>1, <1>2, <1>3, <2>1 DEF Numbered
  <2> QED BY <1>4, <1>5, <2>2, WithinBoth
<1>7. p.harq = harqOf(m) /\ p.ndi = ndiOf(m)
  BY <1>2, <1>6 DEF Numbered
<1>8. m \in m .. m + MaxHARQ - 1
  BY MacAssumption
<1>9. phoneNdi[harqOf(m)] # ndiOf(m)
  BY <1>8 DEF Awaits
<1> QED BY <1>2, <1>3, <1>6, <1>7, <1>9

\* What a step hands over: nothing, or one packet that is due.
LEMMA HandedIs ==
  ASSUME Next
  PROVE  \/ transmitted = {}
         \/ \E p \in dueNow \ buf :
              /\ p.kind \in Data /\ transmitted = {p} /\ Emit
              /\ buf' = buf \union {p} /\ UNCHANGED <<outQueue, harqVars, rxQueue>>
<1>1. CASE Emit
  <2>1. PICK p \in dueNow \ buf :
          /\ buf' = buf \union {p}
          /\ \/ \E n \in followUp(p) : outQueue' = added(outQueue, n)
             \/ followUp(p) = {} /\ UNCHANGED outQueue
          /\ UNCHANGED <<harqVars, envVars>>
    BY <1>1 DEF Emit
  <2>2. transmitted = IF p.kind \in Data THEN {p} ELSE {}
    BY <2>1 DEF transmitted
  <2>3. p.kind \in Data => followUp(p) = {}
    BY DEF followUp, Data
  <2> QED BY <1>1, <2>1, <2>2, <2>3 DEF envVars
<1>2. CASE ~ Emit
  BY <1>2 DEF Next, txStep, RrcIgnore, RrcAnswer, RrcFull, RrcDone, IpSchedule, IpDone,
              EmitDone, PhySubframe, UplinkPut, leaveRRC, transmitted
<1> QED BY <1>1, <1>2

\* A packet is handed over: it is no longer awaited.
LEMMA HandedKeepsOrder ==
  ASSUME MacInv, HarqInv, NEW p \in dueNow \ buf, p.kind \in Data,
         buf' = buf \union {p}, UNCHANGED <<outQueue, harqVars, rxQueue>>,
         phoneNdi' = [h \in DOMAIN phoneNdi |-> IF p.harq = h THEN p.ndi ELSE phoneNdi[h]]
  PROVE  HarqInv'
<1>1. PICK m \in Nat, n \in Nat :
        /\ m <= n /\ lastHARQ = harqOf(n) /\ lastNDI = ndiOf(n)
        /\ Awaits(m)
        /\ \E s : Numbered(s, m, n)
  BY DEF HarqInv
<1>2. PICK s : Numbered(s, m, n)
  BY <1>1
<1>3. m < n /\ p = s[m]
  BY <1>1, <1>2, HandedIsFirst
<1>4. PICK k : k = m + 1
  OBVIOUS
<1>5. k \in Nat /\ k <= n /\ m \in m .. n - 1 /\ \A i \in k .. n - 1 : i \in m .. n - 1 /\ m < i
  BY <1>3, <1>4
<1>6. p.harq = harqOf(m) /\ p.ndi = ndiOf(m)
  BY <1>2, <1>3, <1>5 DEF Numbered
<1>7. Numbered(s, k, n)'
  <2>1. Waiting' = Waiting \ {p}
    BY DEF Waiting
  <2>2. \A i \in k .. n - 1 : s[i] # p
    BY <1>2, <1>3, <1>5 DEF Numbered
  <2>3. ASSUME NEW q
        PROVE  q \in Waiting' <=> \E i \in k .. n - 1 : s[i] = q
    <3>1. \A i \in m .. n - 1 : i = m \/ i \in k .. n - 1
      BY <1>4
    <3> QED BY <1>2, <1>3, <1>5, <2>1, <2>2, <3>1 DEF Numbered
  <2>4. \A i \in k .. n - 1 : (s[i].harq = harqOf(i) /\ s[i].ndi = ndiOf(i))'
    BY <1>2, <1>5 DEF Numbered, harqOf, ndiOf
  <2>5. \A i, j \in k .. n - 1 : i < j =>
          (within(due(s[i]), due(s[j]), MaxTimeHorizon + 1) /\ due(s[i]) # due(s[j]))'
    BY <1>2, <1>5 DEF Numbered, due
  <2> QED BY <2>3, <2>4, <2>5 DEF Numbered
<1>8. Awaits(k)'
  <2> SUFFICES ASSUME NEW i \in k .. k + MaxHARQ - 1
               PROVE  phoneNdi'[harqOf(i)] # ndiOf(i)
    BY DEF Awaits, harqOf, ndiOf
  <2>0. i \in Nat /\ MaxHARQ \in Nat \ {0}
    BY <1>5, MacAssumption
  <2>1. harqOf(i) \in DOMAIN phoneNdi
    BY <2>0, HarqRange DEF HarqInv
  <2>2. CASE i = m + MaxHARQ
    <3>1. harqOf(i) = harqOf(m) /\ ndiOf(i) # ndiOf(m)
      BY <2>2, NextRound
    <3> QED BY <1>6, <2>1, <3>1
  <2>3. CASE i # m + MaxHARQ
    <3>1. i \in m .. m + MaxHARQ - 1 /\ m < i /\ i - m < MaxHARQ
      BY <1>4, <2>0, <2>3
    <3>2. harqOf(m) # harqOf(i)
      BY <2>0, <3>1, NearResiduesDiffer DEF harqOf
    <3>3. phoneNdi[harqOf(i)] # ndiOf(i)
      BY <1>1, <3>1 DEF Awaits
    <3> QED BY <1>6, <2>1, <3>2, <3>3
  <2> QED BY <2>2, <2>3
<1>9. lastHARQ' = harqOf(n) /\ lastNDI' = ndiOf(n)
  BY <1>1 DEF harqVars
<1>10. /\ rxQueue' = <<>> /\ \A q \in outQueue' : q.kind # "RRC"
       /\ phoneNdi' \in [0 .. MaxHARQ - 1 -> {-1, 0, 1}]
  <2>1. p.ndi \in {0, 1} /\ phoneNdi \in [0 .. MaxHARQ - 1 -> {-1, 0, 1}]
    BY DEF dueNow, MacInv, MacTypeOK, Packets, HarqInv
  <2> QED BY <2>1 DEF HarqInv
<1> QED BY <1>1, <1>5, <1>7, <1>8, <1>9, <1>10 DEF HarqInv, harqOf, ndiOf

\* The other steps send nothing and number nothing.
LEMMA OthersKeepOrder ==
  ASSUME MaxUplink = 0, MacInv, ScheduleInv, HarqInv, UNCHANGED phoneNdi, transmitted = {},
         (Next /\ ~ IpSchedule) \/ UNCHANGED vars
  PROVE  HarqInv'
<1>1. CASE UNCHANGED vars
  BY <1>1, HarqUnchanged DEF vars, harqVars, envVars, Waiting
<1>2. CASE RrcFull \/ RrcDone
  BY <1>2, HarqUnchanged DEF RrcFull, RrcDone, leaveRRC, envVars, harqVars, Waiting, HarqInv
<1>3. CASE IpDone
  BY <1>3, HarqUnchanged DEF IpDone, envVars, harqVars, Waiting
<1>4. CASE RrcIgnore \/ RrcAnswer
  BY <1>4 DEF RrcIgnore, RrcAnswer, HarqInv
<1>5. CASE EmitDone
  <2>1. Waiting' = Waiting
    BY <1>5 DEF EmitDone, Waiting
  <2>2. outQueue' \subseteq outQueue /\ UNCHANGED <<lastHARQ, lastNDI, rxQueue>>
    BY <1>5 DEF EmitDone, harqVars, envVars
  <2> QED BY <2>1, <2>2, HarqUnchanged
<1>6. CASE PhySubframe
  <2>1. Waiting' = Waiting
    BY <1>6 DEF PhySubframe, Waiting, MacInv, Handed
  <2>2. outQueue' \subseteq outQueue /\ UNCHANGED <<lastHARQ, lastNDI, rxQueue>>
    BY <1>6 DEF PhySubframe, harqVars
  <2> QED BY <2>1, <2>2, HarqUnchanged
<1>7. CASE UplinkPut
  <2>1. uplinks < 0 /\ uplinks \in Nat
    BY <1>7 DEF UplinkPut, MacInv, MacTypeOK
  <2> QED BY <2>1
<1>8. CASE Emit
  <2>1. PICK p \in dueNow \ buf :
          /\ buf' = buf \union {p}
          /\ \/ \E n \in followUp(p) : outQueue' = added(outQueue, n)
             \/ followUp(p) = {} /\ UNCHANGED outQueue
          /\ pc = "emit"
          /\ UNCHANGED <<harqVars, envVars>>
    BY <1>8 DEF Emit
  <2>2. p.kind \notin Data /\ p \in Packets
    BY <2>1 DEF transmitted, dueNow, MacInv, MacTypeOK
  <2>3. p.kind \in Control
    BY <2>2, KindOfPacket DEF Packets, Kinds
  <2>4. PICK n \in Packets : followUp(p) = {n} /\ n.kind = p.kind
    BY <2>1, <2>3, SuccessorInPlace
  <2>5. outQueue' = outQueue \/ outQueue' = outQueue \union {n}
    BY <2>1, <2>4, AddedIs
  <2>6. Waiting' = Waiting
    BY <2>1, <2>2, <2>4, <2>5 DEF Waiting
  <2>7. PICK i \in Nat, k \in Nat :
        /\ i <= k /\ lastHARQ = harqOf(k) /\ lastNDI = ndiOf(k)
        /\ Awaits(i)
        /\ \E s : Numbered(s, i, k)
    BY DEF HarqInv
  <2>8. PICK s : Numbered(s, i, k)
    BY <2>7
  <2>9. Awaits(i)' /\ Numbered(s, i, k)'
    BY <2>6, <2>7, <2>8 DEF Awaits, Numbered, harqOf, ndiOf, due
  <2>10. \A q \in outQueue' : q.kind # "RRC"
    BY <2>3, <2>4, <2>5 DEF HarqInv, Control
  <2>11. lastHARQ' = harqOf(k) /\ lastNDI' = ndiOf(k) /\ rxQueue' = <<>>
    BY <2>1, <2>7 DEF HarqInv, harqVars, envVars
  <2> QED BY <2>7, <2>9, <2>10, <2>11 DEF HarqInv, harqOf, ndiOf
<1> QED BY <1>1, <1>2, <1>3, <1>4, <1>5, <1>6, <1>7, <1>8 DEF Next, txStep

LEMMA HarqStep ==
  ASSUME EnoughSlots, MaxUplink = 0, MacInv, ScheduleInv, HarqInv,
         [PhoneNext]_harqViewVars
  PROVE  HarqInv' /\ \A p \in transmitted : p.ndi # phoneNdi[p.harq]
<1>1. CASE UNCHANGED harqViewVars
  <2>1. transmitted = {} /\ UNCHANGED phoneNdi /\ UNCHANGED vars
    BY <1>1 DEF harqViewVars, transmitted, vars
  <2> QED BY <2>1, OthersKeepOrder
<1>2. CASE PhoneNext
  <2>1. Next /\ phoneNdi' = [h \in DOMAIN phoneNdi |->
                    IF \E p \in transmitted : p.harq = h
                    THEN (CHOOSE p \in transmitted : p.harq = h).ndi
                    ELSE phoneNdi[h]]
    BY <1>2 DEF PhoneNext
  <2>2. CASE transmitted = {}
    <3>1. UNCHANGED phoneNdi
      <4>1. phoneNdi' = [h \in DOMAIN phoneNdi |-> phoneNdi[h]]
        BY <2>1, <2>2
      <4>2. phoneNdi = [h \in DOMAIN phoneNdi |-> phoneNdi[h]]
        BY DEF HarqInv
      <4> QED BY <4>1, <4>2
    <3>2. CASE IpSchedule
      BY <2>2, <3>1, <3>2, ScheduleNumbers
    <3>3. CASE ~ IpSchedule
      BY <2>1, <2>2, <3>1, <3>3, OthersKeepOrder
    <3> QED BY <2>2, <3>2, <3>3
  <2>3. ASSUME NEW p \in dueNow \ buf, p.kind \in Data, transmitted = {p},
               buf' = buf \union {p}, UNCHANGED <<outQueue, harqVars, rxQueue>>
        PROVE  HarqInv' /\ p.ndi # phoneNdi[p.harq]
    <3>1. \A h : (\E q \in transmitted : q.harq = h) <=> p.harq = h
      BY <2>3
    <3>2. \A h : p.harq = h => (CHOOSE q \in transmitted : q.harq = h) = p
      BY <2>3
    <3>3. phoneNdi' = [h \in DOMAIN phoneNdi |-> IF p.harq = h THEN p.ndi ELSE phoneNdi[h]]
      BY <2>1, <3>1, <3>2
    <3>4. p.ndi # phoneNdi[p.harq]
      <4>1. PICK m \in Nat, n \in Nat : Awaits(m) /\ \E s : Numbered(s, m, n)
        BY DEF HarqInv
      <4> QED BY <2>3, <4>1, HandedIsFirst
    <3> QED BY <2>3, <3>3, <3>4, HandedKeepsOrder
  <2> QED BY <2>1, <2>2, <2>3, HandedIs
<1> QED BY <1>1, <1>2

LEMMA HarqBegins == PhoneInit => HarqInv
<1> SUFFICES ASSUME PhoneInit PROVE HarqInv
  OBVIOUS
<1>1. Init /\ phoneNdi = [h \in 0 .. MaxHARQ - 1 |-> -1] /\ rxQueue = <<>> /\ outQueue = initialPackets
      /\ lastHARQ = 0 /\ lastNDI = 0
  BY DEF PhoneInit, Init
<1>2. \A p \in outQueue : p.kind \in Control
  BY <1>1 DEF initialPackets, fill_SIB2, fill_RAR, fill_SIB1, fill_DCI0, fill_EMPTY,
              fillControl, Control
<1>3. Waiting = {} /\ \A p \in outQueue : p.kind # "RRC"
  BY <1>2 DEF Waiting, Control, Data
<1>4. MaxHARQ \in Nat \ {0} /\ 0 % MaxHARQ = 0 /\ 0 \div MaxHARQ = 0
  <2>1. MaxHARQ \in Nat \ {0} /\ 0 \in 0 .. MaxHARQ - 1
    BY MacAssumption
  <2> DEFINE M == MaxHARQ
             z == 0
  <2>2. M * 0 + z = z /\ M \in Nat \ {0} /\ z \in 0 .. M - 1
    BY <2>1
  <2> HIDE DEF M, z
  <2>3. (M * 0 + z) % M = z /\ (M * 0 + z) \div M = 0
    BY <2>2, QuotientIs, RemainderUnique
  <2> QED BY <2>1, <2>2, <2>3 DEF M, z
<1>5. harqOf(0) = 0 /\ ndiOf(0) = 0
  BY <1>4 DEF harqOf, ndiOf
<1>6. Awaits(0)
  <2> SUFFICES ASSUME NEW i \in 0 .. 0 + MaxHARQ - 1
               PROVE  phoneNdi[harqOf(i)] # ndiOf(i)
    BY DEF Awaits
  <2>1. harqOf(i) \in 0 .. MaxHARQ - 1 /\ ndiOf(i) \in {0, 1}
    BY HarqRange
  <2> QED BY <1>1, <2>1
<1>7. Numbered(<<>>, 0, 0)
  <2>1. 0 .. 0 - 1 = {}
    OBVIOUS
  <2> QED BY <1>3, <2>1 DEF Numbered
<1> QED BY <1>1, <1>3, <1>5, <1>6, <1>7 DEF HarqInv

\* A phone never takes a new packet for a retransmission, for every number of
\* processes and across the wrap of the frame counter, if the queue never
\* drops a packet and there is one data stream: without uplink traffic there
\* are no RRC answers.  (With two streams the code breaks this: the run
\* harq_two_streams.)
THEOREM NdiAlwaysToggles ==
  ASSUME EnoughSlots, EmptySubF # <<>>, MaxUplink = 0
  PROVE  PhoneSpec => NdiToggles
<1>1. PhoneInit => Init
  BY DEF PhoneInit
<1>2. [PhoneNext]_harqViewVars => [Next]_vars
  BY DEF PhoneNext, harqViewVars
<1>3. Init => MacInv /\ ScheduleInv
  BY InitEstablishes, InitSchedule
<1>4. MacInv /\ ScheduleInv /\ [Next]_vars => ScheduleInv'
  BY ScheduleStep
<1>5. MacInv /\ ScheduleInv /\ HarqInv /\ [PhoneNext]_harqViewVars =>
        HarqInv' /\ [\A p \in transmitted : p.ndi # phoneNdi[p.harq]]_harqViewVars
  BY HarqStep
<1>6. PhoneSpec => Spec
  BY <1>1, <1>2, PTL DEF PhoneSpec, Spec
<1> QED BY <1>1, <1>2, <1>3, <1>4, <1>5, <1>6, HarqBegins, MacInvHolds, PTL
        DEF PhoneSpec, Spec, NdiToggles

=============================================================================
