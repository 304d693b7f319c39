----------------------- MODULE MacTxOutQueueProofs -----------------------
(***************************************************************************)
(* The out queue, for every queue length and every set of packets: its     *)
(* types, the exactness of outQueueSize, and that it implements the table  *)
(* of PacketTable.                                                         *)
(***************************************************************************)
EXTENDS MacTxOutQueue, NaturalFacts

\* add's search: it ends on the first slot that is not taken, or on n.
LEMMA FirstFitIsFirst ==
  ASSUME NEW q, NEW n \in Nat
  PROVE  LET i == FirstFit(q, n) IN
         /\ i \in 0 .. n
         /\ i = n \/ q[i] = Free
         /\ \A j \in 0 .. i - 1 : q[j] # Free
<1> DEFINE T == {i \in 0 .. n : i = n \/ q[i] = Free}
<1>1. PICK i \in T : \A k \in T : i <= k
  <2>1. n \in T /\ T \in SUBSET Nat
    OBVIOUS
  <2> HIDE DEF T
  <2> QED BY <2>1, LeastElement
<1>2. \A j \in 0 .. i - 1 : q[j] # Free
  <2> SUFFICES ASSUME NEW j \in 0 .. i - 1, q[j] = Free PROVE FALSE
    OBVIOUS
  <2> QED BY <1>1
<1>3. \E k \in 0 .. n :
        /\ k = n \/ q[k] = Free
        /\ \A j \in 0 .. k - 1 : q[j] # Free
  BY <1>1, <1>2
<1> QED BY <1>3 DEF FirstFit

\* delete's trimming: it stops just above the last slot in use.
LEMMA TrimmedIsExact ==
  ASSUME NEW q, NEW n \in Nat
  PROVE  LET m == Trimmed(q, n) IN
         /\ m \in 0 .. n
         /\ m = 0 \/ q[m - 1] # Free
         /\ \A j \in m .. n - 1 : q[j] = Free
<1> DEFINE T == {m \in 0 .. n : \A j \in m .. n - 1 : q[j] = Free}
<1>1. PICK m \in T : \A k \in T : m <= k
  <2>1. n \in T /\ T \in SUBSET Nat
    OBVIOUS
  <2> HIDE DEF T
  <2> QED BY <2>1, LeastElement
<1>2. ASSUME m # 0, q[m - 1] = Free PROVE FALSE
  <2>1. m - 1 \in 0 .. n /\ m \in Nat
    BY <1>1, <1>2
  <2>2. \A j \in (m - 1) .. n - 1 : j = m - 1 \/ j \in m .. n - 1
    BY <2>1
  <2>3. m - 1 \in T
    BY <1>1, <1>2, <2>1, <2>2
  <2> QED BY <1>1, <2>1, <2>3
<1>3. \E k \in 0 .. n :
        /\ k = 0 \/ q[k - 1] # Free
        /\ \A j \in k .. n - 1 : q[j] = Free
  BY <1>1, <1>2
<1> QED BY <1>3 DEF Trimmed

--------------------------------------------------------------------------
(***************************************************************************)
(* One step of each operation.  Neither invariant is inductive alone: the  *)
(* slot add extends into must be free for the size to stay exact.          *)
(***************************************************************************)
QueueInv == QueueTypeOK /\ SizeIsExact

\* add keeps the queue's invariant, whether the packet fits or not.
LEMMA AddKeepsQueueInv ==
  ASSUME QueueInv, NEW p \in Packets, add(p)
  PROVE  QueueInv'
<1> USE QueueAssumption
<1> DEFINE i == FirstFit(outQueue, outQueueSize)
<1>1. outQueueSize \in Nat
  BY DEF QueueInv, QueueTypeOK
<1>2. /\ i \in 0 .. outQueueSize
      /\ i = outQueueSize \/ outQueue[i] = Free
  BY <1>1, FirstFitIsFirst
<1> HIDE DEF i
<1>3. CASE Fits
  <2>1. /\ i \in Slots
        /\ outQueue' = [outQueue EXCEPT ![i] = p]
        /\ outQueueSize' = IF i = outQueueSize THEN i + 1 ELSE outQueueSize
    BY <1>1, <1>2, <1>3 DEF add, Fits, Slots, i
  <2>2. QueueTypeOK'
    BY <1>2, <2>1 DEF QueueInv, QueueTypeOK, Slots
  <2>3. SizeIsExact'
    BY <1>2, <2>1 DEF QueueInv, QueueTypeOK, SizeIsExact, Slots
  <2> QED BY <2>2, <2>3 DEF QueueInv
<1>4. CASE ~ Fits
  BY <1>4 DEF add, queueVars, QueueInv, QueueTypeOK, SizeIsExact
<1> QED BY <1>3, <1>4

\* delete keeps the queue's invariant.
LEMMA DeleteKeepsQueueInv ==
  ASSUME QueueInv, NEW f, NEW sf, delete(f, sf)
  PROVE  QueueInv'
<1> USE QueueAssumption
<1> DEFINE q == Untaken(outQueue, outQueueSize, f, sf)
<1>1. outQueueSize \in 0 .. QueueSize
  BY DEF QueueInv, QueueTypeOK
<1>2. q \in [Slots -> Packets \union {Free}]
  BY DEF QueueInv, QueueTypeOK, Untaken
<1>3. \A j \in Slots : j >= outQueueSize => q[j] = Free
  BY DEF QueueInv, QueueTypeOK, SizeIsExact, Untaken
<1> HIDE DEF q
<1>4. outQueue' = q /\ outQueueSize' = Trimmed(q, outQueueSize)
  BY DEF delete, q
<1>5. /\ outQueueSize' \in 0 .. outQueueSize
      /\ outQueueSize' = 0 \/ q[outQueueSize' - 1] # Free
      /\ \A j \in outQueueSize' .. outQueueSize - 1 : q[j] = Free
  BY <1>1, <1>4, TrimmedIsExact
<1>6. QueueTypeOK'
  BY <1>1, <1>2, <1>4, <1>5 DEF QueueTypeOK
<1>7. SizeIsExact'
  BY <1>1, <1>3, <1>4, <1>5 DEF SizeIsExact, Slots
<1> QED BY <1>6, <1>7 DEF QueueInv

\* The invariant holds of the queue under any client.
LEMMA QueueInvHolds == QueueSpec => []QueueInv
<1> USE QueueAssumption
<1>1. init => QueueInv
  BY DEF init, QueueInv, QueueTypeOK, SizeIsExact, Slots
<1>2. QueueInv /\ [Next]_queueVars => QueueInv'
  <2> SUFFICES ASSUME QueueInv, [Next]_queueVars PROVE QueueInv'
    OBVIOUS
  <2>1. ASSUME NEW p \in Packets, add(p) PROVE QueueInv'
    BY <2>1, AddKeepsQueueInv
  <2>2. ASSUME NEW p \in Packets, delete(p.frame, p.subframe) PROVE QueueInv'
    BY <2>2, DeleteKeepsQueueInv
  <2>3. CASE UNCHANGED queueVars
    BY <2>3 DEF queueVars, QueueInv, QueueTypeOK, SizeIsExact
  <2> QED BY <2>1, <2>2, <2>3 DEF Next
<1> QED BY <1>1, <1>2, PTL DEF QueueSpec

\* Type correctness of the out queue.
THEOREM QueueTypeCorrect == QueueSpec => []QueueTypeOK
<1>1. QueueInv => QueueTypeOK
  BY DEF QueueInv
<1> QED BY <1>1, QueueInvHolds, PTL

\* outQueueSize is exact: no packet hides at or beyond it, and the last slot
\* it counts is taken.
THEOREM SizeIsAlwaysExact == QueueSpec => []SizeIsExact
<1>1. QueueInv => SizeIsExact
  BY DEF QueueInv
<1> QED BY <1>1, QueueInvHolds, PTL

\* A packet is refused only when every slot is taken.
THEOREM RefusalMeansFull == QueueSpec => []RefusesOnlyWhenFull
<1>1. QueueInv => RefusesOnlyWhenFull
  <2> SUFFICES ASSUME QueueInv, ~ Fits
               PROVE  \A i \in Slots : outQueue[i] # Free
    BY DEF RefusesOnlyWhenFull
  <2> USE QueueAssumption
  <2> DEFINE i == FirstFit(outQueue, outQueueSize)
  <2>1. outQueueSize \in 0 .. QueueSize
    BY DEF QueueInv, QueueTypeOK
  <2>2. i \in 0 .. outQueueSize /\ \A j \in 0 .. i - 1 : outQueue[j] # Free
    BY <2>1, FirstFitIsFirst
  <2>3. ~ (i < QueueSize)
    BY DEF Fits
  <2> QED BY <2>1, <2>2, <2>3 DEF Slots
<1> QED BY <1>1, QueueInvHolds, PTL

--------------------------------------------------------------------------
(***************************************************************************)
(* The iteration over one (frame, subframe).                               *)
(***************************************************************************)
\* One search: it ends on the first match from its start, or finds none.
LEMMA LeastMatchIsLeast ==
  ASSUME NEW q, NEW from \in Nat, NEW n \in Nat, NEW f, NEW sf
  PROVE  LET r == LeastMatch(q, from, n, f, sf) IN
         \/ r = -1 /\ \A i \in from .. n - 1 : ~ Matches(q, i, f, sf)
         \/ /\ r \in from .. n - 1 /\ Matches(q, r, f, sf)
            /\ \A i \in from .. r - 1 : ~ Matches(q, i, f, sf)
<1> DEFINE T == {i \in from .. n - 1 : Matches(q, i, f, sf)}
<1>1. CASE T = {}
  BY <1>1 DEF LeastMatch
<1>2. CASE T # {}
  <2>1. PICK i \in T : \A k \in T : i <= k
    <3>1. T \in SUBSET Nat
      OBVIOUS
    <3> HIDE DEF T
    <3> QED BY <1>2, <3>1, LeastElement
  <2>2. \A j \in from .. i - 1 : ~ Matches(q, j, f, sf)
    BY <2>1
  <2>3. \E k \in from .. n - 1 :
          /\ Matches(q, k, f, sf)
          /\ \A j \in from .. k - 1 : ~ Matches(q, j, f, sf)
    BY <2>1, <2>2
  <2> QED BY <2>3 DEF LeastMatch
<1> QED BY <1>1, <1>2

\* What the local function of Visits has to satisfy up to n.
VisitStep(g, f, sf, n) ==
  [k \in 0 .. n |->
     IF k = 0 THEN find(f, sf)
     ELSE IF g[k - 1] = -1 THEN -1
     ELSE getNextIn(outQueue, outQueueSize, g[k - 1])]

\* Such a function exists, so the recursive definition defines one.
LEMMA VisitExists ==
  ASSUME NEW f, NEW sf, NEW n \in Nat
  PROVE  \E g : g = VisitStep(g, f, sf, n)
<1> DEFINE T == {m \in Nat : ~ \E g : g = VisitStep(g, f, sf, m)}
<1>1. SUFFICES ASSUME T # {} PROVE FALSE
  OBVIOUS
<1>2. PICK m \in T : \A k \in T : m <= k
  <2>1. T \in SUBSET Nat
    OBVIOUS
  <2> HIDE DEF T
  <2> QED BY <1>1, <2>1, LeastElement
<1>3. CASE m = 0
  <2> DEFINE g == [k \in 0 .. 0 |-> find(f, sf)]
  <2>1. g = VisitStep(g, f, sf, 0)
    BY DEF VisitStep
  <2> QED BY <1>2, <1>3, <2>1
<1>4. CASE m # 0
  <2>1. m - 1 \in Nat /\ m - 1 \notin T
    BY <1>2, <1>4
  <2>2. PICK h : h = VisitStep(h, f, sf, m - 1)
    BY <2>1
  <2> DEFINE next(i) == IF i = -1 THEN -1 ELSE getNextIn(outQueue, outQueueSize, i)
             g == [k \in 0 .. m |-> IF k = m THEN next(h[m - 1]) ELSE h[k]]
  <2> HIDE DEF next
  <2>3. ASSUME NEW k \in 0 .. m
        PROVE  g[k] = IF k = 0 THEN find(f, sf) ELSE next(g[k - 1])
    <3>1. CASE k = m
      BY <1>4, <3>1
    <3>2. CASE k # m
      <4>1. k \in 0 .. m - 1
        BY <3>2
      <4>2. h[k] = IF k = 0 THEN find(f, sf) ELSE next(h[k - 1])
        BY <2>2, <4>1 DEF VisitStep, next
      <4>3. g[k] = h[k] /\ (k # 0 => g[k - 1] = h[k - 1])
        BY <3>2, <4>1
      <4> HIDE DEF g
      <4> QED BY <4>2, <4>3
    <3> QED BY <3>1, <3>2
  <2>4. g = VisitStep(g, f, sf, m)
    <3>1. g = [k \in 0 .. m |-> g[k]]
      OBVIOUS
    <3> HIDE DEF g
    <3>2. g = [k \in 0 .. m |-> IF k = 0 THEN find(f, sf) ELSE next(g[k - 1])]
      BY <2>3, <3>1
    <3> QED BY <3>2 DEF VisitStep, next
  <2> HIDE DEF g
  <2> QED BY <1>2, <2>4
<1> QED BY <1>3, <1>4

Due(f, sf) == {i \in Slots : Matches(outQueue, i, f, sf)}

\* What holds after the k-th call: it has ended at a due slot, at k or later,
\* or at -1, and every due slot it has passed was visited.
VisitedSoFar(v, k, f, sf) ==
  /\ v[k] = -1 \/ (v[k] \in Due(f, sf) /\ v[k] >= k)
  /\ \A i \in Due(f, sf) : v[k] = -1 \/ i <= v[k] => \E j \in 0 .. k : v[j] = i
  /\ k > 0 /\ v[k] # -1 => v[k - 1] < v[k]

\* The first call.
LEMMA FirstVisit ==
  ASSUME QueueInv, NEW f, NEW sf, NEW v, v[0] = find(f, sf)
  PROVE  VisitedSoFar(v, 0, f, sf)
<1> USE QueueAssumption
<1>1. outQueueSize \in 0 .. QueueSize /\ 0 .. outQueueSize - 1 \subseteq Slots
  BY DEF QueueInv, QueueTypeOK, Slots
<1>2. \A i \in Due(f, sf) : i \in 0 .. outQueueSize - 1 /\ Matches(outQueue, i, f, sf)
  BY DEF QueueInv, QueueTypeOK, SizeIsExact, Due, Slots, Matches
<1>3. \/ v[0] = -1 /\ \A i \in 0 .. outQueueSize - 1 : ~ Matches(outQueue, i, f, sf)
      \/ /\ v[0] \in 0 .. outQueueSize - 1 /\ Matches(outQueue, v[0], f, sf)
         /\ \A i \in 0 .. v[0] - 1 : ~ Matches(outQueue, i, f, sf)
  BY <1>1, LeastMatchIsLeast DEF find, findIn
<1>4. ASSUME NEW i \in Due(f, sf), v[0] = -1 \/ i <= v[0]
      PROVE  \E j \in 0 .. 0 : v[j] = i
  BY <1>2, <1>3, <1>4
<1>5. v[0] = -1 \/ (v[0] \in Due(f, sf) /\ v[0] >= 0)
  BY <1>1, <1>3 DEF Due
<1> QED BY <1>4, <1>5 DEF VisitedSoFar

\* Each further call.
LEMMA NextVisit ==
  ASSUME QueueInv, NEW f, NEW sf, NEW k \in Nat \ {0}, NEW v,
         VisitedSoFar(v, k - 1, f, sf),
         v[k] = IF v[k - 1] = -1 THEN -1
                ELSE getNextIn(outQueue, outQueueSize, v[k - 1])
  PROVE  VisitedSoFar(v, k, f, sf)
<1> USE QueueAssumption
<1>1. outQueueSize \in 0 .. QueueSize /\ 0 .. outQueueSize - 1 \subseteq Slots
  BY DEF QueueInv, QueueTypeOK, Slots
<1>2. \A i \in Due(f, sf) : i \in 0 .. outQueueSize - 1 /\ Matches(outQueue, i, f, sf)
  BY DEF QueueInv, QueueTypeOK, SizeIsExact, Due, Slots, Matches
<1>3. ASSUME NEW i \in Due(f, sf), v[k - 1] = -1 \/ i <= v[k - 1]
      PROVE  \E j \in 0 .. k : v[j] = i
  <2>1. PICK j \in 0 .. k - 1 : v[j] = i
    BY <1>3 DEF VisitedSoFar
  <2> QED BY <2>1
<1>4. CASE v[k - 1] = -1
  BY <1>3, <1>4 DEF VisitedSoFar
<1>5. CASE v[k - 1] # -1
  <2> DEFINE s == v[k - 1]
  <2>1. s \in Due(f, sf) /\ s >= k - 1 /\ s \in Nat
    BY <1>2, <1>5 DEF VisitedSoFar
  <2>2. outQueue[s].frame = f /\ outQueue[s].subframe = sf
    BY <1>2, <2>1 DEF Matches, DueAt
  <2> HIDE DEF s
  <2>3. v[k] = LeastMatch(outQueue, s + 1, outQueueSize, f, sf)
    BY <1>5, <2>2 DEF s, getNextIn
  <2> DEFINE r == LeastMatch(outQueue, s + 1, outQueueSize, f, sf)
  <2>4. s + 1 \in Nat /\ outQueueSize \in Nat
    BY <1>1, <2>1
  <2>5. \/ r = -1 /\ \A i \in s + 1 .. outQueueSize - 1 : ~ Matches(outQueue, i, f, sf)
        \/ /\ r \in s + 1 .. outQueueSize - 1 /\ Matches(outQueue, r, f, sf)
           /\ \A i \in s + 1 .. r - 1 : ~ Matches(outQueue, i, f, sf)
    BY <2>4, LeastMatchIsLeast
  <2>6. v[k] = r
    BY <2>3
  <2> HIDE DEF r
  <2>7. \/ v[k] = -1 /\ \A i \in s + 1 .. outQueueSize - 1 : ~ Matches(outQueue, i, f, sf)
        \/ /\ v[k] \in s + 1 .. outQueueSize - 1 /\ Matches(outQueue, v[k], f, sf)
           /\ \A i \in s + 1 .. v[k] - 1 : ~ Matches(outQueue, i, f, sf)
    BY <2>5, <2>6
  <2>8. v[k] = -1 \/ (v[k] \in Due(f, sf) /\ v[k] >= k /\ s < v[k])
    BY <1>1, <2>1, <2>7 DEF Due
  <2>9. ASSUME NEW i \in Due(f, sf), v[k] = -1 \/ i <= v[k]
        PROVE  \E j \in 0 .. k : v[j] = i
    <3>1. CASE i <= s
      BY <1>3, <3>1 DEF s
    <3>2. CASE ~ (i <= s)
      <4>1. i \in s + 1 .. outQueueSize - 1 /\ Matches(outQueue, i, f, sf)
        BY <1>2, <2>1, <3>2
      <4>2. v[k] = i
        BY <2>1, <2>7, <2>9, <4>1
      <4> QED BY <4>2
    <3> QED BY <3>1, <3>2
  <2> QED BY <2>8, <2>9 DEF VisitedSoFar, s
<1> QED BY <1>4, <1>5

\* The iteration of mac_tx_schedule_next_SF reaches every packet due at its
\* subframe once, in the order of the slots, and ends, for every length of
\* the queue and whatever gaps deletions left.
THEOREM IterationIsComplete == QueueSpec => []IterationVisitsAll
<1>1. QueueInv => IterationVisitsAll
  <2> SUFFICES ASSUME QueueInv, NEW p \in Packets
               PROVE  LET v == Visits(p.frame, p.subframe)
                          due == {i \in Slots : Matches(outQueue, i, p.frame, p.subframe)}
                      IN  /\ {v[k] : k \in 0 .. QueueSize} = due \union {-1}
                          /\ \A k \in 1 .. QueueSize : v[k] # -1 => v[k - 1] < v[k]
    BY DEF IterationVisitsAll
  <2> USE QueueAssumption
  <2> DEFINE f == p.frame
             sf == p.subframe
             v == Visits(f, sf)
  <2> HIDE DEF f, sf
  <2>1. v = VisitStep(v, f, sf, QueueSize)
    <3> DEFINE visit[k \in 0 .. QueueSize] ==
                 IF k = 0 THEN find(f, sf)
                 ELSE IF visit[k - 1] = -1 THEN -1
                 ELSE getNextIn(outQueue, outQueueSize, visit[k - 1])
    <3>1. \E g : g = VisitStep(g, f, sf, QueueSize)
      BY VisitExists
    <3>2. visit = VisitStep(visit, f, sf, QueueSize)
      BY <3>1 DEF VisitStep
    <3>3. v = visit
      BY DEF Visits
    <3> HIDE DEF visit, v
    <3> QED BY <3>2, <3>3
  <2> HIDE DEF v
  <2>2. v[0] = find(f, sf)
    BY <2>1 DEF VisitStep
  <2>3. ASSUME NEW k \in 1 .. QueueSize
        PROVE  v[k] = IF v[k - 1] = -1 THEN -1
                      ELSE getNextIn(outQueue, outQueueSize, v[k - 1])
    BY <2>1 DEF VisitStep
  <2>4. \A k \in 0 .. QueueSize : VisitedSoFar(v, k, f, sf)
    <3> DEFINE T == {k \in 0 .. QueueSize : ~ VisitedSoFar(v, k, f, sf)}
    <3>1. SUFFICES ASSUME T # {} PROVE FALSE
      OBVIOUS
    <3>2. PICK m \in T : \A k \in T : m <= k
      <4>1. T \in SUBSET Nat
        OBVIOUS
      <4> HIDE DEF T
      <4> QED BY <3>1, <4>1, LeastElement
    <3>3. m # 0
      BY <2>2, <3>2, FirstVisit
    <3>4. m \in 1 .. QueueSize /\ m \in Nat \ {0} /\ VisitedSoFar(v, m - 1, f, sf)
      BY <3>2, <3>3
    <3> QED BY <2>3, <3>2, <3>4, NextVisit
  <2>5. v[QueueSize] = -1
    BY <2>4 DEF VisitedSoFar, Due, Slots
  <2>6. \A i \in Due(f, sf) : \E k \in 0 .. QueueSize : v[k] = i
    BY <2>4, <2>5 DEF VisitedSoFar
  <2>7. \A k \in 0 .. QueueSize : v[k] \in Due(f, sf) \union {-1}
    BY <2>4 DEF VisitedSoFar
  <2>8. {v[k] : k \in 0 .. QueueSize} = Due(f, sf) \union {-1}
    BY <2>5, <2>6, <2>7
  <2>9. \A k \in 1 .. QueueSize : v[k] # -1 => v[k - 1] < v[k]
    BY <2>4 DEF VisitedSoFar
  <2> QED BY <2>8, <2>9 DEF v, f, sf, Due
<1> QED BY <1>1, QueueInvHolds, PTL

--------------------------------------------------------------------------
(***************************************************************************)
(* Refinement.  The handle of a packet is its slot.                        *)
(***************************************************************************)
mappedHeld == [i \in heldSlots |-> outQueue[i]]

\* An add that finds a gap, or room at the end, keeps the packet under a
\* handle that was free; one that finds neither has every handle in use.
LEMMA AddImplementsKeep ==
  ASSUME QueueInv, NEW p \in Packets, add(p)
  PROVE  Table!Keep(p)
<1> USE QueueAssumption
<1> DEFINE i == FirstFit(outQueue, outQueueSize)
<1>1. outQueueSize \in 0 .. QueueSize /\ outQueue \in [Slots -> Packets \union {Free}]
  BY DEF QueueInv, QueueTypeOK
<1>2. /\ i \in 0 .. outQueueSize
      /\ i = outQueueSize \/ outQueue[i] = Free
      /\ \A j \in 0 .. i - 1 : outQueue[j] # Free
  BY <1>1, FirstFitIsFirst
<1> HIDE DEF i
<1>3. CASE Fits
  <2>1. i \in Slots /\ outQueue' = [outQueue EXCEPT ![i] = p]
    BY <1>1, <1>2, <1>3 DEF add, Fits, Slots, i, queueVars
  <2>2. outQueue[i] = Free /\ p # Free
    BY <1>1, <1>2, <2>1 DEF QueueInv, SizeIsExact, Slots
  <2>3. heldSlots' = heldSlots \union {i} /\ i \notin heldSlots
    BY <1>1, <2>1, <2>2 DEF heldSlots
  <2>4. [x \in heldSlots' |-> outQueue'[x]]
          = [x \in heldSlots \union {i} |-> IF x = i THEN p ELSE mappedHeld[x]]
    BY <1>1, <2>1, <2>2, <2>3 DEF mappedHeld, heldSlots
  <2>5. i \in Slots \ DOMAIN mappedHeld /\ DOMAIN mappedHeld = heldSlots
    BY <2>1, <2>3 DEF mappedHeld
  <2> QED BY <2>4, <2>5 DEF Table!Keep, mappedHeld
<1>4. CASE ~ Fits
  <2>1. i = QueueSize /\ UNCHANGED queueVars
    BY <1>1, <1>2, <1>4 DEF add, Fits, i
  <2>2. heldSlots = Slots /\ heldSlots' = heldSlots
    BY <1>2, <2>1 DEF heldSlots, Slots, queueVars
  <2> QED BY <2>1, <2>2 DEF Table!Keep, queueVars
<1> QED BY <1>3, <1>4

\* A delete drops exactly the packets due at its (frame, subframe).
LEMMA DeleteImplementsDrop ==
  ASSUME QueueInv, NEW f, NEW sf, delete(f, sf)
  PROVE  Table!Drop(f, sf)
<1> USE QueueAssumption
<1>1. outQueueSize \in 0 .. QueueSize /\ outQueue \in [Slots -> Packets \union {Free}]
  BY DEF QueueInv, QueueTypeOK
<1>2. outQueue' = [i \in Slots |->
                     IF i < outQueueSize /\ Matches(outQueue, i, f, sf)
                     THEN Free ELSE outQueue[i]]
  BY <1>1 DEF delete, Untaken
<1>3. \A i \in Slots : outQueue[i] # Free => i < outQueueSize
  BY <1>1 DEF QueueInv, SizeIsExact, Slots
<1>4. heldSlots' = {x \in heldSlots : ~ DueAt(outQueue[x], f, sf)}
  BY <1>2, <1>3 DEF heldSlots, Matches
<1>5. \A x \in heldSlots' : outQueue'[x] = outQueue[x] /\ x \in heldSlots
  BY <1>2, <1>4 DEF heldSlots
<1>6. heldSlots' = {x \in DOMAIN mappedHeld : ~ Table!DueAt(mappedHeld[x], f, sf)}
  BY <1>4 DEF mappedHeld, DueAt, Table!DueAt
<1>7. [x \in heldSlots' |-> outQueue'[x]] = [x \in heldSlots' |-> mappedHeld[x]]
  BY <1>5 DEF mappedHeld
<1> QED BY <1>6, <1>7 DEF Table!Drop, mappedHeld

\* The array with its gaps and its trimmed tail implements the abstract
\* table: no call loses, moves or overwrites another packet.
THEOREM QueueImplementsTable == QueueSpec => ImplementsPacketTable
<1>1. init => Table!Init
  <2> SUFFICES ASSUME init PROVE Table!Init
    OBVIOUS
  <2>1. heldSlots = {}
    BY DEF init, heldSlots
  <2> QED BY <2>1 DEF Table!Init
<1>2. QueueInv /\ [Next]_queueVars => [Table!Next]_mappedHeld
  <2> SUFFICES ASSUME QueueInv, [Next]_queueVars
               PROVE  Table!Next \/ UNCHANGED mappedHeld
    OBVIOUS
  <2>1. ASSUME NEW p \in Packets, add(p) PROVE Table!Next
    BY <2>1, AddImplementsKeep DEF Table!Next
  <2>2. ASSUME NEW p \in Packets, delete(p.frame, p.subframe) PROVE Table!Next
    BY <2>2, DeleteImplementsDrop DEF Table!Next
  <2>3. CASE UNCHANGED queueVars
    BY <2>3 DEF queueVars, mappedHeld, heldSlots
  <2> QED BY <2>1, <2>2, <2>3 DEF Next
<1> QED
  BY <1>1, <1>2, QueueInvHolds, PTL
  DEF QueueSpec, ImplementsPacketTable, Table!Spec, mappedHeld
==========================================================================
