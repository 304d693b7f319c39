-------------------------- MODULE RadioSyncProofs --------------------------
(***************************************************************************)
(* The synchronisation of the receiver for blocks, buffers, frames and     *)
(* preambles of every size: it knows the frame and the position of every   *)
(* sample it reads, and hands the samples over complete and in order.      *)
(*                                                                         *)
(* The samples that are sent can be numbered, with 0 for the first sample  *)
(* of the first frame and the ramp before it; SampleAt says which sample   *)
(* has a number.  The invariant says that there is a number for the first  *)
(* sample under way, that the samples under way have consecutive numbers,  *)
(* and what the counters of the transmitter and of the receiver have to do *)
(* with it.                                                                *)
(***************************************************************************)
EXTENDS RadioSync, NaturalFacts, SequenceTheorems

LEMMA Sizes ==
  /\ Block \in Nat \ {0} /\ TXBufferSize \in Nat /\ TXBufferSize > Block
  /\ syncPreambLen \in Nat /\ PipeCap \in Nat /\ PipeCap >= Block
  /\ Period \in Nat \ {0} /\ Period > Block /\ FrameCount \in Nat \ {0}
  /\ DataMod \in Nat \ {0} /\ DataMod % Period = 0
  /\ WriteSizes \subseteq Nat \ {0} /\ ReadSizes \subseteq Nat \ {0}
<1>1. /\ Block \in Nat \ {0} /\ TXBufferSize \in Nat /\ TXBufferSize > Block
      /\ syncPreambLen \in Nat /\ PipeCap \in Nat /\ PipeCap >= Block
      /\ Period \in Nat \ {0} /\ Period > Block /\ FrameCount \in Nat \ {0}
      /\ WriteSizes \subseteq Nat \ {0} /\ ReadSizes \subseteq Nat \ {0}
  BY RadioSyncAssumption
<1>2. DataMod \in Nat \ {0}
  BY <1>1 DEF DataMod
<1>3. (Period * FrameCount + 0) % Period = 0
  BY <1>1, RemainderUnique
<1>4. DataMod % Period = 0
  BY <1>1, <1>3 DEF DataMod
<1> QED BY <1>1, <1>2, <1>4

----------------------------------------------------------------------------
(* The samples and their numbers. *)

Samples == [im : 0 .. TXBufferSize - 1, d : -1 .. DataMod - 1, mark : BOOLEAN]

\* The sample with number q: zeros, the ramp, and the frames from 0 on.
SampleAt(q) ==
  IF q < - TXBufferSize THEN Zero
  ELSE IF q < 0 THEN Ramp(q + TXBufferSize)
  ELSE [im |-> 0, d |-> q % DataMod, mark |-> q % Period = 0]

\* s consists of the samples from number e on.
From(s, e) == \A k \in 1 .. Len(s) : s[k] = SampleAt(e + k - 1)

\* A part of numbered samples is numbered, and so are two parts that follow
\* each other.
LEMMA FromSubSeq ==
  ASSUME NEW s \in Seq(Samples), NEW e \in Int, From(s, e),
         NEW m \in 1 .. Len(s) + 1, NEW n \in 0 .. Len(s), m <= n + 1
  PROVE  /\ SubSeq(s, m, n) \in Seq(Samples) /\ Len(SubSeq(s, m, n)) = n - m + 1
         /\ \A k \in 1 .. n - m + 1 : SubSeq(s, m, n)[k] = s[m + k - 1]
         /\ From(SubSeq(s, m, n), e + m - 1)
<1>1. /\ SubSeq(s, m, n) \in Seq(Samples) /\ Len(SubSeq(s, m, n)) = n - m + 1
      /\ \A k \in 1 .. n - m + 1 : SubSeq(s, m, n)[k] = s[m + k - 1]
  BY SubSeqProperties
<1>2. ASSUME NEW k \in 1 .. n - m + 1
      PROVE  SubSeq(s, m, n)[k] = SampleAt((e + m - 1) + k - 1)
  <2>1. m + k - 1 \in 1 .. Len(s) /\ e + (m + k - 1) - 1 = (e + m - 1) + k - 1
    OBVIOUS
  <2>2. s[m + k - 1] = SampleAt(e + (m + k - 1) - 1)
    BY <2>1 DEF From
  <2> QED BY <1>1, <2>1, <2>2
<1> QED BY <1>1, <1>2 DEF From

LEMMA FromConcat ==
  ASSUME NEW s \in Seq(Samples), NEW t \in Seq(Samples), NEW e \in Int,
         From(s, e), From(t, e + Len(s))
  PROVE  From(s \o t, e)
<1> SUFFICES ASSUME NEW k \in 1 .. Len(s \o t)
             PROVE  (s \o t)[k] = SampleAt(e + k - 1)
  BY DEF From
<1>1. Len(s) \in Nat /\ Len(t) \in Nat /\ Len(s \o t) = Len(s) + Len(t)
  OBVIOUS
<1>2. CASE k <= Len(s)
  <2>1. k \in 1 .. Len(s) /\ (s \o t)[k] = s[k]
    BY <1>1, <1>2
  <2> QED BY <2>1 DEF From
<1>3. CASE k > Len(s)
  <2>1. k - Len(s) \in 1 .. Len(t) /\ (s \o t)[k] = t[k - Len(s)]
    BY <1>1, <1>3
  <2>2. (e + Len(s)) + (k - Len(s)) - 1 = e + k - 1
    BY <1>1
  <2> QED BY <2>1, <2>2 DEF From
<1> QED BY <1>1, <1>2, <1>3

----------------------------------------------------------------------------
(* The search. *)

\* The state of the search after a sample, and after k samples of b.
NextState(x, sample) == IF x + 1 = sample.im THEN sample.im ELSE x

SearchOf(state, b) ==
  /\ state \in [0 .. Block -> 0 .. TXBufferSize - 1]
  /\ state[0] = syncStateCnt
  /\ \A k \in 1 .. Block : state[k] = NextState(state[k - 1], b[k])

\* What Search computes: the states of the search are defined, and it stops
\* at the first sample with the last value of the ramp, if there is one.
LEMMA SearchRuns ==
  ASSUME NEW b \in Seq(Samples), Len(b) = Block, syncStateCnt \in 0 .. TXBufferSize - 1
  PROVE  \E state :
           /\ SearchOf(state, b)
           /\ Search(b).used \in 1 .. Block
           /\ Search(b).state = state[Search(b).used]
           /\ \/ /\ state[Search(b).used] = TXBufferSize - 1
                 /\ \A k \in 1 .. Search(b).used - 1 : state[k] # TXBufferSize - 1
              \/ /\ Search(b).used = Block
                 /\ \A k \in 1 .. Block : state[k] # TXBufferSize - 1
<1> DEFINE D == 0 .. TXBufferSize - 1
           state[k \in 0 .. Block] ==
             IF k = 0 THEN syncStateCnt
             ELSE IF state[k - 1] + 1 = b[k].im THEN b[k].im ELSE state[k - 1]
           step == [k \in 1 .. Block |-> [x \in D |-> NextState(x, b[k])]]
           found == {k \in 1 .. Block : state[k] >= TXBufferSize - 1}
           used == IF found = {} THEN Block
                   ELSE CHOOSE k \in found : \A j \in found : k <= j
<1>1. Search(b) = [used |-> used, state |-> state[used]]
  BY DEF Search
<1>2. \A k \in 1 .. Block : b[k].im \in D
  <2>1. \A k \in 1 .. Block : b[k] \in Samples
    OBVIOUS
  <2> QED BY <2>1 DEF Samples
<1>3. \A k \in 1 .. Block : \A x \in D : NextState(x, b[k]) \in D
  BY <1>2 DEF NextState
<1>4. \E f \in [0 .. Block -> D] : f = [k \in 0 .. Block |->
         IF k = 0 THEN syncStateCnt
         ELSE IF f[k - 1] + 1 = b[k].im THEN b[k].im ELSE f[k - 1]]
  <2>1. PICK f : RecursiveUpto(f, Block, syncStateCnt, step)
    BY Sizes, RecursionExists
  <2>2. f \in [0 .. Block -> D]
    <3>1. \A k \in 1 .. Block : \A x \in D : step[k][x] \in D
      BY <1>3
    <3> HIDE DEF D, step
    <3>2. syncStateCnt \in D
      BY DEF D
    <3> QED BY <2>1, <3>1, <3>2, Sizes, RecursionStaysIn
  <2> DEFINE g == [k \in 0 .. Block |->
         IF k = 0 THEN syncStateCnt
         ELSE IF f[k - 1] + 1 = b[k].im THEN b[k].im ELSE f[k - 1]]
  <2>3. ASSUME NEW k \in 0 .. Block PROVE f[k] = g[k]
    <3>1. CASE k = 0
      BY <2>1, <3>1 DEF RecursiveUpto
    <3>2. CASE k # 0
      <4>1. k \in 1 .. Block /\ k - 1 \in 0 .. Block
        BY <3>2
      <4>2. f[k - 1] \in D
        BY <2>2, <4>1
      <4>3. f[k] = step[k][f[k - 1]]
        BY <2>1, <3>2 DEF RecursiveUpto
      <4> QED BY <3>2, <4>1, <4>2, <4>3 DEF NextState
    <3> QED BY <3>1, <3>2
  <2>4. f = [k \in 0 .. Block |-> f[k]] /\ g = [k \in 0 .. Block |-> g[k]]
    BY <2>2
  <2>5. f = g
    <3> HIDE DEF g
    <3> QED BY <2>3, <2>4
  <2> QED BY <2>2, <2>5
<1>5. /\ state = [k \in 0 .. Block |->
           IF k = 0 THEN syncStateCnt
           ELSE IF state[k - 1] + 1 = b[k].im THEN b[k].im ELSE state[k - 1]]
  BY <1>4
<1> HIDE DEF state
<1>6. state \in [0 .. Block -> D]
  <2> DEFINE P == {k \in 0 .. Block : state[k] \in D}
  <2>1. 0 \in P
    BY <1>5, Sizes
  <2>2. ASSUME NEW k \in 1 .. Block, k - 1 \in P PROVE k \in P
    <3>1. state[k] = NextState(state[k - 1], b[k])
      BY <1>5 DEF NextState
    <3> QED BY <1>3, <2>2, <3>1
  <2>3. 0 .. Block \subseteq P
    <3> HIDE DEF P
    <3> QED BY <2>1, <2>2, Sizes, IntervalInduction
  <2> QED BY <1>5, <2>3
<1>7. SearchOf(state, b)
  <2>1. state[0] = syncStateCnt
    BY <1>5, Sizes
  <2>2. \A k \in 1 .. Block : state[k] = NextState(state[k - 1], b[k])
    BY <1>5 DEF NextState
  <2> QED BY <1>6, <2>1, <2>2 DEF SearchOf
<1>8. \A k \in 0 .. Block : state[k] >= TXBufferSize - 1 <=> state[k] = TXBufferSize - 1
  BY <1>6, Sizes, SMTT(30)
<1>9. CASE found = {}
  <2>1. used = Block
    BY <1>9
  <2>2. \A k \in 1 .. Block : state[k] # TXBufferSize - 1
    BY <1>8, <1>9
  <2> HIDE DEF used
  <2> QED BY <1>1, <1>7, <2>1, <2>2, Sizes
<1>10. CASE found # {}
  <2>1. used \in found /\ \A j \in found : used <= j
    <3>1. found \in SUBSET Nat
      OBVIOUS
    <3>2. \E m \in found : \A j \in found : m <= j
      <4> HIDE DEF found
      <4> QED BY <1>10, <3>1, LeastElement
    <3> HIDE DEF found
    <3> QED BY <1>10, <3>2
  <2>2. used \in 1 .. Block /\ state[used] = TXBufferSize - 1
    <3> HIDE DEF used
    <3> QED BY <1>8, <2>1
  <2>3. \A k \in 1 .. used - 1 : state[k] # TXBufferSize - 1
    <3> HIDE DEF used
    <3> QED BY <1>8, <2>1, <2>2
  <2> HIDE DEF used, found
  <2> QED BY <1>1, <1>7, <2>2, <2>3
<1> QED BY <1>9, <1>10

\* The first value that the search looks for.
FirstState == TXBufferSize - Block - 1

Larger(a, b) == IF a < b THEN b ELSE a

\* Its state when the samples from number e on are yet to come.
StateAt(e) == IF e < 0 THEN Larger(FirstState, e + TXBufferSize - 1) ELSE TXBufferSize - 1

\* The search follows the ramp, however the blocks cut it: it stops at its
\* last sample, number -1, and not before.
LEMMA SearchFollowsRamp ==
  ASSUME NEW b \in Seq(Samples), Len(b) = Block, NEW e \in Int, From(b, e),
         e < 0, syncStateCnt = StateAt(e)
  PROVE  /\ Search(b).state = StateAt(e + Block)
         /\ Search(b).state \in 0 .. TXBufferSize - 1
         /\ Search(b).state >= TXBufferSize - 1 <=> e + Block >= 0
         /\ e + Block >= 0 => Search(b).used = - e
<1> USE Sizes
<1>1. syncStateCnt \in 0 .. TXBufferSize - 1
  BY DEF StateAt, Larger, FirstState
<1>2. PICK state :
        /\ SearchOf(state, b)
           /\ Search(b).used \in 1 .. Block
           /\ Search(b).state = state[Search(b).used]
           /\ \/ /\ state[Search(b).used] = TXBufferSize - 1
                 /\ \A k \in 1 .. Search(b).used - 1 : state[k] # TXBufferSize - 1
              \/ /\ Search(b).used = Block
                 /\ \A k \in 1 .. Block : state[k] # TXBufferSize - 1
  BY <1>1, SearchRuns
<1> DEFINE P == {k \in 0 .. Block : state[k] = StateAt(e + k)}
<1>3. 0 \in P
  BY <1>2 DEF SearchOf
<1>4. ASSUME NEW k \in 1 .. Block, k - 1 \in P PROVE k \in P
  <2>1. state[k] = NextState(StateAt(e + (k - 1)), SampleAt(e + k - 1))
    BY <1>2, <1>4 DEF SearchOf, From
  <2>2. e + k \in Int /\ e + k - 1 = e + (k - 1)
    OBVIOUS
  <2>3. CASE e + k - 1 < - TXBufferSize
    BY <2>1, <2>2, <2>3 DEF SampleAt, Zero, StateAt, NextState, Larger, FirstState
  <2>4. CASE e + k - 1 \in - TXBufferSize .. -1
    <3>1. SampleAt(e + k - 1).im = e + k - 1 + TXBufferSize
      BY <2>4 DEF SampleAt, Ramp
    <3> QED BY <2>1, <2>2, <2>4, <3>1 DEF StateAt, NextState, Larger, FirstState
  <2>5. CASE e + k - 1 >= 0
    <3>1. SampleAt(e + k - 1).im = 0
      BY <2>5 DEF SampleAt
    <3> QED BY <2>1, <2>2, <2>5, <3>1 DEF StateAt, NextState
  <2> QED BY <2>3, <2>4, <2>5
<1>5. \A k \in 0 .. Block : state[k] = StateAt(e + k)
  <2>1. 0 .. Block \subseteq P
    <3> HIDE DEF P
    <3> QED BY <1>3, <1>4, IntervalInduction
  <2> QED BY <2>1
<1>6. ASSUME NEW q \in Int PROVE StateAt(q) \in 0 .. TXBufferSize - 1 /\ (StateAt(q) = TXBufferSize - 1 <=> q >= 0)
  BY DEF StateAt, Larger, FirstState
<1> HIDE DEF P
<1>7. CASE e + Block >= 0
  <2>1. - e \in 1 .. Block /\ state[- e] = TXBufferSize - 1
    <3>1. - e \in 1 .. Block /\ e + (- e) = 0
      BY <1>7
    <3> QED BY <1>5, <1>6, <3>1
  <2>2. Search(b).used <= - e /\ state[Search(b).used] = TXBufferSize - 1
    BY <1>2, <2>1
  <2>3. e + Search(b).used >= 0
    <3>1. Search(b).used \in 0 .. Block /\ e + Search(b).used \in Int
      BY <1>2
    <3> QED BY <1>5, <1>6, <2>2, <3>1
  <2>4. Search(b).used = - e
    BY <1>2, <2>2, <2>3
  <2> QED BY <1>2, <1>6, <1>7, <2>2, <2>4
<1>8. CASE e + Block < 0
  <2>1. \A k \in 1 .. Block : state[k] # TXBufferSize - 1
    <3> SUFFICES ASSUME NEW k \in 1 .. Block PROVE state[k] # TXBufferSize - 1
      OBVIOUS
    <3>1. e + k \in Int /\ e + k < 0 /\ k \in 0 .. Block
      BY <1>8
    <3> QED BY <1>5, <1>6, <3>1
  <2>2. Search(b).used = Block
    BY <1>2, <2>1
  <2>3. Search(b).state = StateAt(e + Block)
    BY <1>2, <1>5, <2>2
  <2>4. e + Block \in Int
    OBVIOUS
  <2>5. StateAt(e + Block) \in 0 .. TXBufferSize - 1 /\ StateAt(e + Block) # TXBufferSize - 1
    BY <1>6, <1>8, <2>4
  <2> QED BY <1>8, <2>3, <2>5
<1> QED BY <1>7, <1>8

----------------------------------------------------------------------------
(* Type correctness, with what the start-up establishes: the receiver and  *)
(* the transmitter run only in threads that main() has started, and those  *)
(* are started with an initialised context.                                *)

SetUpSteps == {"extension", "radioTX", "buffersTX", "radioRX", "buffersRX", "firmware"}

ContextReady == main \notin SetUpSteps \union {"stopped"} \/ threads # {}

StartInv ==
  /\ main \in SetUpSteps => threads = {}
  /\ tx_init_done => "TX" \in threads
  /\ rx_init_done => "RX" \in threads
  /\ sentBufs > 0 => Reading
  /\ ContextReady => RXSynced = (syncStateCnt = TXBufferSize - 1)
  /\ ContextReady /\ RXSynced => Reading

SampleInv ==
  /\ pipe \in Seq(Samples) /\ block \in Seq(Samples) /\ out \in Seq(Int)
  /\ due \in Int /\ lost \in Nat
  /\ {RXSynced, rx_init_done, tx_init_done} \subseteq BOOLEAN

TypeInv == RadioTypeOK /\ StartInv /\ SampleInv

LEMMA ZeroType == Zero \in Samples
BY Sizes DEF Zero, Samples

LEMMA InitTypeInv == Init => TypeInv
<1> SUFFICES ASSUME Init PROVE TypeInv
  OBVIOUS
<1> USE Sizes DEF Init
<1>1. PICK n \in 0 .. Block - 1 : pipe = [k \in 1 .. n |-> Zero]
  OBVIOUS
<1>2. pipe \in Seq(Samples) /\ Len(pipe) = n
  <2>1. n \in Nat
    OBVIOUS
  <2> QED BY <1>1, <2>1, ZeroType
<1>3. block \in Seq(Samples) /\ Len(block) = Block
  BY ZeroType
<1>4. out \in Seq(Int) /\ Len(out) = 0
  OBVIOUS
<1>5. threads = {} /\ main \in SetUpSteps /\ ~ ContextReady
  BY DEF SetUpSteps, ContextReady
<1>6. StartInv
  BY <1>5 DEF StartInv
<1>7. SampleInv
  <2>1. due \in Int /\ lost \in Nat /\ RXSynced \in BOOLEAN
    OBVIOUS
  <2>2. rx_init_done \in BOOLEAN /\ tx_init_done \in BOOLEAN
    OBVIOUS
  <2> QED BY <1>2, <1>3, <1>4, <2>1, <2>2 DEF SampleInv
<1>8. RadioTypeOK
  BY <1>2, <1>3, <1>4 DEF RadioTypeOK
<1> QED BY <1>6, <1>7, <1>8 DEF TypeInv

\* A step of a running thread changes neither main() nor the threads.
LEMMA RunningThread ==
  ASSUME NEW t, Running(t), TypeInv, UNCHANGED processVars
  PROVE  ContextReady /\ ContextReady' /\ main \notin SetUpSteps
BY DEF Running, TypeInv, StartInv, ContextReady, processVars

LEMMA MainKeepsTypeInv == TypeInv /\ Main => TypeInv'
<1> SUFFICES ASSUME TypeInv, Main PROVE TypeInv'
  OBVIOUS
<1> USE DEF TypeInv, SampleInv
<1>1. CASE SetUpThen("extension") \/ SetUpThen("radioTX") \/ SetUpThen("radioRX")
           \/ SetUpThen("buffersTX") \/ SetUpThen("buffersRX")
  <2>1. main' \in SetUpSteps /\ main \in SetUpSteps
    BY <1>1 DEF SetUpThen, After, SetUpSteps
  <2>2. UNCHANGED <<threads, stop_program, txVars, pipe, rxVars, lost>>
    BY <1>1 DEF SetUpThen
  <2>3. ~ ContextReady'
    BY <2>1, <2>2 DEF StartInv, ContextReady
  <2> QED BY <2>1, <2>2, <2>3 DEF StartInv, RadioTypeOK, txVars, rxVars, countVars, Reading
<1>2. CASE initRXCtx
  <2>1. main' = "TXW" /\ threads' = {} /\ main \in SetUpSteps
    BY <1>2 DEF initRXCtx, After, SetUpSteps, StartInv
  <2>2. syncStateCnt' \in 0 .. TXBufferSize - 2 /\ RXSynced' = FALSE
    BY <1>2, Sizes DEF initRXCtx
  <2>3. main' \notin SetUpSteps
    BY <2>1 DEF SetUpSteps
  <2>4. StartInv'
    <3>1. UNCHANGED <<tx_init_done, rx_init_done, sentBufs, threads>>
      BY <1>2 DEF initRXCtx, txVars
    <3>2. RXSynced' = (syncStateCnt' = TXBufferSize - 1)
      <4>1. ~ (syncStateCnt' = TXBufferSize - 1)
        BY <2>2, Sizes
      <4> QED BY <2>2, <4>1
    <3> QED BY <2>2, <2>3, <3>1, <3>2 DEF StartInv, Reading
  <2>5. RadioTypeOK'
    BY <1>2, <2>1, <2>2, Sizes DEF initRXCtx, RadioTypeOK, txVars
  <2> QED BY <1>2, <2>4, <2>5 DEF initRXCtx, txVars
<1>3. CASE StartWinUThread
  <2>1. main' \notin SetUpSteps /\ main \notin SetUpSteps \union {"stopped"}
    BY <1>3 DEF StartWinUThread, After, SetUpSteps
  <2> QED BY <1>3, <2>1
          DEF StartWinUThread, StartInv, RadioTypeOK, ContextReady, Reading,
              txVars, rxVars, countVars
<1>4. CASE StartFails \/ GiveUp \/ stop_mac \/ stop_sora_hw
  <2>1. main' \notin SetUpSteps /\ (ContextReady' => ContextReady)
    BY <1>4 DEF StartFails, GiveUp, stop_mac, stop_sora_hw, SetUpSteps, ContextReady
  <2>2. UNCHANGED <<threads, txVars, pipe, rxVars, lost>>
    BY <1>4 DEF StartFails, GiveUp, stop_mac, stop_sora_hw
  <2> QED BY <2>1, <2>2 DEF StartInv, RadioTypeOK, ContextReady, Reading,
              txVars, rxVars, countVars
<1>5. CASE printRadioStats
  BY <1>5 DEF printRadioStats, StartInv, RadioTypeOK, ContextReady, Reading,
              processVars, txVars
<1> QED BY <1>1, <1>2, <1>3, <1>4, <1>5
        DEF Main, SetUp, SoraUInitUserExtension, RadioStart, InitSoraTx, InitSoraRx

\* What is sent is appended to what is under way.
LEMMA Carried ==
  ASSUME TypeInv, Reading, NEW s \in Seq(Samples), Carry(s)
  PROVE  /\ pipe' = pipe \o s
         /\ pipe' \in Seq(Samples) /\ Len(pipe') = Len(pipe) + Len(s)
         /\ Len(pipe') <= PipeCap
BY DEF TypeInv, SampleInv, Carry

\* The samples of a write, and those of the preamble.
Written(size) ==
  [k \in 1 .. size |->
     [im |-> 0, d |-> (txd + k - 1) % DataMod, mark |-> k = Marked(size)]]

PreambleBuffer ==
  [k \in 1 .. TXBufferSize |-> IF sentBufs = syncPreambLen THEN Ramp(k - 1) ELSE Zero]

LEMMA WrittenType ==
  ASSUME NEW size \in Nat, txd \in Int
  PROVE  Written(size) \in Seq(Samples) /\ Len(Written(size)) = size
<1> DEFINE w(k) == [im |-> 0, d |-> (txd + k - 1) % DataMod, mark |-> k = Marked(size)]
<1>1. ASSUME NEW k \in 1 .. size PROVE w(k) \in Samples
  <2>1. (txd + k - 1) % DataMod \in -1 .. DataMod - 1 /\ 0 \in 0 .. TXBufferSize - 1
    BY Sizes
  <2>2. (k = Marked(size)) \in BOOLEAN
    OBVIOUS
  <2> QED BY <2>1, <2>2 DEF Samples
<1> HIDE DEF w
<1>2. [k \in 1 .. size |-> w(k)] \in Seq(Samples)
  BY <1>1
<1>3. Len([k \in 1 .. size |-> w(k)]) = size
  OBVIOUS
<1> QED BY <1>2, <1>3 DEF w, Written

LEMMA PreambleType ==
  PreambleBuffer \in Seq(Samples) /\ Len(PreambleBuffer) = TXBufferSize
<1>1. ASSUME NEW k \in 1 .. TXBufferSize
      PROVE  (IF sentBufs = syncPreambLen THEN Ramp(k - 1) ELSE Zero) \in Samples
  BY ZeroType, Sizes DEF Ramp, Samples
<1>2. TXBufferSize \in Nat
  BY Sizes
<1> QED BY <1>1, <1>2 DEF PreambleBuffer

LEMMA TXKeepsTypeInv == TypeInv /\ TX => TypeInv'
<1> SUFFICES ASSUME TypeInv, TX PROVE TypeInv'
  OBVIOUS
<1>1. UNCHANGED <<processVars, rxVars>> /\ ContextReady' = ContextReady
  <2>1. UNCHANGED <<processVars, rxVars>>
    BY DEF TX, TXInit, SendPreamble, writeSora
  <2> QED BY <2>1 DEF processVars, ContextReady
<1>2. CASE TXInit
  BY <1>1, <1>2 DEF TXInit, Running, TypeInv, RadioTypeOK, StartInv, SampleInv,
       Reading, processVars, rxVars, countVars
<1>3. CASE SendPreamble
  <2>1. Carry(PreambleBuffer) /\ Reading
    BY <1>3 DEF SendPreamble, PreambleBuffer, MaySend, Reading
  <2>2. pipe' \in Seq(Samples) /\ Len(pipe') <= PipeCap
    BY <2>1, PreambleType, Carried
  <2>3. sentBufs' \in 0 .. syncPreambLen + 1
    BY <1>3, Sizes DEF SendPreamble, TypeInv, RadioTypeOK
  <2> QED BY <1>1, <1>3, <2>1, <2>2, <2>3
          DEF SendPreamble, TypeInv, RadioTypeOK, StartInv, SampleInv, Reading,
              processVars, rxVars, countVars
<1>4. CASE writeSora
  <2>1. PICK size \in WriteSizes :
          /\ TXCnt + size <= Period
          /\ Carry(Written(size))
          /\ TXCnt' = (TXCnt + size) % Period
          /\ txd' = (txd + size) % DataMod
    BY <1>4 DEF writeSora, Written
  <2>2. size \in Nat /\ txd \in Int /\ TXCnt \in Int /\ Reading
    BY <1>4, Sizes DEF TypeInv, RadioTypeOK, writeSora, MaySend, Reading
  <2>3. pipe' \in Seq(Samples) /\ Len(pipe') <= PipeCap
    BY <2>1, <2>2, WrittenType, Carried
  <2>4. TXCnt' \in 0 .. Period - 1 /\ txd' \in 0 .. DataMod - 1
    BY <2>1, <2>2, Sizes
  <2> QED BY <1>1, <1>4, <2>2, <2>3, <2>4, SMTT(30)
          DEF writeSora, TypeInv, RadioTypeOK, StartInv, SampleInv, Reading,
              processVars, rxVars, countVars
<1> QED BY <1>2, <1>3, <1>4 DEF TX

\* A block is taken from what is under way.
NextBlock == SubSeq(pipe, 1, Block)
BehindBlock == SubSeq(pipe, Block + 1, Len(pipe))

LEMMA BlockTaken ==
  ASSUME pipe \in Seq(Samples), Len(pipe) >= Block
  PROVE  /\ NextBlock \in Seq(Samples) /\ Len(NextBlock) = Block
         /\ BehindBlock \in Seq(Samples) /\ Len(BehindBlock) = Len(pipe) - Block
<1>1. Len(pipe) \in Nat /\ \A k \in 1 .. Len(pipe) : pipe[k] \in Samples
  OBVIOUS
<1>2. NextBlock \in Seq(Samples) /\ Len(NextBlock) = Block
  BY <1>1, Sizes, SubSeqProperties DEF NextBlock
<1>3. BehindBlock \in Seq(Samples) /\ Len(BehindBlock) = Len(pipe) - Block
  BY <1>1, Sizes, SubSeqProperties DEF BehindBlock
<1> QED BY <1>2, <1>3

\* Samples of a block are handed over.
LEMMA SamplesHandedOver ==
  ASSUME NEW b \in Seq(Samples), Len(b) = Block,
         NEW from \in 0 .. Block, NEW n \in 0 .. Block - from
  PROVE  /\ Numbers(SubSeq(b, from + 1, from + n)) \in Seq(Int)
         /\ Len(Numbers(SubSeq(b, from + 1, from + n))) = n
         /\ \A k \in 1 .. n :
              Numbers(SubSeq(b, from + 1, from + n))[k] = b[from + k].d
<1> DEFINE s == SubSeq(b, from + 1, from + n)
<1>1. from \in Nat /\ n \in Nat /\ \A k \in from + 1 .. from + n : b[k] \in Samples
  BY Sizes
<1>2. /\ s \in Seq(Samples) /\ Len(s) = n
      /\ \A k \in 1 .. n : s[k] = b[from + k]
  <2>1. /\ s \in Seq(Samples)
        /\ Len(s) = IF from + 1 <= from + n THEN (from + n) - (from + 1) + 1 ELSE 0
        /\ \A k \in 1 .. (from + n) - (from + 1) + 1 : s[k] = b[(from + 1) + k - 1]
    <3> HIDE DEF s
    <3> QED BY <1>1, SubSeqProperties DEF s
  <2> HIDE DEF s
  <2>2. (from + n) - (from + 1) + 1 = n /\ \A k \in 1 .. n : (from + 1) + k - 1 = from + k
    BY <1>1
  <2> QED BY <1>1, <2>1, <2>2
<1> HIDE DEF s
<1>3. \A k \in 1 .. n : s[k].d \in Int
  <2>1. \A k \in 1 .. n : s[k] \in Samples
    BY <1>2
  <2> QED BY <2>1 DEF Samples
<1>4. Numbers(s) = [k \in 1 .. n |-> s[k].d]
  BY <1>2 DEF Numbers
<1>5. Numbers(s) \in Seq(Int) /\ Len(Numbers(s)) = n
  BY <1>1, <1>3, <1>4
<1>6. \A k \in 1 .. n : Numbers(s)[k] = b[from + k].d
  BY <1>2, <1>4
<1> QED BY <1>5, <1>6 DEF s

LEMMA RXKeepsTypeInv == TypeInv /\ RX => TypeInv'
<1> SUFFICES ASSUME TypeInv, RX PROVE TypeInv'
  OBVIOUS
<1>1. UNCHANGED <<processVars, txVars, lost>> /\ Running("RX")
  BY DEF RX, RXInit, Synchronise, readSora, ReadBlock
<1>2. ContextReady /\ ContextReady' /\ main \notin SetUpSteps
  BY <1>1, RunningThread
<1>3. CASE RXInit
  BY <1>1, <1>2, <1>3 DEF RXInit, Running, TypeInv, RadioTypeOK, StartInv, SampleInv,
       Reading, processVars, txVars, countVars
<1>4. CASE Synchronise
  <2>1. NextBlock \in Seq(Samples) /\ Len(NextBlock) = Block
        /\ BehindBlock \in Seq(Samples) /\ Len(BehindBlock) = Len(pipe) - Block
    BY <1>4, BlockTaken DEF Synchronise, TypeInv, SampleInv
  <2>2. syncStateCnt \in 0 .. TXBufferSize - 1
    BY DEF TypeInv, RadioTypeOK
  <2>3. Search(NextBlock).used \in 1 .. Block
        /\ Search(NextBlock).state \in 0 .. TXBufferSize - 1
    <3>1. PICK state : SearchOf(state, NextBlock)
                 /\ Search(NextBlock).used \in 1 .. Block
                 /\ Search(NextBlock).state = state[Search(NextBlock).used]
      BY <2>1, <2>2, SearchRuns
    <3> QED BY <3>1, Sizes DEF SearchOf
  <2>4. /\ syncStateCnt' = Search(NextBlock).state
        /\ RXSynced' = (Search(NextBlock).state >= TXBufferSize - 1)
        /\ block' = NextBlock /\ pipe' = BehindBlock
        /\ indexSrc' = IF RXSynced' THEN Search(NextBlock).used ELSE indexSrc
        /\ RXSymbol' = IF RXSynced' THEN Block - Search(NextBlock).used ELSE RXSymbol
        /\ Reading
        /\ UNCHANGED <<rx_init_done, RXFrame, outOfSyncs, remaining, out, due>>
    BY <1>4 DEF Synchronise, NextBlock, BehindBlock
  <2>5. RXSynced' = (syncStateCnt' = TXBufferSize - 1) /\ RXSynced' \in BOOLEAN
    <3>1. (Search(NextBlock).state >= TXBufferSize - 1) <=> (syncStateCnt' = TXBufferSize - 1)
      BY <2>3, <2>4, Sizes
    <3> QED BY <2>4, <3>1
  <2>6. RadioTypeOK'
    <3>1. indexSrc' \in 0 .. Block /\ RXSymbol' \in 0 .. Period
      BY <2>3, <2>4, Sizes DEF TypeInv, RadioTypeOK
    <3>2. Len(pipe') <= PipeCap
      BY <2>1, <2>4, Sizes DEF TypeInv, RadioTypeOK, SampleInv
    <3>3. syncStateCnt' \in 0 .. TXBufferSize - 1
      BY <2>3, <2>4
    <3> QED BY <1>1, <2>1, <2>4, <2>5, <3>1, <3>2, <3>3
            DEF TypeInv, RadioTypeOK, txVars, processVars
  <2>7. StartInv'
    BY <1>1, <2>4, <2>5 DEF TypeInv, StartInv, Reading, processVars, txVars
  <2>8. SampleInv'
    BY <1>1, <2>1, <2>4, <2>5 DEF TypeInv, SampleInv, txVars
  <2> QED BY <2>6, <2>7, <2>8 DEF TypeInv
<1>5. ASSUME UNCHANGED <<rx_init_done, syncStateCnt, RXSynced>>,
             pipe' \in Seq(Samples), Len(pipe') <= PipeCap,
             block' \in Seq(Samples), Len(block') = Block,
             out' \in Seq(Int), Len(out') <= Block, due' \in Int,
             indexSrc' \in 0 .. Block, remaining' \in Nat,
             RXSymbol' \in 0 .. Period, RXFrame' \in 0 .. FrameCount - 1
      PROVE  TypeInv'
  BY <1>1, <1>2, <1>5 DEF TypeInv, RadioTypeOK, StartInv, SampleInv, Reading, processVars,
       txVars, ContextReady
<1> USE DEF TypeInv, RadioTypeOK, SampleInv
<1>6. CASE readSora
  <2>1. PICK size \in ReadSizes :
          LET n == Lesser(size, Block - indexSrc) IN
          /\ out' = Numbers(SubSeq(block, indexSrc + 1, indexSrc + n))
          /\ due' = (due + n) % DataMod
          /\ indexSrc' = indexSrc + n
          /\ remaining' = size - n
    BY <1>6 DEF readSora
  <2> DEFINE n == Lesser(size, Block - indexSrc)
  <2>2. n \in 0 .. Block - indexSrc /\ n <= size /\ size \in Nat
    BY Sizes DEF Lesser
  <2> HIDE DEF n
  <2>3. out' \in Seq(Int) /\ Len(out') = n
    BY <2>1, <2>2, SamplesHandedOver, SMTT(30) DEF n
  <2>4. due' = (due + n) % DataMod /\ indexSrc' = indexSrc + n /\ remaining' = size - n
    BY <2>1 DEF n
  <2>5. due' \in Int /\ indexSrc' \in 0 .. Block /\ remaining' \in Nat /\ Len(out') <= Block
    BY <2>2, <2>3, <2>4, Sizes
  <2> QED BY <1>5, <1>6, <2>3, <2>5 DEF readSora, countVars
<1>7. CASE ReadBlock
  <2> DEFINE n == Lesser(remaining, Block)
  <2>1. NextBlock \in Seq(Samples) /\ Len(NextBlock) = Block
        /\ BehindBlock \in Seq(Samples) /\ Len(BehindBlock) = Len(pipe) - Block
    BY <1>7, BlockTaken DEF ReadBlock
  <2>2. n \in 0 .. Block /\ n <= remaining
    BY Sizes DEF Lesser
  <2> HIDE DEF n
  <2>3. /\ block' = NextBlock /\ pipe' = BehindBlock
        /\ HandOver(NextBlock, 0, n)
        /\ UNCHANGED <<rx_init_done, syncStateCnt, RXSynced>>
    BY <1>7 DEF ReadBlock, NextBlock, BehindBlock, n
  <2>4. /\ out' = Numbers(SubSeq(NextBlock, 0 + 1, 0 + n)) /\ due' = (due + n) % DataMod
        /\ indexSrc' = 0 + n /\ remaining' = remaining - n
    BY <2>3 DEF HandOver
  <2>5. out' \in Seq(Int) /\ Len(out') = n
    <3>1. 0 \in 0 .. Block /\ n \in 0 .. Block - 0
      BY <2>2, Sizes
    <3> QED BY <2>1, <2>4, <3>1, SamplesHandedOver, SMTT(30)
  <2>6. due' \in Int /\ indexSrc' \in 0 .. Block /\ remaining' \in Nat /\ Len(out') <= Block
    BY <2>2, <2>4, <2>5, Sizes
  <2>7. RXSymbol' \in 0 .. Period /\ RXFrame' \in 0 .. FrameCount - 1
    <3>1. CASE NewFrame
      BY <1>7, <3>1, Sizes DEF ReadBlock, NewFrame
    <3>2. CASE ~ NewFrame
      BY <1>7, <3>2, Sizes DEF ReadBlock, NewFrame
    <3> QED BY <3>1, <3>2
  <2>8. Len(pipe') <= PipeCap
    BY <2>1, <2>3, Sizes
  <2> QED BY <1>5, <2>1, <2>3, <2>5, <2>6, <2>7, <2>8
<1> QED BY <1>3, <1>4, <1>6, <1>7 DEF RX

LEMMA StepKeepsTypeInv == TypeInv /\ [Next]_vars => TypeInv'
<1> SUFFICES ASSUME TypeInv, [Next]_vars PROVE TypeInv'
  OBVIOUS
<1>1. CASE Lose
  <2>1. BehindBlock \in Seq(Samples) /\ Len(BehindBlock) = Len(pipe) - Block
    BY <1>1, BlockTaken DEF Lose, TypeInv, SampleInv
  <2>2. Len(pipe') <= PipeCap
    BY <1>1, <2>1, Sizes DEF Lose, BehindBlock, TypeInv, RadioTypeOK, SampleInv
  <2> QED BY <1>1, <2>1, <2>2, SMTT(30)
          DEF Lose, BehindBlock, TypeInv, RadioTypeOK, StartInv, SampleInv, Reading,
              ContextReady, processVars, txVars, rxVars, countVars
<1>2. CASE UNCHANGED vars
  BY <1>2 DEF vars, TypeInv, RadioTypeOK, StartInv, SampleInv, Reading,
              ContextReady, processVars, txVars, rxVars, countVars
<1> QED BY <1>1, <1>2, MainKeepsTypeInv, TXKeepsTypeInv, RXKeepsTypeInv DEF Next, Stopped

\* The counters of the radio stay in their ranges, and the receiver counts as
\* synchronised exactly when it has seen the last value of the ramp: whatever
\* is lost, and whichever of main() and the threads goes first.
THEOREM RadioTypeCorrect == Spec => []RadioTypeOK
<1>1. Init => TypeInv
  BY InitTypeInv
<1>2. TypeInv /\ [Next]_vars => TypeInv'
  BY StepKeepsTypeInv
<1>3. TypeInv => RadioTypeOK
  BY DEF TypeInv
<1> QED BY <1>1, <1>2, <1>3, PTL DEF Spec

----------------------------------------------------------------------------
(* The positions, as long as no block is lost. *)

\* The ramp, and maybe frames, have been sent.
Sending == sentBufs > syncPreambLen

PreambleInv ==
  ~ Sending =>
    /\ TXCnt = 0 /\ txd = 0
    /\ \A k \in 1 .. Len(pipe) : pipe[k] = Zero
    /\ ContextReady => ~ RXSynced /\ syncStateCnt = FirstState

IdleInv ==
  ~ (Sending /\ RXSynced) =>
    RXFrame = 0 /\ due = 0 /\ remaining = 0 /\ out = <<>> /\ ~ outOfSyncs

\* e is the number of the first sample under way.
SendingInv(e) ==
  /\ From(pipe, e) /\ e + Len(pipe) >= 0
  /\ txd = (e + Len(pipe)) % DataMod /\ TXCnt = txd % Period

SearchInv(e) == ~ RXSynced => e < 0 /\ syncStateCnt = StateAt(e)

FrameInv(e) == \E f \in Nat : e = f * Period + RXSymbol /\ RXFrame = f % FrameCount

\* The next sample that the caller gets is in the block or, when the block is
\* used up, the first under way.
CallInv(e) ==
  /\ e - Block + indexSrc >= 0 /\ due = (e - Block + indexSrc) % DataMod
  /\ \A k \in indexSrc + 1 .. Block : block[k] = SampleAt(e - Block + k - 1)
  /\ remaining > 0 => indexSrc = Block
  /\ \A k \in 1 .. Len(out) : out[k] = (due - Len(out) + k - 1) % DataMod

SyncInv(e) == RXSynced => FrameInv(e) /\ CallInv(e) /\ ~ outOfSyncs

DataInv ==
  lost = 0 =>
    /\ PreambleInv /\ IdleInv
    /\ Sending => \E e \in Int : SendingInv(e) /\ SearchInv(e) /\ SyncInv(e)

Inv == TypeInv /\ DataInv

LEMMA InitDataInv == Init => DataInv
<1> SUFFICES ASSUME Init PROVE DataInv
  OBVIOUS
<1> USE Sizes DEF Init
<1>1. ~ Sending /\ ~ ContextReady
  BY DEF Sending, ContextReady, SetUpSteps
<1>2. PICK n \in 0 .. Block - 1 : pipe = [k \in 1 .. n |-> Zero]
  OBVIOUS
<1>3. \A k \in 1 .. Len(pipe) : pipe[k] = Zero
  BY <1>2
<1>4. PreambleInv
  BY <1>1, <1>3 DEF PreambleInv
<1>5. IdleInv
  BY DEF IdleInv
<1> QED BY <1>1, <1>4, <1>5 DEF DataInv

\* Steps that touch neither samples nor counters.
LEMMA OthersKeepDataInv ==
  ASSUME Inv,
         UNCHANGED <<sentBufs, TXCnt, txd, pipe, syncStateCnt, RXSynced, RXSymbol,
                     RXFrame, block, indexSrc, remaining, out, due, lost>>,
         outOfSyncs' => outOfSyncs, ContextReady' => ContextReady
  PROVE  DataInv'
<1> SUFFICES ASSUME lost = 0
             PROVE  /\ PreambleInv' /\ IdleInv'
                    /\ Sending' => \E e \in Int :
                         SendingInv(e)' /\ SearchInv(e)' /\ SyncInv(e)'
  BY DEF DataInv
<1>1. PreambleInv'
  BY DEF Inv, DataInv, PreambleInv, Sending
<1>2. IdleInv'
  BY DEF Inv, DataInv, IdleInv, Sending
<1>3. ASSUME Sending'
      PROVE  \E e \in Int : SendingInv(e)' /\ SearchInv(e)' /\ SyncInv(e)'
  <2>1. PICK e \in Int : SendingInv(e) /\ SearchInv(e) /\ SyncInv(e)
    BY <1>3 DEF Inv, DataInv, Sending
  <2>2. SendingInv(e)' /\ SearchInv(e)'
    BY <2>1 DEF SendingInv, SearchInv, From
  <2>3. SyncInv(e)'
    BY <2>1 DEF SyncInv, FrameInv, CallInv
  <2> QED BY <2>2, <2>3
<1> QED BY <1>1, <1>2, <1>3

LEMMA MainKeepsDataInv == Inv /\ Main => DataInv'
<1> SUFFICES ASSUME Inv, Main PROVE DataInv'
  OBVIOUS
<1>1. CASE initRXCtx
  <2>1. threads = {} /\ sentBufs \in Nat
    BY <1>1, Sizes DEF initRXCtx, SetUpSteps, Inv, TypeInv, StartInv, RadioTypeOK
  <2>2. ~ Sending
    BY <2>1, Sizes DEF Inv, TypeInv, StartInv, Reading, Sending
  <2>3. UNCHANGED <<sentBufs, TXCnt, txd, pipe, outOfSyncs, remaining, out, due, lost>>
        /\ RXFrame' = 0 /\ RXSynced' = FALSE /\ syncStateCnt' = FirstState
    BY <1>1 DEF initRXCtx, txVars, FirstState
  <2>4. ASSUME lost = 0 PROVE PreambleInv' /\ IdleInv'
    <3>1. PreambleInv /\ IdleInv
      BY <2>4 DEF Inv, DataInv
    <3>2. PreambleInv'
      BY <2>2, <2>3, <3>1 DEF PreambleInv, Sending
    <3>3. IdleInv'
      BY <2>2, <2>3, <3>1 DEF IdleInv, Sending
    <3> QED BY <3>2, <3>3
  <2> QED BY <2>2, <2>3, <2>4 DEF DataInv, Sending
<1>2. CASE ~ initRXCtx
  <2>1. UNCHANGED <<sentBufs, TXCnt, txd, pipe, syncStateCnt, RXSynced, RXSymbol,
                    RXFrame, block, indexSrc, remaining, out, due, lost>>
        /\ (outOfSyncs' => outOfSyncs)
    BY <1>2 DEF Main, SetUp, SoraUInitUserExtension, RadioStart, InitSoraTx, InitSoraRx,
         SetUpThen, StartWinUThread, StartFails, printRadioStats, GiveUp, stop_mac,
         stop_sora_hw, txVars, rxVars, countVars
  <2>2. ContextReady' => ContextReady
    <3>1. CASE SetUp
      <4>1. main' \in SetUpSteps /\ main \in SetUpSteps /\ threads' = threads
        BY <1>2, <3>1 DEF SetUp, SoraUInitUserExtension, RadioStart, InitSoraTx, InitSoraRx,
             SetUpThen, After, SetUpSteps
      <4> QED BY <4>1 DEF ContextReady
    <3>2. CASE ~ SetUp
      BY <3>2 DEF Main, StartWinUThread, StartFails, printRadioStats, GiveUp, stop_mac,
           stop_sora_hw, ContextReady, SetUpSteps, processVars
    <3> QED BY <3>1, <3>2
  <2> QED BY <2>1, <2>2, OthersKeepDataInv
<1> QED BY <1>1, <1>2

----------------------------------------------------------------------------
(* The transmitter. *)

\* The last buffer of the preamble is the ramp.  The samples under way are
\* zeros until then, and get their numbers with it.
LEMMA PreambleKeepsDataInv == Inv /\ SendPreamble => DataInv'
<1> SUFFICES ASSUME Inv, SendPreamble, lost = 0 PROVE DataInv'
  BY DEF SendPreamble, DataInv
<1>1. PreambleInv /\ IdleInv /\ ~ Sending /\ sentBufs \in Nat
  BY Sizes DEF Inv, DataInv, SendPreamble, Sending, TypeInv, RadioTypeOK
<1>2. /\ UNCHANGED <<processVars, tx_init_done, TXCnt, txd, rxVars, lost>>
      /\ Carry(PreambleBuffer) /\ Reading /\ sentBufs' = sentBufs + 1
  BY DEF SendPreamble, PreambleBuffer, MaySend, Reading
<1>3. /\ PreambleBuffer \in Seq(Samples) /\ Len(PreambleBuffer) = TXBufferSize
      /\ pipe \in Seq(Samples) /\ Len(pipe) \in Nat
  BY PreambleType DEF Inv, TypeInv, SampleInv
<1>4. pipe' = pipe \o PreambleBuffer /\ Len(pipe') = Len(pipe) + TXBufferSize
  BY <1>2, <1>3, Carried DEF Inv
<1>5. ContextReady /\ ~ RXSynced /\ syncStateCnt = FirstState
  <2>1. ContextReady
    BY RunningThread, <1>2 DEF Inv, SendPreamble
  <2> QED BY <1>1, <2>1 DEF PreambleInv
<1>6. IdleInv'
  BY <1>1, <1>2, <1>5 DEF IdleInv, rxVars, countVars
<1>7. CASE sentBufs # syncPreambLen
  <2>1. ~ Sending'
    BY <1>1, <1>2, <1>7, Sizes DEF Sending
  <2>2. \A k \in 1 .. TXBufferSize : PreambleBuffer[k] = Zero
    BY <1>7 DEF PreambleBuffer
  <2>3. \A k \in 1 .. Len(pipe') : pipe'[k] = Zero
    BY <1>1, <1>3, <1>4, <2>2, Sizes DEF PreambleInv
  <2>4. PreambleInv'
    BY <1>1, <1>2, <1>5, <2>3 DEF PreambleInv, rxVars
  <2> QED BY <1>6, <2>1, <2>4 DEF DataInv
<1>8. CASE sentBufs = syncPreambLen
  <2>0. PICK e \in Int : e = - (Len(pipe) + TXBufferSize)
    BY <1>3, Sizes
  <2>1. e < 0 /\ e + Len(pipe') = 0 /\ e + Len(pipe) = - TXBufferSize
    BY <1>3, <1>4, <2>0, Sizes
  <2>2. From(pipe, e)
    <3> SUFFICES ASSUME NEW k \in 1 .. Len(pipe) PROVE Zero = SampleAt(e + k - 1)
      BY <1>1 DEF From, PreambleInv
    <3>1. e + k - 1 < - TXBufferSize
      BY <1>3, <2>0, Sizes
    <3> QED BY <3>1 DEF SampleAt
  <2>3. From(PreambleBuffer, e + Len(pipe))
    <3> SUFFICES ASSUME NEW k \in 1 .. TXBufferSize
                 PROVE  Ramp(k - 1) = SampleAt(- TXBufferSize + k - 1)
      BY <1>3, <1>8, <2>1 DEF From, PreambleBuffer
    <3>1. /\ ~ (- TXBufferSize + k - 1 < - TXBufferSize) /\ - TXBufferSize + k - 1 < 0
          /\ (- TXBufferSize + k - 1) + TXBufferSize = k - 1
      BY Sizes
    <3> QED BY <3>1 DEF SampleAt
  <2>4. From(pipe', e)
    BY <1>3, <1>4, <2>1, <2>2, <2>3, FromConcat
  <2>5. 0 % DataMod = 0 /\ 0 % Period = 0
    BY Sizes
  <2>6. SendingInv(e)'
    BY <1>1, <1>2, <2>1, <2>4, <2>5 DEF SendingInv, From, PreambleInv
  <2>7. StateAt(e) = FirstState
    BY <1>3, <2>0, Sizes DEF StateAt, FirstState, Larger
  <2>8. SearchInv(e)' /\ SyncInv(e)'
    BY <1>2, <1>5, <2>1, <2>7 DEF SearchInv, SyncInv, rxVars
  <2>9. Sending'
    BY <1>2, <1>8, Sizes DEF Sending
  <2> QED BY <1>6, <2>1, <2>6, <2>8, <2>9 DEF DataInv, PreambleInv
<1> QED BY <1>7, <1>8

\* A write continues the numbers, and marks the samples whose number begins a
\* frame.
LEMMA WriteContinues ==
  ASSUME NEW p \in Int, p >= 0, txd = p % DataMod, TXCnt = txd % Period,
         NEW size \in Nat, TXCnt + size <= Period
  PROVE  /\ From(Written(size), p)
         /\ (txd + size) % DataMod = (p + size) % DataMod
         /\ (TXCnt + size) % Period = ((txd + size) % DataMod) % Period
<1>1. DataMod \in Nat \ {0} /\ Period \in Nat \ {0} /\ DataMod % Period = 0
  BY Sizes
<1>2. txd \in 0 .. DataMod - 1 /\ TXCnt \in 0 .. Period - 1
  <2>1. p % DataMod \in 0 .. DataMod - 1
    BY <1>1, RemainderRange
  <2>2. txd \in 0 .. DataMod - 1 /\ txd \in Int
    BY <1>1, <2>1
  <2>3. txd % Period \in 0 .. Period - 1
    BY <1>1, <2>2, RemainderRange
  <2> QED BY <2>2, <2>3
<1>3. ASSUME NEW k \in Int
      PROVE  /\ (txd + k) % DataMod = (p + k) % DataMod
             /\ (TXCnt + k) % Period = (p + k) % Period
  <2>1. ((p % DataMod) + k) % DataMod = (p + k) % DataMod
    BY <1>1, ResidueTakenEarly
  <2>2. (p % DataMod) % Period = p % Period
    BY <1>1, ResidueOfResidue
  <2>3. ((p % Period) + k) % Period = (p + k) % Period
    BY <1>1, ResidueTakenEarly
  <2> QED BY <2>1, <2>2, <2>3
<1>4. ASSUME NEW k \in 1 .. size PROVE Written(size)[k] = SampleAt(p + k - 1)
  <2>1. /\ k - 1 \in Int /\ txd + k - 1 = txd + (k - 1) /\ p + k - 1 = p + (k - 1)
        /\ TXCnt + (k - 1) \in 0 .. Period - 1
    BY <1>2, Sizes
  <2>2. (txd + k - 1) % DataMod = (p + k - 1) % DataMod
    BY <1>3, <2>1
  <2>3. k = Marked(size) <=> (p + k - 1) % Period = 0
    <3>1. (TXCnt + (k - 1)) % Period = TXCnt + (k - 1)
      BY <1>1, <2>1, SmallRemainder
    <3>2. (p + k - 1) % Period = TXCnt + (k - 1)
      BY <1>3, <2>1, <3>1
    <3>3. Marked(size) = IF TXCnt = 0 THEN 1 ELSE 0
      BY <1>1, <1>2 DEF Marked
    <3> QED BY <1>2, <3>2, <3>3
  <2>4. SampleAt(p + k - 1) =
          [im |-> 0, d |-> (p + k - 1) % DataMod, mark |-> (p + k - 1) % Period = 0]
    <3>1. ~ (p + k - 1 < - TXBufferSize) /\ ~ (p + k - 1 < 0)
      BY Sizes
    <3> QED BY <3>1 DEF SampleAt
  <2>5. (k = Marked(size)) = ((p + k - 1) % Period = 0)
    BY <2>3
  <2> QED BY <2>2, <2>4, <2>5 DEF Written
<1>5. From(Written(size), p)
  BY <1>1, <1>2, <1>4, WrittenType DEF From
<1>6. ((p + size) % DataMod) % Period = (p + size) % Period
  <2>1. p + size \in Int
    OBVIOUS
  <2> QED BY <1>1, <2>1, ResidueOfResidue
<1>7. /\ (txd + size) % DataMod = (p + size) % DataMod
      /\ (TXCnt + size) % Period = (p + size) % Period
  BY <1>3
<1> QED BY <1>5, <1>6, <1>7

LEMMA WriteKeepsDataInv == Inv /\ writeSora => DataInv'
<1> SUFFICES ASSUME Inv, writeSora, lost = 0 PROVE DataInv'
  BY DEF writeSora, DataInv
<1>1. Sending /\ Sending' /\ Reading
  BY DEF writeSora, Sending, MaySend, Reading
<1>2. UNCHANGED <<processVars, rxVars, lost>>
  BY DEF writeSora
<1>3. PICK size \in WriteSizes :
        /\ TXCnt + size <= Period
        /\ Carry(Written(size))
        /\ TXCnt' = (TXCnt + size) % Period
        /\ txd' = (txd + size) % DataMod
  BY DEF writeSora, Written
<1>4. PICK e \in Int : SendingInv(e) /\ SearchInv(e) /\ SyncInv(e)
  BY <1>1 DEF Inv, DataInv
<1>5. size \in Nat /\ txd \in Int /\ pipe \in Seq(Samples) /\ Len(pipe) \in Nat
  BY Sizes DEF Inv, TypeInv, RadioTypeOK, SampleInv
<1>6. Written(size) \in Seq(Samples) /\ Len(Written(size)) = size
  BY <1>5, WrittenType
<1>7. pipe' = pipe \o Written(size) /\ Len(pipe') = Len(pipe) + size
  BY <1>1, <1>3, <1>6, Carried DEF Inv
<1> DEFINE p == e + Len(pipe)
<1>8. p \in Int /\ p >= 0 /\ p + size = e + Len(pipe') /\ txd = p % DataMod /\ TXCnt = txd % Period
  BY <1>4, <1>5, <1>7 DEF SendingInv
<1> HIDE DEF p
<1>9. /\ From(Written(size), p)
      /\ (txd + size) % DataMod = (p + size) % DataMod
      /\ (TXCnt + size) % Period = ((txd + size) % DataMod) % Period
  BY <1>3, <1>5, <1>8, WriteContinues
<1>10. From(pipe', e)
  BY <1>4, <1>5, <1>6, <1>7, <1>9, FromConcat DEF SendingInv, p
<1>11. SendingInv(e)'
  BY <1>3, <1>5, <1>8, <1>9, <1>10 DEF SendingInv, From
<1>12. SearchInv(e)' /\ SyncInv(e)'
  BY <1>2, <1>4 DEF SearchInv, SyncInv, FrameInv, CallInv, rxVars, countVars
<1>13. IdleInv'
  BY <1>1, <1>2 DEF Inv, DataInv, IdleInv, rxVars, countVars
<1> QED BY <1>1, <1>11, <1>12, <1>13 DEF DataInv, PreambleInv

----------------------------------------------------------------------------
(* The receiver. *)

LEMMA BlockFrom ==
  ASSUME pipe \in Seq(Samples), Len(pipe) >= Block, NEW e \in Int, From(pipe, e)
  PROVE  /\ NextBlock \in Seq(Samples) /\ Len(NextBlock) = Block /\ From(NextBlock, e)
         /\ BehindBlock \in Seq(Samples) /\ Len(BehindBlock) = Len(pipe) - Block
         /\ From(BehindBlock, e + Block)
<1> USE Sizes
<1>1. Len(pipe) \in Nat
  OBVIOUS
<1>2. From(NextBlock, e)
  <2>1. 1 \in 1 .. Len(pipe) + 1 /\ Block \in 0 .. Len(pipe) /\ 1 <= Block + 1 /\ e + 1 - 1 = e
    BY <1>1
  <2>2. From(SubSeq(pipe, 1, Block), e + 1 - 1)
    BY <2>1, FromSubSeq
  <2> QED BY <2>1, <2>2 DEF NextBlock
<1>3. From(BehindBlock, e + Block)
  <2>1. /\ Block + 1 \in 1 .. Len(pipe) + 1 /\ Len(pipe) \in 0 .. Len(pipe)
        /\ Block + 1 <= Len(pipe) + 1 /\ e + (Block + 1) - 1 = e + Block
    BY <1>1
  <2>2. From(SubSeq(pipe, Block + 1, Len(pipe)), e + (Block + 1) - 1)
    BY <2>1, FromSubSeq
  <2> QED BY <2>1, <2>2 DEF BehindBlock
<1> QED BY <1>2, <1>3, BlockTaken

\* A block of zeros leaves the search where it begins.
LEMMA SearchInZeros ==
  ASSUME NEW b \in Seq(Samples), Len(b) = Block,
         \A k \in 1 .. Len(b) : b[k] = Zero, syncStateCnt = FirstState
  PROVE  Search(b).state = FirstState /\ ~ (Search(b).state >= TXBufferSize - 1)
<1> USE Sizes
<1>1. PICK e \in Int : e = - TXBufferSize - Block - 1
  OBVIOUS
<1>2. ASSUME NEW k \in 1 .. Len(b) PROVE Zero = SampleAt(e + k - 1)
  <2>1. e + k - 1 < - TXBufferSize
    BY <1>1
  <2> QED BY <2>1 DEF SampleAt
<1>3. From(b, e)
  BY <1>2 DEF From
<1>4. e < 0 /\ StateAt(e) = FirstState /\ StateAt(e + Block) = FirstState /\ ~ (e + Block >= 0)
  BY <1>1 DEF StateAt, FirstState, Larger
<1> QED BY <1>3, <1>4, SearchFollowsRamp

LEMMA SynchroniseKeepsDataInv == Inv /\ Synchronise => DataInv'
<1> SUFFICES ASSUME Inv, Synchronise, lost = 0 PROVE DataInv'
  BY DEF Synchronise, DataInv
<1>0. pipe \in Seq(Samples) /\ Len(pipe) \in Nat
  BY DEF Inv, TypeInv, SampleInv
<1>1. /\ Len(pipe) >= Block /\ ~ RXSynced /\ Running("RX")
      /\ UNCHANGED <<processVars, txVars, rx_init_done, RXFrame, outOfSyncs,
                     remaining, out, due, lost>>
      /\ syncStateCnt' = Search(NextBlock).state
      /\ RXSynced' = (Search(NextBlock).state >= TXBufferSize - 1)
      /\ block' = NextBlock /\ pipe' = BehindBlock
      /\ indexSrc' = IF RXSynced' THEN Search(NextBlock).used ELSE indexSrc
      /\ RXSymbol' = IF RXSynced' THEN Block - Search(NextBlock).used ELSE RXSymbol
  BY DEF Synchronise, NextBlock, BehindBlock
<1>2. ContextReady /\ ContextReady'
  BY <1>1, RunningThread DEF Inv
<1>3. /\ PreambleInv /\ Sending' = Sending
      /\ RXFrame = 0 /\ due = 0 /\ remaining = 0 /\ out = <<>> /\ ~ outOfSyncs
  BY <1>1 DEF Inv, DataInv, IdleInv, Sending, txVars
<1>4. IdleInv'
  BY <1>1, <1>3 DEF IdleInv
<1>5. CASE ~ Sending
  <2>1. /\ NextBlock \in Seq(Samples) /\ Len(NextBlock) = Block
        /\ BehindBlock \in Seq(Samples) /\ Len(BehindBlock) = Len(pipe) - Block
    BY <1>0, <1>1, BlockTaken
  <2>2. \A k \in 1 .. Len(pipe) : pipe[k] = Zero
    BY <1>3, <1>5 DEF PreambleInv
  <2>3. /\ \A k \in 1 .. Len(NextBlock) : NextBlock[k] = Zero
        /\ \A k \in 1 .. Len(BehindBlock) : BehindBlock[k] = Zero
    <3>1. \A k \in 1 .. Block : NextBlock[k] = pipe[k]
      BY <1>0, <1>1, Sizes DEF NextBlock
    <3>2. \A k \in 1 .. Len(pipe) - Block : BehindBlock[k] = pipe[Block + k]
      BY <1>0, <1>1, Sizes DEF BehindBlock
    <3>3. \A k \in 1 .. Block : k \in 1 .. Len(pipe)
      BY <1>0, <1>1, Sizes
    <3>4. \A k \in 1 .. Len(pipe) - Block : Block + k \in 1 .. Len(pipe)
      BY <1>0, <1>1, Sizes
    <3> QED BY <2>1, <2>2, <3>1, <3>2, <3>3, <3>4
  <2>4. Search(NextBlock).state = FirstState /\ ~ (Search(NextBlock).state >= TXBufferSize - 1)
    BY <1>2, <1>3, <1>5, <2>1, <2>3, SearchInZeros DEF PreambleInv
  <2>5. PreambleInv'
    BY <1>1, <1>3, <1>5, <2>3, <2>4 DEF PreambleInv, txVars
  <2> QED BY <1>3, <1>4, <1>5, <2>5 DEF DataInv
<1>6. CASE Sending
  <2>1. PICK e \in Int : SendingInv(e) /\ SearchInv(e)
    BY <1>6 DEF Inv, DataInv
  <2>2. From(pipe, e) /\ e < 0 /\ syncStateCnt = StateAt(e)
    BY <1>1, <2>1 DEF SendingInv, SearchInv
  <2>3. /\ NextBlock \in Seq(Samples) /\ Len(NextBlock) = Block /\ From(NextBlock, e)
        /\ BehindBlock \in Seq(Samples) /\ Len(BehindBlock) = Len(pipe) - Block
        /\ From(BehindBlock, e + Block)
    BY <1>0, <1>1, <2>2, BlockFrom
  <2>4. /\ Search(NextBlock).state = StateAt(e + Block)
        /\ Search(NextBlock).state >= TXBufferSize - 1 <=> e + Block >= 0
        /\ e + Block >= 0 => Search(NextBlock).used = - e
    BY <2>2, <2>3, SearchFollowsRamp
  <2>5. PICK x \in Int : x = e + Block
    BY Sizes
  <2>9. RXSynced' <=> x >= 0
    BY <1>1, <2>4, <2>5
  <2>6. SendingInv(x)'
    <3>1. x + Len(pipe') = e + Len(pipe)
      BY <1>0, <1>1, <2>3, <2>5, Sizes
    <3> QED BY <1>1, <2>1, <2>3, <2>5, <3>1 DEF SendingInv, txVars
  <2>7. SearchInv(x)'
    BY <1>1, <2>4, <2>5, <2>9 DEF SearchInv
  <2>8. SyncInv(x)'
    <3> SUFFICES ASSUME RXSynced' PROVE FrameInv(x)' /\ CallInv(x)' /\ ~ outOfSyncs'
      BY DEF SyncInv
    <3>1. x >= 0 /\ indexSrc' = - e /\ RXSymbol' = x /\ x - Block = e
      <4>1. Search(NextBlock).used = - e
        BY <2>4, <2>5, <2>9
      <4>2. indexSrc' = - e /\ RXSymbol' = Block - (- e)
        BY <1>1, <4>1
      <4> QED BY <2>5, <2>9, <4>2, Sizes
    <3>2. FrameInv(x)'
      <4>1. 0 % FrameCount = 0 /\ x = 0 * Period + x
        BY <3>1, Sizes
      <4> QED BY <1>1, <1>3, <3>1, <4>1 DEF FrameInv
    <3>3. CallInv(x)'
      <4>1. x - Block + indexSrc' = 0 /\ 0 % DataMod = 0
        BY <3>1, Sizes
      <4>2. \A k \in indexSrc' + 1 .. Block : block'[k] = SampleAt(x - Block + k - 1)
        <5>1. \A k \in indexSrc' + 1 .. Block : k \in 1 .. Block
          BY <2>2, <3>1, Sizes
        <5> QED BY <1>1, <2>3, <3>1, <5>1 DEF From
      <4> QED BY <1>1, <1>3, <4>1, <4>2 DEF CallInv
    <3> QED BY <1>1, <1>3, <3>2, <3>3
  <2> QED BY <1>3, <1>4, <1>6, <2>6, <2>7, <2>8 DEF DataInv, PreambleInv
<1> QED BY <1>5, <1>6

\* The number of the next sample, and those of the n samples before it.
LEMMA InOrder ==
  ASSUME NEW a \in Int, NEW n \in Nat
  PROVE  /\ ((a % DataMod) + n) % DataMod = (a + n) % DataMod
         /\ \A k \in 1 .. n :
              (((a + n) % DataMod) - n + k - 1) % DataMod = (a + k - 1) % DataMod
<1>1. DataMod \in Nat \ {0} /\ n \in Int /\ a + n \in Int
  BY Sizes
<1>2. ((a % DataMod) + n) % DataMod = (a + n) % DataMod
  BY <1>1, ResidueTakenEarly
<1>3. ASSUME NEW k \in 1 .. n
      PROVE  (((a + n) % DataMod) - n + k - 1) % DataMod = (a + k - 1) % DataMod
  <2>1. k - 1 - n \in Int
    OBVIOUS
  <2>2. (((a + n) % DataMod) + (k - 1 - n)) % DataMod = ((a + n) + (k - 1 - n)) % DataMod
    BY <1>1, <2>1, ResidueTakenEarly
  <2>3. (a + n) % DataMod \in 0 .. DataMod - 1
    BY <1>1, RemainderRange
  <2>4. /\ ((a + n) % DataMod) - n + k - 1 = ((a + n) % DataMod) + (k - 1 - n)
        /\ (a + n) + (k - 1 - n) = a + k - 1
    BY <1>1, <2>3
  <2> QED BY <2>2, <2>4
<1> QED BY <1>2, <1>3

LEMMA SampleNumber ==
  ASSUME NEW q \in Int, q >= 0
  PROVE  SampleAt(q).d = q % DataMod
<1>1. ~ (q < - TXBufferSize) /\ ~ (q < 0)
  BY Sizes
<1> QED BY <1>1 DEF SampleAt

LEMMA ReadKeepsDataInv == Inv /\ readSora => DataInv'
<1> SUFFICES ASSUME Inv, readSora, lost = 0 PROVE DataInv'
  BY DEF readSora, DataInv
<1>1. /\ RXSynced /\ remaining = 0 /\ Running("RX")
      /\ UNCHANGED <<processVars, txVars, pipe, rx_init_done, syncStateCnt, RXSynced,
                     countVars, block, lost>>
  BY DEF readSora
<1>2. PICK size \in ReadSizes :
        LET n == Lesser(size, Block - indexSrc) IN
        /\ out' = Numbers(SubSeq(block, indexSrc + 1, indexSrc + n))
        /\ due' = (due + n) % DataMod
        /\ indexSrc' = indexSrc + n
        /\ remaining' = size - n
  BY DEF readSora
<1>3. /\ block \in Seq(Samples) /\ Len(block) = Block /\ indexSrc \in 0 .. Block
      /\ size \in Nat \ {0} /\ Block \in Nat
  BY Sizes DEF Inv, TypeInv, RadioTypeOK, SampleInv
<1>4. PICK n \in 0 .. Block - indexSrc : n = Lesser(size, Block - indexSrc)
  <2>1. Lesser(size, Block - indexSrc) \in 0 .. Block - indexSrc
    BY <1>3 DEF Lesser
  <2> QED BY <2>1
<1>5. /\ out' = Numbers(SubSeq(block, indexSrc + 1, indexSrc + n))
      /\ due' = (due + n) % DataMod /\ indexSrc' = indexSrc + n /\ remaining' = size - n
  BY <1>2, <1>4
<1>6. remaining' > 0 => indexSrc' = Block
  BY <1>3, <1>4, <1>5 DEF Lesser
<1>7. Sending /\ Sending'
  <2>1. ContextReady
    BY <1>1, RunningThread DEF Inv
  <2> QED BY <1>1, <2>1 DEF Inv, DataInv, PreambleInv, Sending, txVars
<1>8. PICK e \in Int : SendingInv(e) /\ SearchInv(e) /\ FrameInv(e) /\ CallInv(e) /\ ~ outOfSyncs
  BY <1>1, <1>7 DEF Inv, DataInv, SyncInv
<1>9. PICK a \in Int : a = e - Block + indexSrc
  BY <1>3
<1>10. /\ a >= 0 /\ due = a % DataMod
       /\ \A k \in indexSrc + 1 .. Block : block[k] = SampleAt(e - Block + k - 1)
  BY <1>8, <1>9 DEF CallInv
<1>11. Len(out') = n /\ \A k \in 1 .. n : out'[k] = (a + k - 1) % DataMod
  <2>1. Len(out') = n /\ \A k \in 1 .. n : out'[k] = block[indexSrc + k].d
    BY <1>3, <1>5, SamplesHandedOver
  <2>2. ASSUME NEW k \in 1 .. n PROVE block[indexSrc + k].d = (a + k - 1) % DataMod
    <3>1. /\ indexSrc + k \in indexSrc + 1 .. Block
          /\ e - Block + (indexSrc + k) - 1 = a + k - 1
          /\ a + k - 1 \in Int /\ a + k - 1 >= 0
      BY <1>3, <1>9, <1>10
    <3>2. block[indexSrc + k] = SampleAt(a + k - 1)
      BY <1>10, <3>1
    <3> QED BY <3>1, <3>2, SampleNumber
  <2> QED BY <2>1, <2>2
<1>12. /\ due' = (a + n) % DataMod
       /\ \A k \in 1 .. Len(out') : out'[k] = (due' - Len(out') + k - 1) % DataMod
  <2>1. due' = (a + n) % DataMod
    BY <1>5, <1>10, InOrder
  <2>2. \A k \in 1 .. n : (due' - n + k - 1) % DataMod = (a + k - 1) % DataMod
    <3>1. \A k \in 1 .. n :
            (((a + n) % DataMod) - n + k - 1) % DataMod = (a + k - 1) % DataMod
      <4>1. a \in Int /\ n \in Nat
        BY <1>3
      <4> QED BY <4>1, InOrder
    <3> QED BY <2>1, <3>1
  <2> QED BY <1>11, <2>1, <2>2
<1>13. CallInv(e)'
  <2>1. e - Block + indexSrc' = a + n /\ a + n >= 0
    BY <1>3, <1>5, <1>9, <1>10
  <2>2. \A k \in indexSrc' + 1 .. Block : k \in indexSrc + 1 .. Block
    BY <1>3, <1>5
  <2>3. \A k \in indexSrc' + 1 .. Block : block'[k] = SampleAt(e - Block + k - 1)
    BY <1>1, <1>10, <2>2
  <2> QED BY <1>6, <1>12, <2>1, <2>3 DEF CallInv
<1>14. SendingInv(e)' /\ SearchInv(e)' /\ FrameInv(e)' /\ ~ outOfSyncs'
  BY <1>1, <1>8 DEF SendingInv, SearchInv, FrameInv, txVars, countVars
<1> QED BY <1>1, <1>7, <1>13, <1>14 DEF DataInv, PreambleInv, IdleInv, SyncInv

\* A new frame begins after Period samples, with the marked one.
LEMMA CountingContinues ==
  ASSUME Inv, NEW e \in Int, FrameInv(e), e >= 0, ReadBlock, From(NextBlock, e),
         Len(NextBlock) = Block, ~ outOfSyncs
  PROVE  FrameInv(e + Block)' /\ ~ outOfSyncs'
<1>1. PICK f \in Nat : e = f * Period + RXSymbol /\ RXFrame = f % FrameCount
  BY DEF FrameInv
<1>2. /\ Period \in Nat \ {0} /\ FrameCount \in Nat \ {0} /\ Block \in Nat /\ Period > Block
      /\ RXSymbol \in 0 .. Period
  BY Sizes DEF Inv, TypeInv, RadioTypeOK
<1>3. f * Period \in Nat /\ (f + 1) * Period = f * Period + Period
  BY <1>2
<1>4. CASE NewFrame
  <2>1. /\ RXSymbol' = RXSymbol + Block - Period
        /\ RXFrame' = (RXFrame + 1) % FrameCount
        /\ \/ UNCHANGED outOfSyncs
           \/ ~ NextBlock[Period - RXSymbol + 1].mark
    BY <1>4 DEF ReadBlock, NextBlock
  <2>2. NextBlock[Period - RXSymbol + 1].mark
    <3>1. /\ Period - RXSymbol + 1 \in 1 .. Block
          /\ e + (Period - RXSymbol + 1) - 1 = (f + 1) * Period
      BY <1>1, <1>2, <1>3, <1>4 DEF NewFrame
    <3>2. NextBlock[Period - RXSymbol + 1] = SampleAt((f + 1) * Period)
      BY <3>1 DEF From
    <3>3. (Period * (f + 1) + 0) % Period = 0
      BY <1>2, RemainderUnique
    <3>4. Period * (f + 1) + 0 = (f + 1) * Period /\ (f + 1) * Period >= 0
      BY <1>2, <1>3
    <3>5. ~ ((f + 1) * Period < - TXBufferSize) /\ ~ ((f + 1) * Period < 0)
      BY <1>2, <1>3, <3>4, Sizes
    <3>6. SampleAt((f + 1) * Period).mark = ((f + 1) * Period % Period = 0)
      BY <3>5 DEF SampleAt
    <3> QED BY <3>2, <3>3, <3>4, <3>6
  <2>3. ((f % FrameCount) + 1) % FrameCount = (f + 1) % FrameCount
    <3>1. f \in Int /\ 1 \in Int
      OBVIOUS
    <3> QED BY <1>2, <3>1, ResidueTakenEarly
  <2>4. e + Block = (f + 1) * Period + RXSymbol'
    BY <1>1, <1>2, <1>3, <2>1
  <2>5. f + 1 \in Nat /\ RXFrame' = (f + 1) % FrameCount
    BY <1>1, <2>1, <2>3
  <2> QED BY <2>1, <2>2, <2>4, <2>5 DEF FrameInv
<1>5. CASE ~ NewFrame
  <2>1. RXSymbol' = RXSymbol + Block /\ UNCHANGED <<RXFrame, outOfSyncs>>
    BY <1>5 DEF ReadBlock
  <2>2. e + Block = f * Period + RXSymbol'
    BY <1>1, <1>2, <1>3, <2>1
  <2> QED BY <1>1, <2>1, <2>2 DEF FrameInv
<1> QED BY <1>4, <1>5

LEMMA ReadBlockKeepsDataInv == Inv /\ ReadBlock => DataInv'
<1> SUFFICES ASSUME Inv, ReadBlock, lost = 0 PROVE DataInv'
  BY DEF ReadBlock, DataInv
<1>1. /\ RXSynced /\ remaining > 0 /\ Len(pipe) >= Block /\ Running("RX")
      /\ block' = NextBlock /\ pipe' = BehindBlock
      /\ UNCHANGED <<processVars, txVars, rx_init_done, syncStateCnt, RXSynced, lost>>
  BY DEF ReadBlock, NextBlock, BehindBlock
<1>2. Sending /\ Sending'
  <2>1. ContextReady
    BY <1>1, RunningThread DEF Inv
  <2> QED BY <1>1, <2>1 DEF Inv, DataInv, PreambleInv, Sending, txVars
<1>3. PICK e \in Int : SendingInv(e) /\ SearchInv(e) /\ FrameInv(e) /\ CallInv(e) /\ ~ outOfSyncs
  BY <1>1, <1>2 DEF Inv, DataInv, SyncInv
<1>4. pipe \in Seq(Samples) /\ Len(pipe) \in Nat /\ remaining \in Nat /\ Block \in Nat \ {0}
  BY Sizes DEF Inv, TypeInv, RadioTypeOK, SampleInv
<1>5. e >= 0 /\ due = e % DataMod
  <2>1. indexSrc = Block
    BY <1>1, <1>3 DEF CallInv
  <2>2. e - Block + indexSrc = e
    BY <1>4, <2>1
  <2> QED BY <1>3, <2>2 DEF CallInv
<1>6. /\ NextBlock \in Seq(Samples) /\ Len(NextBlock) = Block /\ From(NextBlock, e)
      /\ BehindBlock \in Seq(Samples) /\ Len(BehindBlock) = Len(pipe) - Block
      /\ From(BehindBlock, e + Block)
  BY <1>1, <1>3, <1>4, BlockFrom DEF SendingInv
<1>7. PICK n \in 0 .. Block : n = Lesser(remaining, Block)
  <2>1. Lesser(remaining, Block) \in 0 .. Block
    BY <1>4 DEF Lesser
  <2> QED BY <2>1
<1>8. /\ out' = Numbers(SubSeq(NextBlock, 0 + 1, 0 + n)) /\ due' = (due + n) % DataMod
      /\ indexSrc' = n /\ remaining' = remaining - n
  <2>1. HandOver(NextBlock, 0, n)
    BY <1>7 DEF ReadBlock, NextBlock
  <2>2. indexSrc' = 0 + n /\ 0 + n = n
    BY <1>7, <2>1 DEF HandOver
  <2> QED BY <2>1, <2>2 DEF HandOver
<1>9. remaining' > 0 => n = Block
  BY <1>4, <1>7, <1>8 DEF Lesser
<1>10. Len(out') = n /\ \A k \in 1 .. n : out'[k] = (e + k - 1) % DataMod
  <2>1. 0 \in 0 .. Block /\ n \in 0 .. Block - 0
    BY <1>4, <1>7
  <2>2. Len(out') = n /\ \A k \in 1 .. n : out'[k] = NextBlock[0 + k].d
    BY <1>6, <1>8, <2>1, SamplesHandedOver
  <2>3. ASSUME NEW k \in 1 .. n PROVE NextBlock[0 + k].d = (e + k - 1) % DataMod
    <3>1. 0 + k = k /\ k \in 1 .. Block /\ e + k - 1 \in Int /\ e + k - 1 >= 0
      BY <1>4, <1>5, <1>7
    <3>2. NextBlock[k] = SampleAt(e + k - 1)
      BY <1>6, <3>1 DEF From
    <3> QED BY <3>1, <3>2, SampleNumber
  <2> QED BY <2>2, <2>3
<1>11. /\ due' = (e + n) % DataMod
       /\ \A k \in 1 .. Len(out') : out'[k] = (due' - Len(out') + k - 1) % DataMod
  <2>1. e \in Int /\ n \in Nat
    BY <1>4, <1>7
  <2>2. due' = (e + n) % DataMod
    BY <1>5, <1>8, <2>1, InOrder
  <2>3. \A k \in 1 .. n : (due' - n + k - 1) % DataMod = (e + k - 1) % DataMod
    <3>1. \A k \in 1 .. n :
            (((e + n) % DataMod) - n + k - 1) % DataMod = (e + k - 1) % DataMod
      BY <2>1, InOrder
    <3> QED BY <2>2, <3>1
  <2> QED BY <1>10, <2>2, <2>3
<1>12. PICK x \in Int : x = e + Block
  BY <1>4
<1>13. CallInv(x)'
  <2>1. x - Block + indexSrc' = e + n /\ e + n >= 0 /\ x - Block = e
    BY <1>4, <1>5, <1>7, <1>8, <1>12
  <2>2. \A k \in indexSrc' + 1 .. Block : k \in 1 .. Block
    BY <1>7, <1>8
  <2>3. \A k \in indexSrc' + 1 .. Block : block'[k] = SampleAt(x - Block + k - 1)
    BY <1>1, <1>6, <2>1, <2>2 DEF From
  <2> QED BY <1>8, <1>9, <1>11, <2>1, <2>3 DEF CallInv
<1>14. SendingInv(x)'
  <2>1. x + Len(pipe') = e + Len(pipe)
    BY <1>1, <1>4, <1>6, <1>12
  <2> QED BY <1>1, <1>3, <1>6, <1>12, <2>1 DEF SendingInv, txVars
<1>15. FrameInv(x)' /\ ~ outOfSyncs'
  BY <1>3, <1>5, <1>6, <1>12, CountingContinues
<1>16. SearchInv(x)'
  BY <1>1 DEF SearchInv
<1> QED BY <1>1, <1>2, <1>13, <1>14, <1>15, <1>16 DEF DataInv, PreambleInv, IdleInv, SyncInv

LEMMA StepKeepsDataInv == Inv /\ [Next]_vars => DataInv'
<1> SUFFICES ASSUME Inv, [Next]_vars PROVE DataInv'
  OBVIOUS
<1>1. CASE TXInit \/ RXInit
  <2>1. UNCHANGED <<sentBufs, TXCnt, txd, pipe, syncStateCnt, RXSynced, RXSymbol,
                    RXFrame, block, indexSrc, remaining, out, due, lost, outOfSyncs,
                    main, threads>>
    BY <1>1 DEF TXInit, RXInit, processVars, txVars, rxVars, countVars
  <2>2. ContextReady' => ContextReady
    BY <2>1 DEF ContextReady
  <2> QED BY <2>1, <2>2, OthersKeepDataInv
<1>2. CASE Lose
  <2>1. lost' # 0
    BY <1>2 DEF Lose, Inv, TypeInv, SampleInv
  <2> QED BY <2>1 DEF DataInv
<1>3. CASE UNCHANGED vars
  <2>1. UNCHANGED <<sentBufs, TXCnt, txd, pipe, syncStateCnt, RXSynced, RXSymbol,
                    RXFrame, block, indexSrc, remaining, out, due, lost, outOfSyncs,
                    main, threads>>
    BY <1>3 DEF vars, processVars, txVars, rxVars, countVars
  <2>2. ContextReady' => ContextReady
    BY <2>1 DEF ContextReady
  <2> QED BY <2>1, <2>2, OthersKeepDataInv
<1> QED
  BY <1>1, <1>2, <1>3, MainKeepsDataInv, PreambleKeepsDataInv, WriteKeepsDataInv,
     SynchroniseKeepsDataInv, ReadKeepsDataInv, ReadBlockKeepsDataInv
  DEF Next, TX, RX, Stopped

LEMMA Invariant == Spec => []Inv
<1>1. Init => Inv
  BY InitTypeInv, InitDataInv DEF Inv
<1>2. Inv /\ [Next]_vars => Inv'
  BY StepKeepsTypeInv, StepKeepsDataInv DEF Inv
<1> QED BY <1>1, <1>2, PTL DEF Spec

\* A receiver that has found the ramp knows the frame and the position of
\* the next sample, for every size of the blocks, the buffers and the frames
\* and whatever the PHY asks for, and sees the mark of every frame.
THEOREM PositionsAlwaysAgree == Spec => []PositionsAgree
<1>1. Inv => PositionsAgree
  <2> SUFFICES ASSUME Inv, RXSynced, rx_init_done, lost = 0
               PROVE  /\ pipe # <<>> => pipe[1].d = (RXFrame * Period + RXSymbol) % DataMod
                      /\ ~ outOfSyncs
    BY DEF PositionsAgree
  <2>1. Sending
    BY DEF Inv, TypeInv, StartInv, ContextReady, DataInv, PreambleInv
  <2>2. PICK e \in Int : SendingInv(e) /\ FrameInv(e) /\ CallInv(e) /\ ~ outOfSyncs
    BY <2>1 DEF Inv, DataInv, SyncInv
  <2>3. PICK f \in Nat : e = f * Period + RXSymbol /\ RXFrame = f % FrameCount
    BY <2>2 DEF FrameInv
  <2>4. /\ Period \in Nat \ {0} /\ FrameCount \in Nat \ {0} /\ DataMod = Period * FrameCount
        /\ DataMod \in Nat \ {0} /\ RXSymbol \in Nat /\ RXFrame \in Nat /\ pipe \in Seq(Samples)
    BY Sizes DEF DataMod, Inv, TypeInv, RadioTypeOK, SampleInv
  <2>5. e % DataMod = (RXFrame * Period + RXSymbol) % DataMod
    <3>1. PICK q \in Nat : f = FrameCount * q + RXFrame
      <4>1. PICK q \in Nat, r \in 0 .. FrameCount - 1 :
              f = FrameCount * q + r /\ f % FrameCount = r
        BY <2>3, <2>4, DivisionEquation
      <4> QED BY <2>3, <4>1
    <3>2. f * Period = RXFrame * Period + DataMod * q
      BY <2>4, <3>1
    <3>3. e = (RXFrame * Period + RXSymbol) + DataMod * q
      BY <2>3, <2>4, <3>2
    <3>4. RXFrame * Period + RXSymbol \in Int /\ q \in Int
      BY <2>4
    <3> QED BY <2>4, <3>3, <3>4, PlusMultiple
  <2>6. ASSUME pipe # <<>> PROVE pipe[1].d = e % DataMod
    <3>1. 1 \in 1 .. Len(pipe) /\ e + 1 - 1 = e
      BY <2>4, <2>6
    <3>2. pipe[1] = SampleAt(e)
      BY <2>2, <3>1 DEF SendingInv, From
    <3>3. e >= 0
      BY <2>3, <2>4
    <3> QED BY <3>2, <3>3, SampleNumber
  <2> QED BY <2>2, <2>5, <2>6
<1> QED BY <1>1, Invariant, PTL

\* The samples of the frames reach the PHY from the first on, each once and
\* in order, for calls of every size.
THEOREM AlwaysHandedOverInOrder == Spec => []HandedOverInOrder
<1>1. Inv => HandedOverInOrder
  <2> SUFFICES ASSUME Inv, lost = 0, NEW k \in 1 .. Len(out)
               PROVE  out[k] = (due - Len(out) + k - 1) % DataMod
    BY DEF HandedOverInOrder
  <2>1. CASE Sending /\ RXSynced
    BY <2>1 DEF Inv, DataInv, SyncInv, CallInv
  <2>2. CASE ~ (Sending /\ RXSynced)
    <3>1. out = <<>>
      BY <2>2 DEF Inv, DataInv, IdleInv
    <3> QED BY <3>1
  <2> QED BY <2>1, <2>2
<1> QED BY <1>1, Invariant, PTL

=============================================================================
