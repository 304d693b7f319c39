---------------------------- MODULE SoraTxProofs ----------------------------
(***************************************************************************)
(* The transmit side of the radio, for rings of every size: no copy leaks, *)
(* is overwritten or is freed too early, and the samples go on the air     *)
(* complete, once and in order.                                            *)
(*                                                                         *)
(* Every index and counter of the program is the remainder of a number     *)
(* that only grows.  The invariant says that such numbers exist and how    *)
(* they lie, and what the rings hold between them.                         *)
(***************************************************************************)
EXTENDS SoraTx, NaturalFacts

LEMMA Sizes ==
  /\ no_tx_bufs \in Nat \ {0} /\ no_tx_bufs >= 2
  /\ cmd_fifo_queue_size \in Nat \ {0}
  /\ CounterMod \in Nat \ {0} /\ CounterMod > cmd_fifo_queue_size
  /\ CounterMod % cmd_fifo_queue_size = 0
  /\ Chunks \in Nat \ {0} /\ Chunks > no_tx_bufs + cmd_fifo_queue_size
BY SoraAssumption

----------------------------------------------------------------------------
(* Type correctness. *)

LEMMA InitType == Init => SoraTypeOK
<1> SUFFICES ASSUME Init PROVE SoraTypeOK
  OBVIOUS
<1> USE Sizes DEF Init, Contents, Counters, Partial
<1>1. TXBuffers \in [0 .. no_tx_bufs - 1 -> Contents]
  OBVIOUS
<1>2. BufID \in [0 .. cmd_fifo_queue_size - 1 -> Contents]
  OBVIOUS
<1>3. commands \in Seq(Contents) /\ air \in Seq(Contents) /\ Len(air) <= 2
  OBVIOUS
<1> QED BY <1>1, <1>2, <1>3 DEF SoraTypeOK

LEMMA HeadAndTail ==
  ASSUME NEW S, NEW s \in Seq(S), s # <<>>
  PROVE  Head(s) \in S /\ Tail(s) \in Seq(S)
OBVIOUS

LEMMA StepKeepsType == SoraTypeOK /\ [Next]_vars => SoraTypeOK'
<1> SUFFICES ASSUME SoraTypeOK, [Next]_vars PROVE SoraTypeOK'
  OBVIOUS
<1> USE Sizes DEF SoraTypeOK, Contents, Counters, Partial
<1>1. CASE WriteFirst
  BY <1>1 DEF WriteFirst, workerVars, boardVars
<1>2. CASE WriteRest
  BY <1>2 DEF WriteRest, workerVars, boardVars
<1>3. CASE Release
  <2>1. nextSlot(prepareBuf) \in 0 .. no_tx_bufs - 1
    BY DEF nextSlot
  <2>2. (prepared + 1) % Chunks \in 0 .. Chunks - 1
    OBVIOUS
  <2> QED BY <1>3, <2>1, <2>2 DEF Release, workerVars, boardVars
<1>4. CASE Synchronize
  BY <1>4 DEF Synchronize, writerVars, boardVars
<1>5. increment(lastTx) \in 0 .. CounterMod - 1
  BY DEF increment
<1>6. queuePos(lastTx) \in 0 .. cmd_fifo_queue_size - 1
  BY DEF queuePos
<1>7. CASE Transfer
  <2>1. TXBuffers[transferBuf] \in Contents
    OBVIOUS
  <2>2. commands' \in Seq(Contents)
    BY <1>7, <2>1 DEF Transfer
  <2>3. BufID' \in [0 .. cmd_fifo_queue_size - 1 -> Contents]
    BY <1>7, <2>1 DEF Transfer
  <2>4. memory' \subseteq Contents
    BY <1>7, <2>1 DEF Transfer
  <2> QED BY <1>5, <1>7, <2>2, <2>3, <2>4 DEF Transfer, writerVars
<1>8. CASE TransferFails
  BY <1>5, <1>6, <1>8 DEF TransferFails, writerVars
<1>9. CASE Advance
  <2>1. nextSlot(transferBuf) \in 0 .. no_tx_bufs - 1
    BY DEF nextSlot
  <2> QED BY <1>9, <2>1 DEF Advance, writerVars, boardVars
<1>10. CASE NothingToTransfer
  BY <1>10 DEF NothingToTransfer, writerVars, boardVars
<1>11. CASE ReadPosition
  BY <1>11 DEF ReadPosition, writerVars, boardVars
<1>12. CASE Free
  <2>1. increment(firstTx) \in 0 .. CounterMod - 1
    BY DEF increment
  <2> QED BY <1>12, <2>1 DEF Free, writerVars
<1>13. CASE FreeDone
  BY <1>13 DEF FreeDone, writerVars, boardVars
<1>14. CASE Dequeue
  <2>1. increment(register) \in 0 .. CounterMod - 1
    BY DEF increment
  <2>2. Head(commands) \in Contents /\ Tail(commands) \in Seq(Contents)
    <3>1. commands \in Seq(Contents) /\ commands # <<>>
      BY <1>14 DEF Dequeue
    <3> HIDE DEF Contents
    <3> QED BY <3>1, HeadAndTail
  <2>3. air' \in Seq(Contents) /\ Len(air') <= 2
    <3>1. CASE Len(air) < 2
      BY <1>14, <2>2, <3>1 DEF Dequeue
    <3>2. CASE ~ (Len(air) < 2)
      <4>1. air[2] \in Contents
        BY <3>2
      <4>2. air' = <<air[2], Head(commands)>>
        BY <1>14, <3>2 DEF Dequeue
      <4> QED BY <2>2, <4>1, <4>2
    <3> QED BY <3>1, <3>2
  <2> QED BY <1>14, <2>1, <2>2, <2>3 DEF Dequeue, writerVars, workerVars
<1>15. CASE UNCHANGED vars
  BY <1>15 DEF vars, writerVars, workerVars, boardVars
<1> QED
  BY <1>1, <1>2, <1>3, <1>4, <1>7, <1>8, <1>9, <1>10, <1>11, <1>12, <1>13, <1>14, <1>15
  DEF Next, write, work

\* The rings, the counters and the threads are well typed, for rings and
\* counters of every size.
THEOREM SoraTypeCorrect == Spec => []SoraTypeOK
BY InitType, StepKeepsType, PTL DEF Spec

----------------------------------------------------------------------------
(***************************************************************************)
(* The rings.  k counts buffers and commands from 0 and never wraps; c is  *)
(* where the counters of the program stood when the worker synchronised.   *)
(***************************************************************************)
number(k) == k % Chunks
slotOf(k) == k % no_tx_bufs
counterAt(c, k) == (c + k) % CounterMod
commandSlot(c, k) == (c + k) % cmd_fifo_queue_size

LEMMA Numbers ==
  ASSUME NEW k \in Nat
  PROVE  /\ number(k) \in 0 .. Chunks - 1
         /\ (number(k) + 1) % Chunks = number(k + 1)
<1>1. ((k % Chunks) + 1) % Chunks = (k + 1) % Chunks
  BY Sizes, ResidueTakenEarly
<1> QED BY <1>1, Sizes DEF number

LEMMA NumbersDiffer ==
  ASSUME NEW j \in Nat, NEW k \in Nat, j < k, k - j < Chunks
  PROVE  number(j) # number(k)
BY Sizes, NearResiduesDiffer DEF number

LEMMA BufferSlots ==
  ASSUME NEW k \in Nat
  PROVE  /\ slotOf(k) \in 0 .. no_tx_bufs - 1
         /\ nextSlot(slotOf(k)) = slotOf(k + 1)
         /\ slotOf(k + no_tx_bufs) = slotOf(k)
<1>0. k \in Int /\ 1 \in Int
  OBVIOUS
<1>1. ((k % no_tx_bufs) + 1) % no_tx_bufs = (k + 1) % no_tx_bufs
  BY <1>0, Sizes, ResidueTakenEarly
<1>2. (k + no_tx_bufs * 1) % no_tx_bufs = k % no_tx_bufs
  BY <1>0, Sizes, PlusMultiple
<1>3. no_tx_bufs * 1 = no_tx_bufs
  BY Sizes
<1> QED BY <1>1, <1>2, <1>3, Sizes DEF slotOf, nextSlot

LEMMA BufferSlotsDiffer ==
  ASSUME NEW j \in Nat, NEW k \in Nat, j < k, k - j < no_tx_bufs
  PROVE  slotOf(j) # slotOf(k)
BY Sizes, NearResiduesDiffer DEF slotOf

LEMMA CommandSlots ==
  ASSUME NEW c \in Nat, NEW j \in Nat, NEW k \in Nat
  PROVE  /\ commandSlot(c, j) \in 0 .. cmd_fifo_queue_size - 1
         /\ queuePos(counterAt(c, j) + k) = commandSlot(c, j + k)
         /\ queuePos(counterAt(c, j)) = commandSlot(c, j)
<1> DEFINE x == (c + j) % CounterMod
<1>1. c + j \in Int /\ x \in Int /\ k \in Int
  BY Sizes
<1>2. x % cmd_fifo_queue_size = (c + j) % cmd_fifo_queue_size
  BY <1>1, Sizes, ResidueOfResidue
<1> HIDE DEF x
<1>3. ((x % cmd_fifo_queue_size) + k) % cmd_fifo_queue_size = (x + k) % cmd_fifo_queue_size
  BY <1>1, Sizes, ResidueTakenEarly
<1>4. (((c + j) % cmd_fifo_queue_size) + k) % cmd_fifo_queue_size
        = ((c + j) + k) % cmd_fifo_queue_size
  BY <1>1, Sizes, ResidueTakenEarly
<1>5. (c + j) + k = c + (j + k)
  OBVIOUS
<1>6. (x + k) % cmd_fifo_queue_size = (c + (j + k)) % cmd_fifo_queue_size
  BY <1>2, <1>3, <1>4, <1>5
<1>7. (c + j) % cmd_fifo_queue_size \in 0 .. cmd_fifo_queue_size - 1
  BY <1>1, Sizes
<1> QED BY <1>2, <1>6, <1>7 DEF x, queuePos, counterAt, commandSlot

LEMMA CommandSlotsDiffer ==
  ASSUME NEW c \in Nat, NEW j \in Nat, NEW k \in Nat, j < k, k - j < cmd_fifo_queue_size
  PROVE  commandSlot(c, j) # commandSlot(c, k)
<1>1. c + j \in Nat /\ c + k \in Nat /\ c + j < c + k /\ (c + k) - (c + j) < cmd_fifo_queue_size
  OBVIOUS
<1> HIDE DEF commandSlot
<1>2. (c + j) % cmd_fifo_queue_size # (c + k) % cmd_fifo_queue_size
  BY <1>1, Sizes, NearResiduesDiffer
<1> QED BY <1>2 DEF commandSlot

LEMMA CountersAt ==
  ASSUME NEW c \in Nat, NEW j \in Nat
  PROVE  /\ counterAt(c, j) \in Counters
         /\ increment(counterAt(c, j)) = counterAt(c, j + 1)
<1>1. c + j \in Int /\ 1 \in Int /\ (c + j) + 1 = c + (j + 1)
  OBVIOUS
<1>2. (((c + j) % CounterMod) + 1) % CounterMod = ((c + j) + 1) % CounterMod
  BY <1>1, Sizes, ResidueTakenEarly
<1>3. (c + j) % CounterMod \in 0 .. CounterMod - 1
  BY <1>1, Sizes
<1> QED BY <1>1, <1>2, <1>3 DEF counterAt, increment, Counters

\* diff_wrap is the distance of two counters, also when one has wrapped.
LEMMA Distance ==
  ASSUME NEW c \in Nat, NEW j \in Nat, NEW k \in Nat, j <= k, k - j < CounterMod
  PROVE  diff_wrap(counterAt(c, k), counterAt(c, j)) = k - j
<1>1. PICK q \in Nat, x \in 0 .. CounterMod - 1 :
        c + k = CounterMod * q + x /\ (c + k) % CounterMod = x
  <2>1. c + k \in Nat
    OBVIOUS
  <2> QED BY <2>1, Sizes, DivisionEquation
<1>2. PICK s \in Nat, y \in 0 .. CounterMod - 1 :
        c + j = CounterMod * s + y /\ (c + j) % CounterMod = y
  <2>1. c + j \in Nat
    OBVIOUS
  <2> QED BY <2>1, Sizes, DivisionEquation
<1>3. diff_wrap(counterAt(c, k), counterAt(c, j))
        = IF y > x THEN (CounterMod - 1 - y) + x + 1 ELSE x - y
  BY <1>1, <1>2 DEF diff_wrap, counterAt
<1>4. k - j = CounterMod * q - CounterMod * s + x - y
  BY <1>1, <1>2, Sizes
<1>5. CASE q = s
  BY <1>3, <1>4, <1>5, Sizes
<1>6. CASE q = s + 1
  <2>1. CounterMod * q = CounterMod * s + CounterMod
    BY <1>6, Sizes
  <2>2. CounterMod * s \in Nat
    BY Sizes
  <2> QED BY <1>3, <1>4, <2>1, <2>2, Sizes
<1>7. CASE q < s
  <2>1. CounterMod * s >= CounterMod * (q + 1) /\ CounterMod * (q + 1) = CounterMod * q + CounterMod
    BY <1>7, Sizes
  <2>2. CounterMod * s \in Nat /\ CounterMod * q \in Nat
    BY Sizes
  <2> QED BY <1>4, <2>1, <2>2, Sizes
<1>8. CASE q > s + 1
  <2>1. CounterMod * q >= CounterMod * (s + 2) /\ CounterMod * (s + 2) = CounterMod * s + CounterMod + CounterMod
    BY <1>8, Sizes
  <2>2. CounterMod * s \in Nat /\ CounterMod * q \in Nat
    BY Sizes
  <2> QED BY <1>4, <2>1, <2>2, Sizes
<1> QED BY <1>5, <1>6, <1>7, <1>8

----------------------------------------------------------------------------
(***************************************************************************)
(* The invariant.  Commands before F are freed, before E were seen to be   *)
(* dequeued, before R are dequeued, before L have a copy; buffers before T *)
(* are transferred, before P are released.                                 *)
(***************************************************************************)
Order(F, E, R, L, T, P) ==
  /\ F <= E /\ E <= R
  /\ L - F <= cmd_fifo_queue_size /\ T <= P /\ P - T < no_tx_bufs
  /\ L = IF worker \in {"advance", "returned"} THEN T + 1 ELSE T
  /\ R + Len(commands) = IF worker = "returned" THEN L - 1 ELSE L
  /\ worker = "advance" => T < P
  /\ worker = "init" => L = 0

Positions(c, F, E, R, L, T, P) ==
  /\ prepared = number(P) /\ prepareBuf = slotOf(P) /\ transferBuf = slotOf(T)
  /\ register = counterAt(c, R)
  /\ worker # "init" =>
       firstTx = counterAt(c, F) /\ firstTx32 = counterAt(c, E) /\ lastTx = counterAt(c, L)

Filled(T, P) ==
  /\ \A k \in T .. P - 1 : TXBuffers[slotOf(k)] = number(k)
  /\ writer = "full" => TXBuffers[slotOf(P)] = number(P)

Held(c, F, L) ==
  /\ \A k \in F .. L - 1 : BufID[commandSlot(c, k)] = number(k)
  /\ memory = {number(k) : k \in F .. L - 1}

Queued(R) == \A i \in 1 .. Len(commands) : commands[i] = number(R + i - 1)

OnAir(F, R) ==
  /\ Len(air) = IF R < 2 THEN R ELSE 2
  /\ Len(air) <= R - F
  /\ \A i \in 1 .. Len(air) : air[i] = number(R - Len(air) + i - 1)

Tracked(c, F, E, R, L, T, P) ==
  /\ Order(F, E, R, L, T, P) /\ Positions(c, F, E, R, L, T, P)
  /\ Filled(T, P) /\ Held(c, F, L) /\ Queued(R) /\ OnAir(F, R)

SoraInv ==
  /\ SoraTypeOK
  /\ \E c, F, E, R, L, T, P \in Nat : Tracked(c, F, E, R, L, T, P)

LEMMA RingsInit == Init => \E c, F, E, R, L, T, P \in Nat : Tracked(c, F, E, R, L, T, P)
<1> SUFFICES ASSUME Init PROVE Tracked(register, 0, 0, 0, 0, 0, 0)
  <2>1. Init => register \in Nat /\ 0 \in Nat
    BY Sizes DEF Init, Counters
  <2> QED BY <2>1
<1>1. number(0) = 0 /\ slotOf(0) = 0
  BY Sizes DEF number, slotOf
<1>2. counterAt(register, 0) = register
  BY Sizes DEF Init, Counters, counterAt
<1>3. Order(0, 0, 0, 0, 0, 0)
  BY Sizes DEF Init, Order
<1>4. Positions(register, 0, 0, 0, 0, 0, 0)
  BY <1>1, <1>2 DEF Init, Positions
<1>5. Filled(0, 0) /\ Held(register, 0, 0) /\ Queued(0) /\ OnAir(0, 0)
  BY DEF Init, Filled, Held, Queued, OnAir
<1> QED BY <1>3, <1>4, <1>5 DEF Tracked

\* The writer fills its slot: the released slots are other ones.
LEMMA WriteKeeps ==
  ASSUME SoraTypeOK, NEW c \in Nat, NEW F \in Nat, NEW E \in Nat, NEW R \in Nat,
         NEW L \in Nat, NEW T \in Nat, NEW P \in Nat,
         Tracked(c, F, E, R, L, T, P), WriteFirst \/ WriteRest
  PROVE  Tracked(c, F, E, R, L, T, P)'
<1>1. /\ UNCHANGED <<prepareBuf, prepared, workerVars, boardVars>>
      /\ \E x : TXBuffers' = [TXBuffers EXCEPT ![prepareBuf] = x]
      /\ writer' = "full" => TXBuffers' = [TXBuffers EXCEPT ![prepareBuf] = prepared]
  BY DEF WriteFirst, WriteRest
<1>2. prepareBuf = slotOf(P) /\ prepared = number(P) /\ P - T < no_tx_bufs
  BY DEF Tracked, Positions, Order
<1>3. slotOf(P) \in DOMAIN TXBuffers
  BY BufferSlots DEF SoraTypeOK
<1>4. ASSUME NEW k \in T .. P - 1 PROVE TXBuffers'[slotOf(k)] = number(k)
  <2>1. k \in Nat /\ k < P /\ P - k < no_tx_bufs
    BY <1>2, Sizes
  <2>2. slotOf(k) # slotOf(P)
    BY <2>1, BufferSlotsDiffer
  <2>3. slotOf(k) \in DOMAIN TXBuffers
    BY <2>1, BufferSlots DEF SoraTypeOK
  <2>4. TXBuffers'[slotOf(k)] = TXBuffers[slotOf(k)]
    BY <1>1, <1>2, <2>2, <2>3
  <2> QED BY <2>4 DEF Tracked, Filled
<1>5. Filled(T, P)'
  BY <1>1, <1>2, <1>3, <1>4 DEF Filled
<1>6. /\ Order(F, E, R, L, T, P)' /\ Positions(c, F, E, R, L, T, P)'
      /\ Held(c, F, L)' /\ Queued(R)' /\ OnAir(F, R)'
  BY <1>1 DEF Tracked, Order, Positions, Held, Queued, OnAir, workerVars, boardVars
<1> QED BY <1>5, <1>6 DEF Tracked

\* The writer moves on to a slot that the worker does not need any more.
LEMMA ReleaseKeeps ==
  ASSUME SoraTypeOK, NEW c \in Nat, NEW F \in Nat, NEW E \in Nat, NEW R \in Nat,
         NEW L \in Nat, NEW T \in Nat, NEW P \in Nat,
         Tracked(c, F, E, R, L, T, P), Release
  PROVE  Tracked(c, F, E, R, L, T, P + 1)' /\ P + 1 - T < no_tx_bufs
<1>1. /\ writer = "full" /\ slotFree /\ writer' = "fill"
      /\ prepareBuf' = nextSlot(prepareBuf) /\ prepared' = (prepared + 1) % Chunks
      /\ UNCHANGED <<TXBuffers, workerVars, boardVars>>
  BY DEF Release
<1>2. prepareBuf = slotOf(P) /\ prepared = number(P) /\ transferBuf = slotOf(T)
  BY DEF Tracked, Positions
<1>3. prepareBuf' = slotOf(P + 1) /\ prepared' = number(P + 1)
  BY <1>1, <1>2, BufferSlots, Numbers
<1>4. P + 1 - T < no_tx_bufs
  <2>1. T <= P /\ P - T < no_tx_bufs
    BY DEF Tracked, Order
  <2>2. ASSUME P + 1 = T + no_tx_bufs PROVE FALSE
    <3>1. slotOf(P + 1) = slotOf(T)
      BY <2>2, BufferSlots
    <3> QED BY <1>1, <1>2, <1>3, <3>1 DEF slotFree
  <2> QED BY <2>1, <2>2, Sizes
<1>5. Order(F, E, R, L, T, P + 1)'
  BY <1>1, <1>4 DEF Tracked, Order, workerVars, boardVars
<1>6. Positions(c, F, E, R, L, T, P + 1)'
  BY <1>1, <1>3 DEF Tracked, Positions, workerVars, boardVars
<1>7. Filled(T, P + 1)'
  <2> SUFFICES ASSUME NEW k \in T .. P PROVE TXBuffers[slotOf(k)] = number(k)
    BY <1>1 DEF Filled
  <2>1. CASE k = P
    BY <1>1, <2>1 DEF Tracked, Filled
  <2>2. CASE k # P
    <3>1. k \in T .. P - 1
      BY <2>2
    <3> QED BY <3>1 DEF Tracked, Filled
  <2> QED BY <2>1, <2>2
<1>8. Held(c, F, L)' /\ Queued(R)' /\ OnAir(F, R)'
  BY <1>1 DEF Tracked, Held, Queued, OnAir, workerVars, boardVars
<1> QED BY <1>4, <1>5, <1>6, <1>7, <1>8 DEF Tracked

LEMMA SynchronizeKeeps ==
  ASSUME NEW c \in Nat, NEW F \in Nat, NEW E \in Nat, NEW R \in Nat,
         NEW L \in Nat, NEW T \in Nat, NEW P \in Nat, SoraTypeOK,
         Tracked(c, F, E, R, L, T, P), Synchronize
  PROVE  Tracked(c, F, E, R, L, T, P)'
<1>1. /\ worker = "init" /\ worker' = "check"
      /\ lastTx' = register /\ firstTx' = register /\ firstTx32' = register
      /\ UNCHANGED <<transferBuf, BufID, writerVars, boardVars>>
  BY DEF Synchronize
<1>2. Len(commands) \in Nat
  BY DEF SoraTypeOK
<1>3. F = 0 /\ E = 0 /\ R = 0 /\ L = 0
  BY <1>1, <1>2 DEF Tracked, Order
<1>4. Order(F, E, R, L, T, P)'
  BY <1>1 DEF Tracked, Order, boardVars
<1>5. Positions(c, F, E, R, L, T, P)'
  BY <1>1, <1>3 DEF Tracked, Positions, writerVars, boardVars
<1>6. Filled(T, P)' /\ Held(c, F, L)' /\ Queued(R)' /\ OnAir(F, R)'
  BY <1>1 DEF Tracked, Filled, Held, Queued, OnAir, writerVars, boardVars
<1> QED BY <1>4, <1>5, <1>6 DEF Tracked

\* A new copy goes into a slot of the command ring that is not in use.
LEMMA TransferKeeps ==
  ASSUME SoraTypeOK, NEW c \in Nat, NEW F \in Nat, NEW E \in Nat, NEW R \in Nat,
         NEW L \in Nat, NEW T \in Nat, NEW P \in Nat,
         Tracked(c, F, E, R, L, T, P), Transfer \/ TransferFails
  PROVE  Tracked(c, F, E, R, L + 1, T, P)'
<1> DEFINE new == TXBuffers[transferBuf]
<1>1. /\ worker = "check" /\ bufferReady /\ commandFree
      /\ BufID' = [BufID EXCEPT ![queuePos(lastTx)] = new]
      /\ memory' = memory \union {new}
      /\ lastTx' = increment(lastTx)
      /\ UNCHANGED <<transferBuf, firstTx, firstTx32, writerVars, register, air>>
  BY DEF Transfer, TransferFails
<1>2. \/ worker' = "advance" /\ commands' = Append(commands, new)
      \/ worker' = "returned" /\ commands' = commands
  BY DEF Transfer, TransferFails
<1>3. /\ F <= E /\ E <= R /\ L = T /\ T <= P /\ P - T < no_tx_bufs
      /\ L - F <= cmd_fifo_queue_size
      /\ Len(commands) \in Nat /\ R + Len(commands) = L
  BY <1>1 DEF Tracked, Order, SoraTypeOK
<1>4. /\ firstTx = counterAt(c, F) /\ firstTx32 = counterAt(c, E) /\ lastTx = counterAt(c, L)
      /\ prepareBuf = slotOf(P) /\ transferBuf = slotOf(T)
  BY <1>1 DEF Tracked, Positions
<1>5. T < P
  BY <1>1, <1>3, <1>4 DEF bufferReady
<1>6. L - F < cmd_fifo_queue_size
  <2>1. F <= L /\ L - F < CounterMod
    BY <1>3, Sizes
  <2>2. diff_wrap(lastTx, firstTx) = L - F
    BY <1>4, <2>1, Distance
  <2> QED BY <1>1, <2>2 DEF commandFree
<1>7. new = number(L)
  <2>1. T \in T .. P - 1
    BY <1>5
  <2> QED BY <1>3, <1>4, <2>1 DEF Tracked, Filled
<1> HIDE DEF new
<1>8. lastTx' = counterAt(c, L + 1) /\ queuePos(lastTx) = commandSlot(c, L)
  BY <1>1, <1>4, CountersAt, CommandSlots
<1>9. Order(F, E, R, L + 1, T, P)'
  <2>1. Len(commands') = IF worker' = "returned" THEN Len(commands) ELSE Len(commands) + 1
    BY <1>2 DEF SoraTypeOK
  <2> QED BY <1>2, <1>3, <1>5, <1>6, <2>1, Sizes DEF Order
<1>10. Positions(c, F, E, R, L + 1, T, P)'
  BY <1>1, <1>4, <1>8 DEF Tracked, Positions, writerVars
<1>11. Held(c, F, L + 1)'
  <2>1. commandSlot(c, L) \in DOMAIN BufID
    BY CommandSlots DEF SoraTypeOK
  <2>2. ASSUME NEW k \in F .. L PROVE BufID'[commandSlot(c, k)] = number(k)
    <3>1. CASE k = L
      BY <1>1, <1>7, <1>8, <2>1, <3>1
    <3>2. CASE k # L
      <4>1. k \in F .. L - 1 /\ k \in Nat /\ k < L /\ L - k < cmd_fifo_queue_size
        BY <1>6, <3>2, Sizes
      <4>2. commandSlot(c, k) # commandSlot(c, L)
        BY <4>1, CommandSlotsDiffer
      <4>3. commandSlot(c, k) \in DOMAIN BufID
        BY <4>1, CommandSlots DEF SoraTypeOK
      <4>4. BufID[commandSlot(c, k)] = number(k)
        BY <4>1 DEF Tracked, Held
      <4> QED BY <1>1, <1>8, <4>2, <4>3, <4>4
    <3> QED BY <3>1, <3>2
  <2>3. memory' = {number(k) : k \in F .. L}
    <3>1. memory = {number(k) : k \in F .. L - 1}
      BY DEF Tracked, Held
    <3>2. F .. L = (F .. L - 1) \union {L}
      BY <1>3
    <3> QED BY <1>1, <1>7, <3>1, <3>2
  <2>4. (L + 1) - 1 = L
    OBVIOUS
  <2> QED BY <2>2, <2>3, <2>4 DEF Held
<1>12. Queued(R)'
  <2>1. CASE worker' = "returned" /\ commands' = commands
    BY <2>1 DEF Tracked, Queued
  <2>2. CASE worker' = "advance" /\ commands' = Append(commands, new)
    <3> SUFFICES ASSUME NEW i \in 1 .. Len(commands) + 1
                 PROVE  commands'[i] = number(R + i - 1)
      BY <1>3, <2>2, SMTT(30) DEF Queued, SoraTypeOK
    <3>1. CASE i = Len(commands) + 1
      <4>1. commands'[i] = new
        BY <2>2, <3>1 DEF SoraTypeOK
      <4>2. R + i - 1 = L
        BY <1>3, <3>1
      <4> QED BY <1>7, <4>1, <4>2
    <3>2. CASE i # Len(commands) + 1
      <4>1. i \in 1 .. Len(commands)
        BY <1>3, <3>2
      <4>2. commands'[i] = commands[i]
        BY <2>2, <4>1 DEF SoraTypeOK
      <4> QED BY <4>1, <4>2 DEF Tracked, Queued
    <3> QED BY <3>1, <3>2
  <2> QED BY <1>2, <2>1, <2>2
<1>13. Filled(T, P)' /\ OnAir(F, R)'
  BY <1>1 DEF Tracked, Filled, OnAir, writerVars
<1> QED BY <1>9, <1>10, <1>11, <1>12, <1>13 DEF Tracked

LEMMA AdvanceKeeps ==
  ASSUME SoraTypeOK, NEW c \in Nat, NEW F \in Nat, NEW E \in Nat, NEW R \in Nat,
         NEW L \in Nat, NEW T \in Nat, NEW P \in Nat,
         Tracked(c, F, E, R, L, T, P), Advance
  PROVE  Tracked(c, F, E, R, L, T + 1, P)'
<1>1. /\ worker = "advance" /\ worker' = "read" /\ transferBuf' = nextSlot(transferBuf)
      /\ UNCHANGED <<BufID, firstTx, lastTx, firstTx32, writerVars, boardVars>>
  BY DEF Advance
<1>2. transferBuf' = slotOf(T + 1)
  BY <1>1, BufferSlots DEF Tracked, Positions
<1>3. Order(F, E, R, L, T + 1, P)'
  BY <1>1, Sizes DEF Tracked, Order, boardVars
<1>4. Positions(c, F, E, R, L, T + 1, P)'
  BY <1>1, <1>2 DEF Tracked, Positions, writerVars, boardVars
<1>5. Filled(T + 1, P)'
  <2>1. T + 1 .. P - 1 \subseteq T .. P - 1
    OBVIOUS
  <2> QED BY <1>1, <2>1 DEF Tracked, Filled, writerVars
<1>6. Held(c, F, L)' /\ Queued(R)' /\ OnAir(F, R)'
  BY <1>1 DEF Tracked, Held, Queued, OnAir, boardVars
<1> QED BY <1>3, <1>4, <1>5, <1>6 DEF Tracked

\* Steps of the worker that only move on.
LEMMA MoveOnKeeps ==
  ASSUME SoraTypeOK, NEW c \in Nat, NEW F \in Nat, NEW E \in Nat, NEW R \in Nat,
         NEW L \in Nat, NEW T \in Nat, NEW P \in Nat,
         Tracked(c, F, E, R, L, T, P), NothingToTransfer \/ FreeDone
  PROVE  Tracked(c, F, E, R, L, T, P)'
<1>1. /\ worker \in {"check", "free"} /\ worker' \in {"check", "read"}
      /\ UNCHANGED <<transferBuf, BufID, firstTx, lastTx, firstTx32, writerVars, boardVars>>
  BY DEF NothingToTransfer, FreeDone
<1>2. Order(F, E, R, L, T, P)'
  BY <1>1 DEF Tracked, Order, boardVars
<1>3. Positions(c, F, E, R, L, T, P)'
  BY <1>1 DEF Tracked, Positions, writerVars, boardVars
<1>4. Filled(T, P)' /\ Held(c, F, L)' /\ Queued(R)' /\ OnAir(F, R)'
  BY <1>1 DEF Tracked, Filled, Held, Queued, OnAir, writerVars, boardVars
<1> QED BY <1>2, <1>3, <1>4 DEF Tracked

LEMMA ReadPositionKeeps ==
  ASSUME SoraTypeOK, NEW c \in Nat, NEW F \in Nat, NEW E \in Nat, NEW R \in Nat,
         NEW L \in Nat, NEW T \in Nat, NEW P \in Nat,
         Tracked(c, F, E, R, L, T, P), ReadPosition
  PROVE  Tracked(c, F, R, R, L, T, P)'
<1>1. /\ worker = "read" /\ worker' = "free" /\ firstTx32' = register
      /\ UNCHANGED <<transferBuf, BufID, firstTx, lastTx, writerVars, boardVars>>
  BY DEF ReadPosition
<1>2. Order(F, R, R, L, T, P)'
  BY <1>1 DEF Tracked, Order, boardVars
<1>3. Positions(c, F, R, R, L, T, P)'
  BY <1>1 DEF Tracked, Positions, writerVars, boardVars
<1>4. Filled(T, P)' /\ Held(c, F, L)' /\ Queued(R)' /\ OnAir(F, R)'
  BY <1>1 DEF Tracked, Filled, Held, Queued, OnAir, writerVars, boardVars
<1> QED BY <1>2, <1>3, <1>4 DEF Tracked

\* The oldest copy goes.  Two that were dequeued after it stay, and the
\* copies in use have different numbers.
LEMMA FreeKeeps ==
  ASSUME SoraTypeOK, NEW c \in Nat, NEW F \in Nat, NEW E \in Nat, NEW R \in Nat,
         NEW L \in Nat, NEW T \in Nat, NEW P \in Nat,
         Tracked(c, F, E, R, L, T, P), Free
  PROVE  Tracked(c, F + 1, E, R, L, T, P)'
<1>1. /\ worker = "free" /\ mayFree /\ firstTx' = increment(firstTx)
      /\ memory' = memory \ {BufID[queuePos(firstTx)]}
      /\ UNCHANGED <<worker, transferBuf, BufID, lastTx, firstTx32, writerVars,
                     register, commands, air>>
  BY DEF Free
<1>2. /\ F <= E /\ E <= R /\ Len(commands) \in Nat /\ R + Len(commands) = L
      /\ L - F <= cmd_fifo_queue_size
  BY <1>1 DEF Tracked, Order, SoraTypeOK
<1>3. firstTx = counterAt(c, F) /\ firstTx32 = counterAt(c, E)
  BY <1>1 DEF Tracked, Positions
<1>4. E - F > 2
  <2>1. E - F < CounterMod
    BY <1>2, Sizes
  <2>2. diff_wrap(firstTx32, firstTx) = E - F
    BY <1>2, <1>3, <2>1, Distance
  <2> QED BY <1>1, <2>2 DEF mayFree
<1>5. firstTx' = counterAt(c, F + 1) /\ queuePos(firstTx) = commandSlot(c, F)
  BY <1>1, <1>3, CountersAt, CommandSlots
<1>6. Order(F + 1, E, R, L, T, P)'
  BY <1>1, <1>2, <1>4, Sizes DEF Tracked, Order
<1>7. Positions(c, F + 1, E, R, L, T, P)'
  BY <1>1, <1>5 DEF Tracked, Positions, writerVars
<1>8. Held(c, F + 1, L)'
  <2>1. BufID[commandSlot(c, F)] = number(F)
    <3>1. F \in F .. L - 1
      BY <1>2, <1>4
    <3> QED BY <3>1 DEF Tracked, Held
  <2>2. \A k \in F + 1 .. L - 1 : number(k) # number(F)
    <3> SUFFICES ASSUME NEW k \in F + 1 .. L - 1 PROVE number(k) # number(F)
      OBVIOUS
    <3>1. k \in Nat /\ F < k /\ k - F < Chunks
      BY <1>2, Sizes
    <3> QED BY <3>1, NumbersDiffer
  <2>3. F .. L - 1 = {F} \union (F + 1 .. L - 1)
    BY <1>2, <1>4
  <2>4. memory = {number(k) : k \in F .. L - 1}
    BY DEF Tracked, Held
  <2>5. memory' = {number(k) : k \in F + 1 .. L - 1}
    BY <1>1, <1>5, <2>1, <2>2, <2>3, <2>4
  <2>6. \A k \in F + 1 .. L - 1 : BufID[commandSlot(c, k)] = number(k)
    BY <2>3 DEF Tracked, Held
  <2> QED BY <1>1, <2>5, <2>6 DEF Held
<1>9. OnAir(F + 1, R)'
  <2>1. Len(air) <= 2 /\ Len(air) \in Nat
    BY DEF SoraTypeOK
  <2>2. Len(air) <= R - (F + 1)
    BY <1>2, <1>4, <2>1
  <2> QED BY <1>1, <2>2 DEF Tracked, OnAir
<1>10. Filled(T, P)' /\ Queued(R)'
  BY <1>1 DEF Tracked, Filled, Queued, writerVars
<1> QED BY <1>6, <1>7, <1>8, <1>9, <1>10 DEF Tracked

LEMMA DequeueKeeps ==
  ASSUME SoraTypeOK, NEW c \in Nat, NEW F \in Nat, NEW E \in Nat, NEW R \in Nat,
         NEW L \in Nat, NEW T \in Nat, NEW P \in Nat,
         Tracked(c, F, E, R, L, T, P), Dequeue
  PROVE  Tracked(c, F, E, R + 1, L, T, P)'
<1>1. /\ commands # <<>> /\ commands' = Tail(commands) /\ register' = increment(register)
      /\ air' = IF Len(air) < 2 THEN Append(air, Head(commands)) ELSE <<air[2], Head(commands)>>
      /\ UNCHANGED <<memory, writerVars, workerVars>>
  BY DEF Dequeue
<1>2. /\ commands \in Seq(Contents) /\ Len(commands) \in Nat \ {0}
      /\ Len(commands') = Len(commands) - 1
      /\ \A i \in 1 .. Len(commands) - 1 : commands'[i] = commands[i + 1]
      /\ Head(commands) = commands[1]
  BY <1>1 DEF SoraTypeOK
<1>3. Head(commands) = number(R)
  <2>1. 1 \in 1 .. Len(commands) /\ R + 1 - 1 = R
    BY <1>2
  <2> QED BY <1>2, <2>1 DEF Tracked, Queued
<1>4. register' = counterAt(c, R + 1)
  BY <1>1, CountersAt DEF Tracked, Positions
<1>5. Order(F, E, R + 1, L, T, P)'
  <2>1. Order(F, E, R, L, T, P) /\ worker' = worker
    BY <1>1 DEF Tracked, workerVars
  <2>2. E <= R + 1 /\ (R + 1) + Len(commands') = R + Len(commands)
    BY <1>2, <2>1 DEF Order
  <2> QED BY <2>1, <2>2 DEF Order
<1>6. Positions(c, F, E, R + 1, L, T, P)'
  BY <1>1, <1>4 DEF Tracked, Positions, writerVars, workerVars
<1>7. Queued(R + 1)'
  <2> SUFFICES ASSUME NEW i \in 1 .. Len(commands) - 1
               PROVE  commands'[i] = number(R + 1 + i - 1)
    BY <1>2 DEF Queued
  <2>1. i + 1 \in 1 .. Len(commands) /\ R + 1 + i - 1 = R + (i + 1) - 1
    BY <1>2
  <2> QED BY <1>2, <2>1 DEF Tracked, Queued
<1>8. OnAir(F, R + 1)'
  <2>1. /\ air \in Seq(Contents) /\ Len(air) \in Nat
        /\ Len(air) = IF R < 2 THEN R ELSE 2
        /\ Len(air) <= R - F
        /\ \A i \in 1 .. Len(air) : air[i] = number(R - Len(air) + i - 1)
    BY DEF SoraTypeOK, Tracked, OnAir
  <2>2. CASE R < 2
    <3>1. air' = Append(air, number(R)) /\ Len(air') = R + 1 /\ Len(air) = R
      BY <1>1, <1>3, <2>1, <2>2
    <3>2. ASSUME NEW i \in 1 .. R + 1 PROVE air'[i] = number(i - 1)
      <4>1. CASE i = R + 1
        BY <2>1, <3>1, <4>1
      <4>2. CASE i # R + 1
        <5>1. i \in 1 .. Len(air) /\ R - Len(air) + i - 1 = i - 1
          BY <3>1, <4>2
        <5>2. air'[i] = air[i]
          BY <2>1, <3>1, <5>1
        <5> QED BY <2>1, <5>1, <5>2
      <4> QED BY <4>1, <4>2
    <3>3. \A i \in 1 .. Len(air') : air'[i] = number((R + 1) - Len(air') + i - 1)
      BY <3>1, <3>2
    <3>4. Len(air') <= (R + 1) - F
      BY <2>1, <3>1, SMTT(30)
    <3> QED BY <1>1, <2>2, <3>1, <3>3, <3>4 DEF OnAir, workerVars
  <2>3. CASE ~ (R < 2)
    <3>1. air' = <<air[2], number(R)>> /\ Len(air') = 2 /\ Len(air) = 2
      BY <1>1, <1>3, <2>1, <2>3
    <3>2. air[2] = number(R - 1)
      <4>1. 2 \in 1 .. Len(air) /\ R - Len(air) + 2 - 1 = R - 1
        BY <3>1
      <4> QED BY <2>1, <4>1
    <3>3. ASSUME NEW i \in 1 .. 2 PROVE air'[i] = number((R + 1) - 2 + i - 1)
      <4>1. CASE i = 1
        <5>1. (R + 1) - 2 + 1 - 1 = R - 1
          OBVIOUS
        <5> QED BY <3>1, <3>2, <4>1, <5>1
      <4>2. CASE i = 2
        <5>1. (R + 1) - 2 + 2 - 1 = R
          OBVIOUS
        <5> QED BY <3>1, <4>2, <5>1
      <4> QED BY <4>1, <4>2
    <3>4. Len(air') <= (R + 1) - F
      BY <2>1, <3>1
    <3> QED BY <1>1, <2>3, <3>1, <3>3, <3>4 DEF OnAir, workerVars
  <2> QED BY <2>2, <2>3
<1>9. Filled(T, P)' /\ Held(c, F, L)'
  BY <1>1 DEF Tracked, Filled, Held, writerVars, workerVars
<1> QED BY <1>5, <1>6, <1>7, <1>8, <1>9 DEF Tracked

LEMMA SoraInvHolds == Spec => []SoraInv
<1>1. Init => SoraInv
  BY InitType, RingsInit DEF SoraInv
<1>2. SoraInv /\ [Next]_vars => SoraInv'
  <2> SUFFICES ASSUME SoraInv, [Next]_vars PROVE SoraInv'
    OBVIOUS
  <2>1. SoraTypeOK /\ SoraTypeOK'
    BY StepKeepsType DEF SoraInv
  <2>2. PICK c \in Nat, F \in Nat, E \in Nat, R \in Nat, L \in Nat, T \in Nat, P \in Nat :
          Tracked(c, F, E, R, L, T, P)
    BY DEF SoraInv
  <2>3. /\ F \in Nat /\ R \in Nat /\ F + 1 \in Nat /\ R + 1 \in Nat /\ L + 1 \in Nat
        /\ T + 1 \in Nat /\ P + 1 \in Nat
    OBVIOUS
  <2>4. CASE WriteFirst \/ WriteRest
    <3>1. Tracked(c, F, E, R, L, T, P)'
      BY <2>1, <2>2, <2>4, WriteKeeps
    <3> QED BY <2>1, <3>1 DEF SoraInv
  <2>5. CASE Release
    <3>1. Tracked(c, F, E, R, L, T, P + 1)'
      BY <2>1, <2>2, <2>5, ReleaseKeeps
    <3> QED BY <2>1, <2>3, <3>1 DEF SoraInv
  <2>6. CASE Synchronize
    <3>1. Tracked(c, F, E, R, L, T, P)'
      BY <2>1, <2>2, <2>6, SynchronizeKeeps
    <3> QED BY <2>1, <3>1 DEF SoraInv
  <2>7. CASE Transfer \/ TransferFails
    <3>1. Tracked(c, F, E, R, L + 1, T, P)'
      BY <2>1, <2>2, <2>7, TransferKeeps
    <3> QED BY <2>1, <2>3, <3>1 DEF SoraInv
  <2>8. CASE Advance
    <3>1. Tracked(c, F, E, R, L, T + 1, P)'
      BY <2>1, <2>2, <2>8, AdvanceKeeps
    <3> QED BY <2>1, <2>3, <3>1 DEF SoraInv
  <2>9. CASE NothingToTransfer \/ FreeDone
    <3>1. Tracked(c, F, E, R, L, T, P)'
      BY <2>1, <2>2, <2>9, MoveOnKeeps
    <3> QED BY <2>1, <3>1 DEF SoraInv
  <2>10. CASE ReadPosition
    <3>1. Tracked(c, F, R, R, L, T, P)'
      BY <2>1, <2>2, <2>10, ReadPositionKeeps
    <3> QED BY <2>1, <2>3, <3>1 DEF SoraInv
  <2>11. CASE Free
    <3>1. Tracked(c, F + 1, E, R, L, T, P)'
      BY <2>1, <2>2, <2>11, FreeKeeps
    <3> QED BY <2>1, <2>3, <3>1 DEF SoraInv
  <2>12. CASE Dequeue
    <3>1. Tracked(c, F, E, R + 1, L, T, P)'
      BY <2>1, <2>2, <2>12, DequeueKeeps
    <3> QED BY <2>1, <2>3, <3>1 DEF SoraInv
  <2>13. CASE UNCHANGED vars
    <3>1. Tracked(c, F, E, R, L, T, P)'
      BY <2>2, <2>13 DEF vars, writerVars, workerVars, boardVars, Tracked, Order,
                        Positions, Filled, Held, Queued, OnAir
    <3> QED BY <2>1, <3>1 DEF SoraInv
  <2> QED
    BY <2>4, <2>5, <2>6, <2>7, <2>8, <2>9, <2>10, <2>11, <2>12, <2>13
    DEF Next, write, work
<1> QED BY <1>1, <1>2, PTL DEF Spec

----------------------------------------------------------------------------
(* The memory of the board. *)

\* The copies that are allocated are those in the slots from firstTx to lastTx,
\* one in each, for rings of every size and also when the counters wrap.
THEOREM MemoryIsAlwaysTracked == Spec => []MemoryIsTracked
<1>1. SoraInv => MemoryIsTracked
  <2> SUFFICES ASSUME SoraInv, worker # "init"
               PROVE  LET held == diff_wrap(lastTx, firstTx)
                          slot(k) == BufID[queuePos(firstTx + k)]
                      IN  /\ held <= cmd_fifo_queue_size
                          /\ memory = {slot(k) : k \in 0 .. held - 1}
                          /\ \A j, k \in 0 .. held - 1 : slot(j) = slot(k) => j = k
    BY DEF MemoryIsTracked
  <2>1. PICK c \in Nat, F \in Nat, E \in Nat, R \in Nat, L \in Nat, T \in Nat, P \in Nat :
          Tracked(c, F, E, R, L, T, P)
    BY DEF SoraInv
  <2>2. /\ firstTx = counterAt(c, F) /\ lastTx = counterAt(c, L)
        /\ L - F <= cmd_fifo_queue_size /\ F <= L
    <3>1. firstTx = counterAt(c, F) /\ lastTx = counterAt(c, L)
      BY <2>1 DEF Tracked, Positions
    <3>2. Len(commands) \in Nat
      BY DEF SoraInv, SoraTypeOK
    <3>3. L - F <= cmd_fifo_queue_size /\ F <= L
      BY <2>1, <3>2 DEF Tracked, Order
    <3> QED BY <3>1, <3>3
  <2>3. diff_wrap(lastTx, firstTx) = L - F
    <3>1. L - F < CounterMod
      BY <2>2, Sizes
    <3> QED BY <2>2, <3>1, Distance
  <2> DEFINE slot(k) == BufID[queuePos(firstTx + k)]
  <2>4. ASSUME NEW k \in 0 .. L - F - 1 PROVE slot(k) = number(F + k)
    <3>1. F + k \in F .. L - 1 /\ k \in Nat
      BY <2>2
    <3>2. slot(k) = BufID[commandSlot(c, F + k)]
      <4>1. queuePos(counterAt(c, F) + k) = commandSlot(c, F + k)
        BY ONLY <3>1, c \in Nat, F \in Nat, CommandSlots
      <4> QED BY ONLY <2>2, <4>1
    <3> QED BY <2>1, <3>1, <3>2 DEF Tracked, Held
  <2> HIDE DEF slot
  <2>5. memory = {slot(k) : k \in 0 .. L - F - 1}
    <3>1. memory = {number(k) : k \in F .. L - 1}
      BY <2>1 DEF Tracked, Held
    <3>2. \A k \in F .. L - 1 : k - F \in 0 .. L - F - 1 /\ F + (k - F) = k
      BY <2>2
    <3>3. \A k \in 0 .. L - F - 1 : F + k \in F .. L - 1
      BY <2>2
    <3>4. \A k \in F .. L - 1 : number(k) = slot(k - F)
      BY <2>4, <3>2
    <3> QED BY <2>4, <3>1, <3>2, <3>3, <3>4
  <2>6. ASSUME NEW j \in 0 .. L - F - 1, NEW k \in 0 .. L - F - 1, slot(j) = slot(k)
        PROVE  j = k
    <3>1. number(F + j) = number(F + k)
      BY <2>4, <2>6
    <3>2. F + j \in Nat /\ F + k \in Nat
      OBVIOUS
    <3>3. CASE j < k
      <4>1. F + j < F + k /\ (F + k) - (F + j) < Chunks
        BY <2>2, <3>3, Sizes
      <4> QED BY <3>1, <3>2, <4>1, NumbersDiffer
    <3>4. CASE k < j
      <4>1. F + k < F + j /\ (F + j) - (F + k) < Chunks
        BY <2>2, <3>4, Sizes
      <4> QED BY <3>1, <3>2, <4>1, NumbersDiffer
    <3> QED BY <3>3, <3>4
  <2> QED BY <2>2, <2>3, <2>5, <2>6 DEF slot
<1> QED BY <1>1, SoraInvHolds, PTL

\* What waits for the antenna, or is on its way to it, is never freed.
THEOREM OnAirIsAlwaysAllocated == Spec => []OnAirIsAllocated
<1>1. SoraInv => OnAirIsAllocated
  <2> SUFFICES ASSUME SoraInv PROVE OnAirIsAllocated
    OBVIOUS
  <2>1. PICK c \in Nat, F \in Nat, E \in Nat, R \in Nat, L \in Nat, T \in Nat, P \in Nat :
          Tracked(c, F, E, R, L, T, P)
    BY DEF SoraInv
  <2>2. /\ commands \in Seq(Contents) /\ air \in Seq(Contents)
        /\ Len(commands) \in Nat /\ Len(air) \in Nat
        /\ F <= R /\ R + Len(commands) <= L /\ Len(air) <= R - F
    <3>1. commands \in Seq(Contents) /\ air \in Seq(Contents)
      BY DEF SoraInv, SoraTypeOK
    <3>2. Len(commands) \in Nat /\ Len(air) \in Nat
      BY <3>1
    <3>3. F <= R /\ R + Len(commands) <= L
      BY <2>1, <3>2 DEF Tracked, Order
    <3>4. Len(air) <= R - F
      BY <2>1 DEF Tracked, OnAir
    <3> QED BY <3>1, <3>2, <3>3, <3>4
  <2>3. \A k \in F .. L - 1 : number(k) \in memory
    BY <2>1 DEF Tracked, Held
  <2>4. ASSUME NEW i \in 1 .. Len(commands) PROVE commands[i] \in memory
    <3>1. R + i - 1 \in F .. L - 1
      BY <2>2
    <3> QED BY <2>1, <2>3, <3>1 DEF Tracked, Queued
  <2>5. ASSUME NEW i \in 1 .. Len(air) PROVE air[i] \in memory
    <3>1. R - Len(air) + i - 1 \in F .. L - 1
      BY <2>2
    <3> QED BY <2>1, <2>3, <3>1 DEF Tracked, OnAir
  <2>6. DOMAIN commands = 1 .. Len(commands) /\ DOMAIN air = 1 .. Len(air)
    BY <2>2
  <2> QED BY <2>4, <2>5, <2>6 DEF OnAirIsAllocated
<1> QED BY <1>1, SoraInvHolds, PTL

----------------------------------------------------------------------------
(* Refinement: the two rings and the board as one bounded FIFO. *)

sentLast == IF air = <<>> THEN Chunks - 1 ELSE air[Len(air)]

\* The next number to go on the air is that of the next command to dequeue.
LEMMA AfterSent ==
  ASSUME SoraTypeOK, NEW F \in Nat, NEW R \in Nat, OnAir(F, R)
  PROVE  Stream!after(sentLast) = number(R)
<1>1. Len(air) \in Nat /\ Len(air) = IF R < 2 THEN R ELSE 2
  BY DEF SoraTypeOK, OnAir
<1>2. CASE R = 0
  <2>1. air = <<>>
    BY <1>1, <1>2 DEF SoraTypeOK
  <2>2. (Chunks * 1 + 0) % Chunks = 0 /\ (Chunks * 0 + 0) % Chunks = 0
    BY Sizes, RemainderUnique
  <2>3. Chunks - 1 + 1 = Chunks * 1 + 0 /\ R = Chunks * 0 + 0
    BY <1>2, Sizes
  <2> QED BY <2>1, <2>2, <2>3 DEF sentLast, Stream!after, number
<1>3. CASE R # 0
  <2>1. Len(air) \in 1 .. Len(air) /\ R - Len(air) + Len(air) - 1 = R - 1
    BY <1>1, <1>3
  <2>2. air # <<>> /\ air[Len(air)] = number(R - 1)
    BY <1>1, <1>3, <2>1 DEF OnAir
  <2>3. R - 1 \in Nat /\ (R - 1) + 1 = R
    BY <1>3
  <2>4. (number(R - 1) + 1) % Chunks = number((R - 1) + 1)
    BY <2>3, Numbers
  <2> QED BY <2>2, <2>3, <2>4 DEF sentLast, Stream!after
<1> QED BY <1>2, <1>3

\* The distance of two numbers modulo Chunks.
LEMMA NumbersApart ==
  ASSUME NEW j \in Nat, NEW k \in Nat, j <= k, k - j < Chunks
  PROVE  (number(k) + Chunks - number(j)) % Chunks = k - j
<1>1. PICK q \in Nat, x \in 0 .. Chunks - 1 : k = Chunks * q + x /\ k % Chunks = x
  BY Sizes, DivisionEquation
<1>2. PICK s \in Nat, y \in 0 .. Chunks - 1 : j = Chunks * s + y /\ j % Chunks = y
  BY Sizes, DivisionEquation
<1>3. /\ Chunks * q \in Nat /\ Chunks * s \in Nat
      /\ k - j = Chunks * q - Chunks * s + x - y
  BY <1>1, <1>2, Sizes
<1>4. k - j \in 0 .. Chunks - 1
  BY Sizes
<1>5. CASE q = s
  <2>1. x + Chunks - y = Chunks * 1 + (k - j)
    BY <1>3, <1>5, Sizes
  <2> QED BY <1>1, <1>2, <1>4, <2>1, Sizes, RemainderUnique DEF number
<1>6. CASE q = s + 1
  <2>1. Chunks * q = Chunks * s + Chunks
    BY <1>6, Sizes
  <2>2. x + Chunks - y = Chunks * 0 + (k - j)
    BY <1>3, <2>1, Sizes
  <2> QED BY <1>1, <1>2, <1>4, <2>2, Sizes, RemainderUnique DEF number
<1>7. CASE q < s
  <2>1. Chunks * s >= Chunks * (q + 1) /\ Chunks * (q + 1) = Chunks * q + Chunks
    BY <1>7, Sizes
  <2> QED BY <1>3, <2>1, Sizes
<1>8. CASE q > s + 1
  <2>1. Chunks * q >= Chunks * (s + 2) /\ Chunks * (s + 2) = Chunks * s + Chunks + Chunks
    BY <1>8, Sizes
  <2> QED BY <1>3, <2>1, Sizes
<1> QED BY <1>5, <1>6, <1>7, <1>8

\* How many buffers are under way.
LEMMA UnderWayIs ==
  ASSUME SoraTypeOK, NEW c \in Nat, NEW F \in Nat, NEW E \in Nat, NEW R \in Nat,
         NEW L \in Nat, NEW T \in Nat, NEW P \in Nat,
         Tracked(c, F, E, R, L, T, P)
  PROVE  /\ (prepared + Chunks - Stream!after(sentLast)) % Chunks = P - R
         /\ T - R <= cmd_fifo_queue_size
<1>1. /\ F <= R /\ T <= P /\ P - T < no_tx_bufs /\ L - F <= cmd_fifo_queue_size
      /\ Len(commands) \in Nat /\ R + Len(commands) <= P /\ T <= L
  BY DEF SoraTypeOK, Tracked, Order
<1>2. T - R <= cmd_fifo_queue_size
  BY <1>1, Sizes
<1>3. R <= P /\ P - R < Chunks
  BY <1>1, <1>2, Sizes
<1>4. prepared = number(P) /\ Stream!after(sentLast) = number(R)
  BY AfterSent DEF Tracked, Positions
<1> QED BY <1>2, <1>3, <1>4, NumbersApart

LEMMA ReleaseIsPrepare == SoraInv /\ Release => Stream!Prepare
<1> SUFFICES ASSUME SoraInv, Release PROVE Stream!Prepare
  OBVIOUS
<1>1. PICK c \in Nat, F \in Nat, E \in Nat, R \in Nat, L \in Nat, T \in Nat, P \in Nat :
        Tracked(c, F, E, R, L, T, P)
  BY DEF SoraInv
<1>2. P + 1 - T < no_tx_bufs
  BY <1>1, ReleaseKeeps DEF SoraInv
<1>3. /\ (prepared + Chunks - Stream!after(sentLast)) % Chunks = P - R
      /\ T - R <= cmd_fifo_queue_size
  BY <1>1, UnderWayIs DEF SoraInv
<1>4. P - R < no_tx_bufs - 1 + cmd_fifo_queue_size
  BY <1>2, <1>3, Sizes
<1>5. Stream!underWay < no_tx_bufs - 1 + cmd_fifo_queue_size
  BY <1>3, <1>4 DEF Stream!underWay, sentLast
<1>6. prepared' = Stream!after(prepared) /\ UNCHANGED sentLast
  BY DEF Release, Stream!after, sentLast, boardVars
<1> QED BY <1>5, <1>6 DEF Stream!Prepare, sentLast

LEMMA DequeueIsSend == SoraInv /\ Dequeue => Stream!Send
<1> SUFFICES ASSUME SoraInv, Dequeue PROVE Stream!Send
  OBVIOUS
<1>1. PICK c \in Nat, F \in Nat, E \in Nat, R \in Nat, L \in Nat, T \in Nat, P \in Nat :
        Tracked(c, F, E, R, L, T, P)
  BY DEF SoraInv
<1>2. (prepared + Chunks - Stream!after(sentLast)) % Chunks = P - R
  BY <1>1, UnderWayIs DEF SoraInv
<1>3. commands # <<>> /\ Len(commands) \in Nat \ {0} /\ Head(commands) = commands[1]
  BY DEF Dequeue, SoraInv, SoraTypeOK
<1>4. R + Len(commands) <= P
  BY <1>1, <1>3 DEF Tracked, Order
<1>5. Stream!underWay > 0
  BY <1>2, <1>3, <1>4 DEF Stream!underWay, sentLast
<1>6. Head(commands) = number(R)
  <2>1. 1 \in 1 .. Len(commands) /\ R + 1 - 1 = R
    BY <1>3
  <2> QED BY <1>1, <1>3, <2>1 DEF Tracked, Queued
<1>7. sentLast' = Head(commands)
  <2>1. air \in Seq(Contents) /\ Len(air) \in Nat /\ Head(commands) \in Contents
    BY <1>3 DEF SoraInv, SoraTypeOK
  <2>2. CASE Len(air) < 2
    <3>1. air' = Append(air, Head(commands))
      BY <2>2 DEF Dequeue
    <3>2. air' # <<>> /\ air'[Len(air')] = Head(commands)
      BY <2>1, <3>1
    <3> QED BY <3>2 DEF sentLast
  <2>3. CASE ~ (Len(air) < 2)
    <3>1. air' = <<air[2], Head(commands)>>
      BY <2>3 DEF Dequeue
    <3>2. air' # <<>> /\ air'[Len(air')] = Head(commands)
      BY <3>1
    <3> QED BY <3>2 DEF sentLast
  <2> QED BY <2>2, <2>3
<1>8. Stream!after(sentLast) = number(R)
  BY <1>1, AfterSent DEF SoraInv, Tracked
<1>9. UNCHANGED prepared
  BY DEF Dequeue, writerVars
<1> QED BY <1>5, <1>6, <1>7, <1>8, <1>9 DEF Stream!Send, sentLast

\* For rings of every size: the samples go on the air complete, once and in
\* order, and no more than the two rings hold are under way.
THEOREM RadioImplementsStream == Spec => ImplementsSampleStream
<1>1. Init => Stream!Init
  <2> SUFFICES ASSUME Init PROVE Stream!Init
    OBVIOUS
  <2>1. (Chunks * 1 + 0) % Chunks = 0
    BY Sizes, RemainderUnique
  <2>2. Chunks - 1 + 1 = Chunks * 1 + 0
    BY Sizes
  <2> QED BY <2>1, <2>2 DEF Init, Stream!Init, Stream!after
<1>2. SoraInv /\ [Next]_vars => [Stream!Prepare \/ Stream!Send]_<<prepared, sentLast>>
  <2> SUFFICES ASSUME SoraInv, [Next]_vars
               PROVE  Stream!Prepare \/ Stream!Send \/ UNCHANGED <<prepared, sentLast>>
    OBVIOUS
  <2>1. CASE Release
    BY <2>1, ReleaseIsPrepare
  <2>2. CASE Dequeue
    BY <2>2, DequeueIsSend
  <2>3. CASE \/ WriteFirst \/ WriteRest \/ Synchronize \/ Transfer \/ TransferFails
             \/ Advance \/ NothingToTransfer \/ ReadPosition \/ Free \/ FreeDone
             \/ UNCHANGED vars
    <3>1. UNCHANGED <<prepared, air>>
      BY <2>3 DEF WriteFirst, WriteRest, Synchronize, Transfer, TransferFails, Advance,
                  NothingToTransfer, ReadPosition, Free, FreeDone, vars, writerVars,
                  boardVars
    <3> QED BY <3>1 DEF sentLast
  <2> QED BY <2>1, <2>2, <2>3 DEF Next, write, work
<1> QED
  BY <1>1, <1>2, SoraInvHolds, PTL
  DEF Spec, ImplementsSampleStream, Stream!Spec, sentLast

=============================================================================
