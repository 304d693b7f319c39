------------------------------- MODULE SoraTx -------------------------------
(***************************************************************************)
(* The transmit side of the Sora radio, MAC/sora_radio.c.                  *)
(*                                                                         *)
(* Two threads and the board share two rings.  writeSora, on the TX        *)
(* thread, fills the buffers of TXBuffers; SoraTXWorker copies the full    *)
(* ones to the memory of the board, queues a command for each, and frees   *)
(* their copies after the board has dequeued the commands.  Neither ring   *)
(* has a lock.                                                             *)
(*                                                                         *)
(* A buffer of samples is its number modulo Chunks.                        *)
(***************************************************************************)
EXTENDS Naturals, Sequences

CONSTANTS
  no_tx_bufs,            (* --no-tx-bufs: size of the ring TXBuffers         *)
  cmd_fifo_queue_size,   (* --cmd-fifo-queue-size: size of the ring BufID    *)
  CounterMod,            (* firstTx and lastTx count modulo this; 2^32       *)
  Chunks                 (* bound: numbers that tell buffers apart           *)

\* sora_radio.h: cmd_fifo_queue_size "has to be power of 2!", so that the
\* slot of a command does not jump when the counters wrap.
ASSUME SoraAssumption ==
  /\ no_tx_bufs \in Nat /\ no_tx_bufs >= 2
  /\ cmd_fifo_queue_size \in Nat \ {0}
  /\ CounterMod \in Nat /\ CounterMod % cmd_fifo_queue_size = 0
  /\ CounterMod > cmd_fifo_queue_size
  /\ Chunks \in Nat /\ Chunks > no_tx_bufs + cmd_fifo_queue_size

Counters == 0 .. CounterMod - 1
Partial == Chunks                  \* a buffer that is not complete
Contents == 0 .. Chunks            \* a numbered buffer, or Partial

VARIABLES
  (* writeSora *)
  TXBuffers,     (* the ring: contents by slot                               *)
  prepareBuf,    (* the slot being filled                                    *)
  writer,        (* "fill", "rest" or "full": how far that slot is filled    *)
  prepared,      (* history: number of the buffer in that slot               *)
  (* SoraTXWorker *)
  worker,        (* "init", "check", "advance", "read", "free" or "returned" *)
  transferBuf,   (* the slot to transfer next                                *)
  BufID,         (* the board's copies, by slot of the command ring          *)
  firstTx, lastTx,
  firstTx32,     (* what was read from register 0x0554                       *)
  (* the board *)
  register,      (* commands dequeued so far: register 0x0554                *)
  commands,      (* commands queued and not dequeued                         *)
  memory,        (* copies that are allocated                                *)
  air            (* the copies dequeued last                                 *)

writerVars == <<TXBuffers, prepareBuf, writer, prepared>>
workerVars == <<worker, transferBuf, BufID, firstTx, lastTx, firstTx32>>
boardVars == <<register, commands, memory, air>>
vars == <<writerVars, workerVars, boardVars>>

----------------------------------------------------------------------------
\* Returns a - b, assuming that a > b and ignoring wrapping.
diff_wrap(a, b) == IF b > a THEN (CounterMod - 1 - b) + a + 1 ELSE a - b

increment(counter) == (counter + 1) % CounterMod

\* A slip in the step to the next slot: one slot too many.
nextSlotTooHigh(i) == (i + 1) % (no_tx_bufs + 1)

nextSlot(i) == (i + 1) % no_tx_bufs

queuePos(counter) == counter % cmd_fifo_queue_size

\* A slip: the writer does not wait for a free slot.
slotFreeAlways == TRUE

\* A slip: the writer keeps one more slot free.
slotFreeTwoAhead == nextSlot(nextSlot(prepareBuf)) # transferBuf

\* The writer may move on to the next slot.
slotFree == nextSlot(prepareBuf) # transferBuf

\* bPC: a full buffer is waiting.
bufferReady == transferBuf # prepareBuf

\* A slip in bFPGA: one command too many.
commandFreeTooMany == diff_wrap(lastTx, firstTx) <= cmd_fifo_queue_size

\* bFPGA: a slot of the command ring is free.
commandFree == diff_wrap(lastTx, firstTx) < cmd_fifo_queue_size

\* A slip in the test for freeing: it frees what was just dequeued.
mayFreeAtOnce == diff_wrap(firstTx32, firstTx) > 0

\* "Although 1 here makes sense, empirically seems that 2 is the minimum."
mayFree == diff_wrap(firstTx32, firstTx) > 2

Init ==
  /\ TXBuffers = [i \in 0 .. no_tx_bufs - 1 |-> Partial]
  /\ prepareBuf = 0 /\ writer = "fill" /\ prepared = 0
  /\ worker = "init" /\ transferBuf = 0
  /\ BufID = [i \in 0 .. cmd_fifo_queue_size - 1 |-> Partial]
  /\ firstTx = 0 /\ lastTx = 0 /\ firstTx32 = 0
  /\ register \in Counters       \* the board goes on counting between runs
  /\ commands = <<>> /\ memory = {} /\ air = <<>>

----------------------------------------------------------------------------
(* writeSora.  A subframe is shorter than a buffer, so several calls fill  *)
(* one; the preamble is written in the same way.                           *)

WriteFirst ==
  /\ writer = "fill"
  /\ TXBuffers' = [TXBuffers EXCEPT ![prepareBuf] = Partial]
  /\ writer' = "rest"
  /\ UNCHANGED <<prepareBuf, prepared, workerVars, boardVars>>

WriteRest ==
  /\ writer = "rest"
  /\ TXBuffers' = [TXBuffers EXCEPT ![prepareBuf] = prepared]
  /\ writer' = "full"
  /\ UNCHANGED <<prepareBuf, prepared, workerVars, boardVars>>

\* The spin wait ends; the buffer is released to the worker.
Release ==
  /\ writer = "full" /\ slotFree
  /\ prepareBuf' = nextSlot(prepareBuf)
  /\ prepared' = (prepared + 1) % Chunks
  /\ writer' = "fill"
  /\ UNCHANGED <<TXBuffers, workerVars, boardVars>>

----------------------------------------------------------------------------
(* SoraTXWorker *)

\* Both sides have started: take the positions from the registers.  All
\* commands of an earlier run have been dequeued.
Synchronize ==
  /\ worker = "init"
  /\ lastTx' = register /\ firstTx' = register /\ firstTx32' = register
  /\ worker' = "check"
  /\ UNCHANGED <<transferBuf, BufID, writerVars, boardVars>>

\* SoraURadioTransferEx and SoraURadioTx.
Transfer ==
  /\ worker = "check" /\ bufferReady /\ commandFree
  /\ BufID' = [BufID EXCEPT ![queuePos(lastTx)] = TXBuffers[transferBuf]]
  /\ memory' = memory \union {TXBuffers[transferBuf]}
  /\ commands' = Append(commands, TXBuffers[transferBuf])
  /\ lastTx' = increment(lastTx)
  /\ worker' = "advance"
  /\ UNCHANGED <<transferBuf, firstTx, firstTx32, writerVars, register, air>>

\* SoraURadioTx fails: the thread returns.
TransferFails ==
  /\ worker = "check" /\ bufferReady /\ commandFree
  /\ BufID' = [BufID EXCEPT ![queuePos(lastTx)] = TXBuffers[transferBuf]]
  /\ memory' = memory \union {TXBuffers[transferBuf]}
  /\ lastTx' = increment(lastTx)
  /\ worker' = "returned"
  /\ UNCHANGED <<transferBuf, firstTx, firstTx32, writerVars, register, commands, air>>

Advance ==
  /\ worker = "advance"
  /\ transferBuf' = nextSlot(transferBuf)
  /\ worker' = "read"
  /\ UNCHANGED <<BufID, firstTx, lastTx, firstTx32, writerVars, boardVars>>

NothingToTransfer ==
  /\ worker = "check" /\ ~ (bufferReady /\ commandFree)
  /\ worker' = "read"
  /\ UNCHANGED <<transferBuf, BufID, firstTx, lastTx, firstTx32, writerVars, boardVars>>

\* ReadRegister(0x0554, &firstTx32)
ReadPosition ==
  /\ worker = "read"
  /\ firstTx32' = register
  /\ worker' = "free"
  /\ UNCHANGED <<transferBuf, BufID, firstTx, lastTx, writerVars, boardVars>>

\* One iteration of the loop that frees copies.
Free ==
  /\ worker = "free" /\ mayFree
  /\ memory' = memory \ {BufID[queuePos(firstTx)]}
  /\ firstTx' = increment(firstTx)
  /\ UNCHANGED <<worker, transferBuf, BufID, lastTx, firstTx32, writerVars,
                 register, commands, air>>

FreeDone ==
  /\ worker = "free" /\ ~ mayFree
  /\ worker' = "check"
  /\ UNCHANGED <<transferBuf, BufID, firstTx, lastTx, firstTx32, writerVars, boardVars>>

----------------------------------------------------------------------------
(***************************************************************************)
(* The board, as sora_radio.c uses it.  It dequeues the commands in order  *)
(* and counts them in the register.  A copy may still be on its way to the *)
(* antenna until two more commands have been dequeued.                     *)
(***************************************************************************)
Dequeue ==
  /\ commands # <<>>
  /\ commands' = Tail(commands)
  /\ register' = increment(register)
  /\ air' = IF Len(air) < 2 THEN Append(air, Head(commands))
            ELSE <<air[2], Head(commands)>>
  /\ UNCHANGED <<memory, writerVars, workerVars>>

write == WriteFirst \/ WriteRest \/ Release

work ==
  \/ Synchronize
  \/ Transfer \/ TransferFails \/ Advance \/ NothingToTransfer
  \/ ReadPosition \/ Free \/ FreeDone

Next == write \/ work \/ Dequeue

Spec == Init /\ [][Next]_vars

\* Each thread spins on a core of its own, and the board sends samples at a
\* fixed rate.
Fairness == WF_vars(write) /\ WF_vars(work) /\ WF_vars(Dequeue)

FairSpec == Spec /\ Fairness

----------------------------------------------------------------------------
SoraTypeOK ==
  /\ TXBuffers \in [0 .. no_tx_bufs - 1 -> Contents]
  /\ prepareBuf \in 0 .. no_tx_bufs - 1 /\ transferBuf \in 0 .. no_tx_bufs - 1
  /\ writer \in {"fill", "rest", "full"}
  /\ prepared \in 0 .. Chunks - 1
  /\ worker \in {"init", "check", "advance", "read", "free", "returned"}
  /\ BufID \in [0 .. cmd_fifo_queue_size - 1 -> Contents]
  /\ firstTx \in Counters /\ lastTx \in Counters
  /\ firstTx32 \in Counters /\ register \in Counters
  /\ commands \in Seq(Contents)
  /\ memory \subseteq Contents
  /\ air \in Seq(Contents) /\ Len(air) <= 2

\* The board's memory and the ring BufID agree, also when the counters wrap:
\* the copies that are allocated are those in the slots from firstTx to
\* lastTx, one in each.  So no copy leaks, no slot is overwritten before its
\* copy is freed, and none is freed twice.
MemoryIsTracked ==
  LET held == diff_wrap(lastTx, firstTx)
      slot(k) == BufID[queuePos(firstTx + k)]
  IN worker # "init" =>
       /\ held <= cmd_fifo_queue_size
       /\ memory = {slot(k) : k \in 0 .. held - 1}
       /\ \A j, k \in 0 .. held - 1 : slot(j) = slot(k) => j = k

\* "Don't free the one just dequeued as the transmission could still be
\* ongoing": what waits for the antenna or is on its way to it is allocated.
OnAirIsAllocated ==
  \A copies \in {commands, air} : \A i \in DOMAIN copies : copies[i] \in memory

Stream == INSTANCE SampleStream WITH
  Depth <- no_tx_bufs - 1 + cmd_fifo_queue_size,
  sent  <- IF air = <<>> THEN Chunks - 1 ELSE air[Len(air)]

\* The samples go on the air complete, once and in order, and no more than
\* the two rings hold are under way.
ImplementsSampleStream == Stream!Spec

\* writeSora returns: it spins only until the board has made room, unless the
\* worker has returned.
WriterReturns == writer = "full" ~> (writer = "fill" \/ worker = "returned")
=============================================================================
