----------------------------- MODULE RadioSync -----------------------------
(***************************************************************************)
(* How the receiver of the base station finds the frames of its own        *)
(* transmitter: readSora and the head of writeSora in MAC/sora_radio.c,    *)
(* and the threads of MAC/driver.c that run them.                          *)
(*                                                                         *)
(* The board copies what is transmitted into the received samples: whole   *)
(* samples until the receiver is synchronised, their least significant     *)
(* bits afterwards.  writeSora first sends zeros and a ramp, then frames;  *)
(* readSora waits for the ramp and takes what follows it for the start of  *)
(* a frame.  After that it counts samples, and checks once per frame that  *)
(* the sample at the start of a frame carries the mark of the transmitter. *)
(*                                                                         *)
(* pipe stands for all that is between the two: the transmit buffers, the  *)
(* worker and the board (see SoraTx, which shows that they keep the        *)
(* samples in order), and the receive buffer of the driver.  A sample is   *)
(*   [im, d, mark]   the value in the ramp, or 0; the number of a data     *)
(*                   sample, or -1 (a history); whether its LSB is set.    *)
(***************************************************************************)
EXTENDS Integers, Sequences

CONSTANTS
  Block,           (* samples in a signal block; 28                          *)
  TXBufferSize,    (* samples in a transmit buffer, and in the ramp          *)
  syncPreambLen,   (* buffers of zeros before the ramp; 2 s                  *)
  Period,          (* RXTX_SYNC_PERIOD, samples in a frame; 307200           *)
  FrameCount,      (* frame numbers; 1024                                    *)
  LteU,            (* built with LTE_U                                       *)
  WriteSizes, ReadSizes,   (* environment: the sizes the PHY asks for        *)
  PipeCap,         (* bound: samples under way                               *)
  MaxLost          (* bound: blocks lost                                     *)

ASSUME RadioSyncAssumption ==
  /\ {Block, Period, FrameCount, PipeCap} \subseteq Nat \ {0}
  /\ {syncPreambLen, MaxLost} \subseteq Nat
  /\ TXBufferSize \in Nat /\ TXBufferSize > Block /\ Period > Block
  /\ PipeCap >= Block /\ LteU \in BOOLEAN
  /\ WriteSizes \subseteq Nat \ {0} /\ ReadSizes \subseteq Nat \ {0}

VARIABLES
  main,            (* where main() is                                        *)
  threads,         (* the threads it has started                             *)
  stop_program,
  tx_init_done, rx_init_done,
  sentBufs,        (* buffers of the preamble sent                           *)
  TXCnt,           (* samples of the frame sent                              *)
  txd,             (* history: the number of the next data sample            *)
  pipe,
  syncStateCnt, RXSynced, RXSymbol, RXFrame,
  block, indexSrc, (* readSora's current block, and how much of it is used   *)
  remaining,       (* samples its caller still waits for                     *)
  outOfSyncs,      (* whether it is above 0                                  *)
  out, due,        (* history: samples handed over, number of the next one   *)
  lost             (* blocks lost                                            *)

processVars == <<main, threads, stop_program>>
txVars == <<tx_init_done, sentBufs, TXCnt, txd>>
countVars == <<RXSymbol, RXFrame, outOfSyncs>>
rxVars == <<rx_init_done, syncStateCnt, RXSynced, countVars, block, indexSrc,
            remaining, out, due>>
vars == <<processVars, txVars, pipe, rxVars, lost>>

Running(t) == t \in threads /\ main # "stopped"
Lesser(a, b) == IF a < b THEN a ELSE b
DataMod == Period * FrameCount

----------------------------------------------------------------------------
(* main() of driver.c, with init_mac and stop_mac. *)

\* The steps of init_sora_hw, the transmitter before the receiver ("otherwise
\* ... BSOD"), and then the threads, each with what comes next.
After(step) ==
  CASE step = "extension" -> "radioTX"
    [] step = "radioTX"   -> "buffersTX"
    [] step = "buffersTX" -> "radioRX"
    [] step = "radioRX"   -> "buffersRX"
    [] step = "buffersRX" -> "firmware"
    [] step = "firmware"  -> "TXW"
    [] step = "TXW"       -> "TX"
    [] step = "TX"        -> "RX"
    [] step = "RX"        -> IF LteU THEN "UDP" ELSE "monitoring"
    [] step = "UDP"       -> "monitoring"

SetUpThen(step) ==
  /\ main = step /\ main' = After(step)
  /\ UNCHANGED <<threads, stop_program, txVars, pipe, rxVars, lost>>

SoraUInitUserExtension == SetUpThen("extension")
RadioStart == SetUpThen("radioTX") \/ SetUpThen("radioRX")
InitSoraTx == SetUpThen("buffersTX")
InitSoraRx == SetUpThen("buffersRX")

\* The context of the receiver, malloc'ed until now.  The search begins with
\* the value that a ramp cut by a block may miss.
initRXCtx ==
  /\ main = "firmware" /\ main' = After(main)
  /\ syncStateCnt' = TXBufferSize - Block - 1
  /\ RXSynced' = FALSE /\ RXSymbol' = 0 /\ RXFrame' = 0
  /\ UNCHANGED <<threads, stop_program, txVars, pipe, rx_init_done, outOfSyncs,
                 block, indexSrc, remaining, out, due, lost>>

StartWinUThread ==
  /\ main \in {"TXW", "TX", "RX", "UDP"}
  /\ threads' = threads \union {main} /\ main' = After(main)
  /\ UNCHANGED <<stop_program, txVars, pipe, rxVars, lost>>

\* No device, no memory for the buffers, or a thread that is created without
\* its core or its priority: main() exits.
StartFails ==
  /\ main \in {"extension", "radioTX", "buffersTX", "radioRX", "buffersRX",
               "TXW", "TX", "RX", "UDP"}
  /\ main' = "stopped"
  /\ UNCHANGED <<threads, stop_program, txVars, pipe, rxVars, lost>>

\* Every five seconds; the count of lost synchronisations begins again.
printRadioStats ==
  /\ main = "monitoring" /\ (RXSynced \/ LteU)
  /\ outOfSyncs' = FALSE
  /\ UNCHANGED <<processVars, txVars, pipe, rx_init_done, syncStateCnt, RXSynced,
                 RXSymbol, RXFrame, block, indexSrc, remaining, out, due, lost>>

\* Without synchronisation after five seconds the loop is left.
GiveUp ==
  /\ main = "monitoring" /\ ~RXSynced /\ ~LteU
  /\ main' = "stopping" /\ stop_program' = TRUE
  /\ UNCHANGED <<threads, txVars, pipe, rxVars, lost>>

\* The threads run on while main() stops the radio under them: none of them
\* reads stop_program.
stop_mac ==
  /\ main = "stopping" /\ main' = "releasing"
  /\ UNCHANGED <<threads, stop_program, txVars, pipe, rxVars, lost>>

\* What the threads do with the memory that is freed here is undefined; the
\* end of the process follows at once.
stop_sora_hw ==
  /\ main = "releasing" /\ main' = "stopped"
  /\ UNCHANGED <<threads, stop_program, txVars, pipe, rxVars, lost>>

----------------------------------------------------------------------------
(* The samples. *)

Zero == [im |-> 0, d |-> -1, mark |-> FALSE]
Ramp(k) == [im |-> k, d |-> -1, mark |-> FALSE]

Reading == rx_init_done /\ tx_init_done

\* A receiver that does not read yet loses the oldest samples; one that reads
\* is fast enough.
Carry(samples) ==
  LET all == pipe \o samples
      n == Len(all)
  IN  /\ Reading => n <= PipeCap
      /\ pipe' = IF n <= PipeCap THEN all ELSE SubSeq(all, n - PipeCap + 1, n)

\* A slip: only a write that ends a frame is marked.
MarkedAtEnd(size) == IF TXCnt + size >= Period THEN Period - TXCnt ELSE 0

\* Which sample of a write is marked, 0 for none.  A write that crosses the
\* start of a frame marks the sample before it.
Marked(size) ==
  IF TXCnt = 0 THEN 1
  ELSE IF TXCnt + size > Period THEN Period - TXCnt ELSE 0

----------------------------------------------------------------------------
(* writeSora. *)

TXInit ==
  /\ Running("TX") /\ ~tx_init_done
  /\ tx_init_done' = TRUE
  /\ UNCHANGED <<processVars, sentBufs, TXCnt, txd, pipe, rxVars, lost>>

\* A slip: the transmitter does not wait for the receiver.
MaySendAlone == tx_init_done

\* Both threads wait for the other.
MaySend == tx_init_done /\ rx_init_done

SendPreamble ==
  /\ Running("TX") /\ MaySend /\ sentBufs <= syncPreambLen
  /\ Carry([k \in 1 .. TXBufferSize |->
              IF sentBufs = syncPreambLen THEN Ramp(k - 1) ELSE Zero])
  /\ sentBufs' = sentBufs + 1
  /\ UNCHANGED <<processVars, tx_init_done, TXCnt, txd, rxVars, lost>>

\* The PHY writes symbols, and the symbols of a frame make up Period samples.
writeSora ==
  /\ Running("TX") /\ MaySend /\ sentBufs > syncPreambLen
  /\ \E size \in WriteSizes :
       /\ TXCnt + size <= Period
       /\ Carry([k \in 1 .. size |->
                   [im |-> 0, d |-> (txd + k - 1) % DataMod, mark |-> k = Marked(size)]])
       /\ TXCnt' = (TXCnt + size) % Period
       /\ txd' = (txd + size) % DataMod
  /\ UNCHANGED <<processVars, tx_init_done, sentBufs, rxVars, lost>>

----------------------------------------------------------------------------
(* readSora. *)

Numbers(samples) == [k \in 1 .. Len(samples) |-> samples[k].d]

\* n samples of block b go to the caller, from the first not used yet.
HandOver(b, from, n) ==
  /\ out' = Numbers(SubSeq(b, from + 1, from + n))
  /\ due' = (due + n) % DataMod
  /\ indexSrc' = from + n
  /\ remaining' = remaining - n

RXInit ==
  /\ Running("RX") /\ ~rx_init_done
  /\ rx_init_done' = TRUE
  /\ UNCHANGED <<processVars, txVars, pipe, syncStateCnt, RXSynced, countVars,
                 block, indexSrc, remaining, out, due, lost>>

\* The index of the last sample of b that the search looks at, and the state
\* it has then.  It goes on from one value of the ramp to the next.
Search(b) ==
  LET state[k \in 0 .. Block] ==
        IF k = 0 THEN syncStateCnt
        ELSE IF state[k - 1] + 1 = b[k].im THEN b[k].im ELSE state[k - 1]
      found == {k \in 1 .. Block : state[k] >= TXBufferSize - 1}
      used == IF found = {} THEN Block
              ELSE CHOOSE k \in found : \A j \in found : k <= j
  IN  [used |-> used, state |-> state[used]]

\* The samples behind the ramp are the first of a frame.  (The code could
\* find the ramp in a block it has finished with; it stops looking then.)
Synchronise ==
  /\ Running("RX") /\ Reading /\ ~RXSynced /\ Len(pipe) >= Block
  /\ LET b == SubSeq(pipe, 1, Block)
         search == Search(b)
         synced == search.state >= TXBufferSize - 1
     IN  /\ syncStateCnt' = search.state
         /\ RXSynced' = synced
         /\ block' = b
         /\ indexSrc' = IF synced THEN search.used ELSE indexSrc
         /\ RXSymbol' = IF synced THEN Block - search.used ELSE RXSymbol
  /\ pipe' = SubSeq(pipe, Block + 1, Len(pipe))
  /\ UNCHANGED <<processVars, txVars, rx_init_done, RXFrame, outOfSyncs,
                 remaining, out, due, lost>>

\* A slip: what is left of the last block is forgotten.
readSoraForgets ==
  /\ Running("RX") /\ RXSynced /\ remaining = 0
  /\ remaining' \in ReadSizes
  /\ indexSrc' = Block /\ out' = <<>>
  /\ UNCHANGED <<processVars, txVars, pipe, rx_init_done, syncStateCnt, RXSynced,
                 countVars, block, due, lost>>

\* A call: what is left of the last block goes out first.
readSora ==
  /\ Running("RX") /\ RXSynced /\ remaining = 0
  /\ \E size \in ReadSizes :
       LET n == Lesser(size, Block - indexSrc) IN
       /\ out' = Numbers(SubSeq(block, indexSrc + 1, indexSrc + n))
       /\ due' = (due + n) % DataMod
       /\ indexSrc' = indexSrc + n
       /\ remaining' = size - n
  /\ UNCHANGED <<processVars, txVars, pipe, rx_init_done, syncStateCnt, RXSynced,
                 countVars, block, lost>>

\* A slip: the frame is a sample too long.
NewFrameLate == RXSymbol + Block > Period + 1

NewFrame == RXSymbol + Block > Period

\* A block of the call.  The one that holds the start of a frame is checked;
\* without the mark the bit is the PHY's, and set by chance.
ReadBlock ==
  /\ Running("RX") /\ RXSynced /\ remaining > 0 /\ Len(pipe) >= Block
  /\ LET b == SubSeq(pipe, 1, Block)
         n == Lesser(remaining, Block)
     IN  /\ block' = b
         /\ HandOver(b, 0, n)
         /\ IF NewFrame
            THEN /\ RXSymbol' = RXSymbol + Block - Period
                 /\ RXFrame' = (RXFrame + 1) % FrameCount
                 /\ \/ UNCHANGED outOfSyncs
                    \/ ~b[Period - RXSymbol + 1].mark /\ outOfSyncs' = TRUE
            ELSE RXSymbol' = RXSymbol + Block /\ UNCHANGED <<RXFrame, outOfSyncs>>
  /\ pipe' = SubSeq(pipe, Block + 1, Len(pipe))
  /\ UNCHANGED <<processVars, txVars, rx_init_done, syncStateCnt, RXSynced, lost>>

\* The board or the driver loses a block.
Lose ==
  /\ main # "stopped" /\ Reading /\ lost < MaxLost /\ Len(pipe) >= Block
  /\ lost' = lost + 1
  /\ pipe' = SubSeq(pipe, Block + 1, Len(pipe))
  /\ UNCHANGED <<processVars, txVars, rxVars>>

Stopped == main = "stopped" /\ UNCHANGED vars

----------------------------------------------------------------------------
\* The board has received some zeros when the receiver begins.
Init ==
  /\ main = "extension" /\ threads = {} /\ stop_program = FALSE
  /\ tx_init_done = FALSE /\ rx_init_done = FALSE
  /\ sentBufs = 0 /\ TXCnt = 0 /\ txd = 0
  /\ \E n \in 0 .. Block - 1 : pipe = [k \in 1 .. n |-> Zero]
  /\ syncStateCnt = 0 /\ RXSynced \in BOOLEAN /\ RXSymbol = 0 /\ RXFrame = 0
  /\ outOfSyncs = FALSE
  /\ block = [k \in 1 .. Block |-> Zero] /\ indexSrc = Block
  /\ remaining = 0 /\ out = <<>> /\ due = 0 /\ lost = 0

SetUp ==
  SoraUInitUserExtension \/ RadioStart \/ InitSoraTx \/ InitSoraRx \/ initRXCtx

Main ==
  SetUp \/ StartWinUThread \/ StartFails \/ printRadioStats \/ GiveUp
  \/ stop_mac \/ stop_sora_hw
TX == TXInit \/ SendPreamble \/ writeSora
RX == RXInit \/ Synchronise \/ readSora \/ ReadBlock

Next == Main \/ TX \/ RX \/ Lose \/ Stopped

Spec == Init /\ [][Next]_vars

\* The threads run, each on a core of its own; main() starts the next one.
FairSpec ==
  Spec /\ WF_vars(SetUp \/ StartWinUThread) /\ WF_vars(TX) /\ WF_vars(RX)

----------------------------------------------------------------------------
(* Properties. *)

\* The counters stay in their ranges; a whole frame is counted as its last
\* position, so that the mark is looked for in the block that holds it.
RadioTypeOK ==
  /\ sentBufs \in 0 .. syncPreambLen + 1
  /\ TXCnt \in 0 .. Period - 1 /\ txd \in 0 .. DataMod - 1
  /\ Len(pipe) <= PipeCap
  /\ syncStateCnt \in 0 .. TXBufferSize - 1
  /\ threads # {} => RXSynced = (syncStateCnt = TXBufferSize - 1)
  /\ RXSymbol \in 0 .. Period /\ RXFrame \in 0 .. FrameCount - 1
  /\ Len(block) = Block /\ indexSrc \in 0 .. Block
  /\ remaining \in Nat /\ Len(out) <= Block

\* Whatever the phase of the blocks, a synchronised receiver knows the frame
\* and the position in it of the sample it reads next, for ever, and counts
\* no loss of synchronisation, unless a block was lost: readSora's search,
\* its counting across frames, and the mark of writeSora.
PositionsAgree ==
  RXSynced /\ rx_init_done /\ lost = 0 =>
    /\ pipe # <<>> => pipe[1].d = (RXFrame * Period + RXSymbol) % DataMod
    /\ ~outOfSyncs

\* The PHY gets the samples of the frames from the first on, each once and in
\* order, across calls, blocks and the block in which the ramp ended.
HandedOverInOrder ==
  lost = 0 =>
    \A k \in 1 .. Len(out) : out[k] = (due - Len(out) + k - 1) % DataMod

\* The receiver finds the ramp, whichever thread gets going first, unless the
\* start fails, a block is lost or main() does not wait: the two threads wait
\* for each other, and nothing of the ramp is sent before the receiver reads.
SyncCompletes ==
  <>((RXSynced /\ rx_init_done) \/ lost > 0 \/ main \in {"stopping", "stopped"})
=============================================================================
