------------------------------- MODULE MacTx -------------------------------
(***************************************************************************)
(* The downlink scheduler of the eNodeB, MAC/mac_tx.c.                     *)
(*                                                                         *)
(* The PHY generates one subframe after the other.  At the start of each   *)
(* it asks the MAC for packets, and the TX thread runs mac_tx_callback:    *)
(*                                                                         *)
(*    "rrc"   answer the uplink packets in mac_rx_out_queue                *)
(*    "ip"    take packets from the virtual network interface              *)
(*    "emit"  hand over the packets due in this subframe, queueing the     *)
(*            successor of each recurrent one                              *)
(*    "phy"   the PHY builds and sends the subframe                        *)
(*                                                                         *)
(* Every loop iteration is a step of its own, because meanwhile the RX     *)
(* thread adds uplink packets.                                             *)
(*                                                                         *)
(* The out queue is the set of packets it holds.  This file uses the slots *)
(* only to walk over the packets due now, and MacTxOutQueue shows that the *)
(* walk visits each of them once and that the array is such a table.       *)
(***************************************************************************)
EXTENDS DlTime, Sequences, FiniteSets

CONSTANTS
  QueueSize,     (* TX_OUT_QUEUE_SIZE                                        *)
  MaxHARQ,       (* maxHARQBuf                                               *)
  EmptySubF,     (* the ascending list given by --Empty-SubF                 *)
  SIB1SF,        (* --SIB1SF                                                 *)
  SIB2SF,        (* --SIB2SF                                                 *)
  RxQueueSize,   (* capacity of mac_rx_out_queue                             *)
  MaxUplink      (* bound: uplink packets per subframe                       *)

\* SIB2 is due again 8 frames later, which must not be the same frame.
ASSUME MacAssumption ==
  /\ NoFrames > 8
  /\ QueueSize \in Nat /\ QueueSize >= 5
  /\ MaxHARQ \in Nat \ {0}
  /\ EmptySubF \in Seq(0 .. 9)
  /\ \A i, j \in DOMAIN EmptySubF : i < j => EmptySubF[i] < EmptySubF[j]
  /\ SIB1SF \in 0 .. 9 /\ SIB2SF \in 0 .. 9
  /\ RxQueueSize \in Nat /\ MaxUplink \in Nat

RAR_SUBFRAME == 6

Control == {"SIB1", "SIB2", "RAR", "DCI0", "EMPTY"}
Data == {"RRC", "IP"}
Kinds == Control \union Data

\* copy tells two equal packets in the queue apart, see initialPackets.
Packets == [frame : Frames, subframe : Subframes, kind : Kinds,
            harq : 0 .. MaxHARQ - 1, ndi : {0, 1}, copy : {1, 2}]

\* What the RX thread passes on: a packet that end_to_end answers ("request"),
\* or one that needs no answer: a PUCCH report, or other uplink data ("other").
Uplink == {"other", "request"}

VARIABLES
  now,            (* the TX time, set by the PHY before it asks for packets  *)
  pc,             (* where the TX thread is                                  *)
  outQueue,
  lastHARQ, lastNDI, lastRRC, lastIP, nextESF,   (* mac_context              *)
  buf,            (* the packets handed to the PHY for this subframe         *)
  rxQueue,        (* mac_rx_out_queue                                        *)
  uplinks         (* uplink packets received in this subframe                *)

harqVars == <<lastHARQ, lastNDI>>
envVars == <<rxQueue, uplinks>>
vars == <<now, pc, outQueue, harqVars, lastRRC, lastIP, nextESF, buf, envVars>>

due(p) == At(p.frame, p.subframe)

\* add_mac_tx_out_queue: a packet that finds the queue full is dropped.
added(Q, p) == IF Cardinality(Q) < QueueSize THEN Q \union {p} ELSE Q

----------------------------------------------------------------------------
(* The packets, as the fill functions of mac_tx_helper.c make them. *)

fillControl(kind, f, sf, bit, c) ==
  [frame |-> f, subframe |-> sf, kind |-> kind, harq |-> 0, ndi |-> bit, copy |-> c]

fill_SIB1(f) == fillControl("SIB1", f, SIB1SF, 0, 1)
fill_SIB2(f) == fillControl("SIB2", f, SIB2SF, 0, 1)
fill_RAR(f) == fillControl("RAR", f, RAR_SUBFRAME, 0, 1)

\* The NDI bit a DCI0 carries to the phone, in its payload.
dciNDI(f, sf) == ((f * 10 + sf) \div 8) % 2

fill_DCI0(f, sf, c) == fillControl("DCI0", f, sf, dciNDI(f, sf), c)

fill_EMPTY(f, sf) == fillControl("EMPTY", f, sf, 0, 1)

\* schedule_EMPTY: the next empty subframe, in this frame or the next.
schedule_EMPTY(f) ==
  IF nextESF = Len(EmptySubF)
  THEN fill_EMPTY(plusFrames(f, 1), EmptySubF[1])
  ELSE fill_EMPTY(f, EmptySubF[nextESF + 1])

dataPacket(kind, t) ==
  [frame |-> t.frame, subframe |-> t.subframe, kind |-> kind,
   harq |-> lastHARQ, ndi |-> lastNDI, copy |-> 1]

\* A slip in updateHARQ: the last process is one too high.
updateHARQTooHigh ==
  IF lastHARQ = MaxHARQ
  THEN lastHARQ' = 0 /\ lastNDI' = (lastNDI + 1) % 2
  ELSE lastHARQ' = lastHARQ + 1 /\ UNCHANGED lastNDI

\* A slip in updateHARQ: the NDI is toggled with every packet.
updateHARQTogglesAlways ==
  /\ lastHARQ' = (lastHARQ + 1) % MaxHARQ
  /\ lastNDI' = (lastNDI + 1) % 2

updateHARQ ==
  IF lastHARQ = MaxHARQ - 1
  THEN lastHARQ' = 0 /\ lastNDI' = (lastNDI + 1) % 2
  ELSE lastHARQ' = lastHARQ + 1 /\ UNCHANGED lastNDI

----------------------------------------------------------------------------
(***************************************************************************)
(* init_mac_tx.  The fifth add is outside the test of noEmptySubF: without *)
(* empty subframes it adds the DCI0 packet, still in newPkt, once more.    *)
(***************************************************************************)
initialPackets ==
  {fill_SIB2(0), fill_RAR(0), fill_SIB1(0), fill_DCI0(0, 0, 1),
   IF EmptySubF # <<>> THEN fill_EMPTY(0, EmptySubF[1])
   ELSE fill_DCI0(0, 0, 2)}

Init ==
  /\ now = At(0, 0)
  /\ pc = "rrc"
  /\ outQueue = initialPackets
  /\ lastHARQ = 0 /\ lastNDI = 0
  /\ lastRRC = At(0, 0) /\ lastIP = At(0, 0)
  /\ nextESF = IF EmptySubF # <<>> THEN 1 ELSE 0
  /\ buf = {}
  /\ rxQueue = <<>> /\ uplinks = 0

----------------------------------------------------------------------------
(* mac_tx_schedule_RRC *)

\* The loop has ended: the RRC time may not lag behind, then IP.
leaveRRC ==
  /\ lastRRC' = notLagging(now, lastRRC)
  /\ pc' = "ip"

\* One iteration on a packet without an answer.
RrcIgnore ==
  /\ pc = "rrc" /\ rxQueue # <<>> /\ Head(rxQueue) # "request"
  /\ rxQueue' = Tail(rxQueue)
  /\ UNCHANGED <<now, pc, outQueue, harqVars, lastRRC, lastIP, nextESF, buf, uplinks>>

\* One iteration that schedules the answer.
RrcAnswer ==
  /\ pc = "rrc" /\ rxQueue # <<>> /\ Head(rxQueue) = "request"
  /\ checkTimeHorizon(now, lastRRC)
  /\ rxQueue' = Tail(rxQueue)
  /\ lastRRC' = nextRRCSubframe(lastRRC)
  /\ outQueue' = added(outQueue, dataPacket("RRC", nextRRCSubframe(lastRRC)))
  /\ updateHARQ
  /\ UNCHANGED <<now, pc, lastIP, nextESF, buf, uplinks>>

\* The horizon is full: the request is gone, its answer is not scheduled, and
\* the loop is left with the rest of the queue waiting.
RrcFull ==
  /\ pc = "rrc" /\ rxQueue # <<>> /\ Head(rxQueue) = "request"
  /\ ~ checkTimeHorizon(now, lastRRC)
  /\ rxQueue' = Tail(rxQueue)
  /\ leaveRRC
  /\ UNCHANGED <<now, outQueue, harqVars, lastIP, nextESF, buf, uplinks>>

RrcDone ==
  /\ pc = "rrc" /\ rxQueue = <<>>
  /\ leaveRRC
  /\ UNCHANGED <<now, outQueue, harqVars, lastIP, nextESF, buf, envVars>>

----------------------------------------------------------------------------
(* mac_tx_schedule_IP.  The network interface may have a packet at every   *)
(* read, or none.                                                          *)

\* One iteration that schedules an IP packet.
IpSchedule ==
  /\ pc = "ip" /\ checkTimeHorizon(now, lastIP)
  /\ lastIP' = nextIPSubframe(lastIP)
  /\ outQueue' = added(outQueue, dataPacket("IP", nextIPSubframe(lastIP)))
  /\ updateHARQ
  /\ UNCHANGED <<now, pc, lastRRC, nextESF, buf, envVars>>

\* The loop ends: the horizon is full, nothing is waiting, or no transport
\* block is large enough for the packet, which is lost.
IpDone ==
  /\ pc = "ip"
  /\ lastIP' = notLagging(now, lastIP)
  /\ pc' = "emit"
  /\ UNCHANGED <<now, outQueue, harqVars, lastRRC, nextESF, buf, envVars>>

----------------------------------------------------------------------------
(* mac_tx_schedule_next_SF *)

dueNow == {p \in outQueue : due(p) = now}

\* The successor of a recurrent packet; none for data.
followUp(p) ==
  CASE p.kind = "SIB2"  -> {fill_SIB2(plusFrames(p.frame, 8))}
    [] p.kind = "RAR"   -> {fill_RAR(plusFrames(p.frame, 1))}
    [] p.kind = "SIB1"  -> {fill_SIB1(plusFrames(p.frame, 2))}
    [] p.kind = "DCI0"  -> {fill_DCI0(plusFrames(p.frame, 1), 0, p.copy)}
    [] p.kind = "EMPTY" -> {schedule_EMPTY(p.frame)}
    [] p.kind \in Data  -> {}

\* Hand one packet over and queue its successor.  A successor that finds the
\* queue full is lost ("catastrophic").
Emit ==
  \E p \in dueNow \ buf :
    /\ pc = "emit"
    /\ buf' = buf \union {p}
    /\ \/ \E n \in followUp(p) : outQueue' = added(outQueue, n)
       \/ followUp(p) = {} /\ UNCHANGED outQueue
    /\ nextESF' = IF p.kind # "EMPTY" THEN nextESF
                  ELSE IF nextESF = Len(EmptySubF) THEN 1 ELSE nextESF + 1
    /\ UNCHANGED <<now, pc, harqVars, lastRRC, lastIP, envVars>>

\* The iteration is over: remove what was handed over.
EmitDone ==
  /\ pc = "emit" /\ dueNow \subseteq buf
  /\ outQueue' = outQueue \ dueNow
  /\ pc' = "phy"
  /\ UNCHANGED <<now, harqVars, lastRRC, lastIP, nextESF, buf, envVars>>

txStep ==
  \/ RrcIgnore \/ RrcAnswer \/ RrcFull \/ RrcDone
  \/ IpSchedule \/ IpDone
  \/ Emit \/ EmitDone

----------------------------------------------------------------------------
(* The environment of the TX thread. *)

\* dnlinkGenFrame: the subframe goes out; at the next one the PHY sets the TX
\* time, finds its input empty and calls mac_tx_callback.
PhySubframe ==
  /\ pc = "phy"
  /\ now' = nextSubframe(now)
  /\ buf' = {}
  /\ pc' = "rrc"
  /\ uplinks' = 0
  /\ UNCHANGED <<outQueue, harqVars, lastRRC, lastIP, nextESF, rxQueue>>

\* mac_rx_callback: the RX thread passes a packet on unless the queue is full.
UplinkPut ==
  /\ uplinks < MaxUplink
  /\ uplinks' = uplinks + 1
  /\ \E m \in Uplink :
       rxQueue' = IF Len(rxQueue) < RxQueueSize THEN Append(rxQueue, m) ELSE rxQueue
  /\ UNCHANGED <<now, pc, outQueue, harqVars, lastRRC, lastIP, nextESF, buf>>

Next == txStep \/ PhySubframe \/ UplinkPut

\* The TX thread runs on a core of its own at high priority, and the radio
\* keeps asking for samples.
Fairness == WF_vars(txStep) /\ WF_vars(PhySubframe)

Spec == Init /\ [][Next]_vars

FairSpec == Spec /\ Fairness

----------------------------------------------------------------------------
MacTypeOK ==
  /\ now \in Times
  /\ pc \in {"rrc", "ip", "emit", "phy"}
  /\ outQueue \subseteq Packets
  /\ lastHARQ \in 0 .. MaxHARQ - 1
  /\ lastNDI \in {0, 1}
  /\ lastRRC \in Times /\ lastIP \in Times
  /\ nextESF \in 0 .. Len(EmptySubF)
  /\ buf \subseteq Packets
  /\ rxQueue \in Seq(Uplink) /\ Len(rxQueue) <= RxQueueSize
  /\ uplinks \in 0 .. MaxUplink

\* No packet is left behind.  A packet whose time has passed is not due again
\* before the frame counter wraps, and holds its slot until then.  So every
\* packet in the queue is still to come, none due now is left when the PHY
\* builds the subframe, and data is at most one frame beyond the horizon.
QueueNeverStale ==
  \A p \in outQueue :
    /\ within(now, due(p), IF p.kind \in Data THEN MaxTimeHorizon + 1 ELSE 8)
    /\ pc = "phy" => due(p) # now

\* How often each kind of packet is in a subframe.
content(b) == [k \in Kinds |-> Cardinality({p \in b : p.kind = k})]

Schedule == INSTANCE DlSchedule WITH
  EmptySubF <- {EmptySubF[i] : i \in DOMAIN EmptySubF},
  RARSF     <- RAR_SUBFRAME,
  built     <- pc = "phy",
  onAir     <- content(IF pc = "phy" THEN buf ELSE {})

\* What the PHY gets, subframe after subframe and across the wrap of the frame
\* counter, is the schedule: each control packet exactly where it belongs, and
\* at most one packet per data stream, in the stream's own subframes.
ImplementsDlSchedule == Schedule!Spec

\* The schedule is kept if the queue has room, in every subframe, for the five
\* recurrent packets to come, those of them handed over in this subframe (all
\* stay until the last one is), and every subframe of the two data streams up
\* to the horizon and a frame beyond.  The code has 100 slots and a horizon of
\* 20, which is room for three data subframes.
ControlIn(sf) == {k \in Control : Schedule!Belongs(k, At(0, sf))}

DataSlots == (MaxTimeHorizon + 2) * (1 + Cardinality(DataSubF))

EnoughSlots ==
  \A sf \in Subframes : 5 + Cardinality(ControlIn(sf)) + DataSlots <= QueueSize

\* The callback returns: however fast IP packets arrive, the horizon ends the
\* loop that schedules them, and the PHY gets its subframe.
CallbackReturns == pc = "rrc" ~> pc = "phy"
============================================================================
