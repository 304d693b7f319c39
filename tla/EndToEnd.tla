------------------------------ MODULE EndToEnd ------------------------------
(***************************************************************************)
(* The base station as a phone sees it: end_to_end of                      *)
(* MAC/mac_msg_parsing.c, called by mac_tx_schedule_RRC for each uplink    *)
(* block, and mac_tx_schedule_IP, which shares the sequence numbers of     *)
(* channel 3 with it.  Both run on the TX thread, one after the other.     *)
(*                                                                         *)
(* The phone and the air are the environment: blocks are lost, timers of   *)
(* the phone expire while answers are on their way, fragments are sent     *)
(* again.  The phone attaches, exchanges IP packets and detaches.          *)
(***************************************************************************)
EXTENDS MacPdu, Rrc, IpTest, TransportBlock, FiniteSets

CONSTANTS
  RrcBlock,        (* bytes of the transport block of an answer; 153         *)
  Rates,           (* options dnlinkMCS and dnlinkNRB, records [mcs, nrb]    *)
  Lengths,         (* the lengths of the phone's IP packets                  *)
  NetLengths,      (* the lengths of the network's                           *)
  TestPackets,     (* packets for --test-IP besides those of client.py,      *)
                   (* which alone are counted                                *)
  ConnMod,         (* bound: connections that can be told apart              *)
  MaxUp, MaxDown,  (* bounds: blocks on their way up and down                *)
  MaxTrouble       (* bound: blocks lost, answers dropped, early time-outs   *)

ASSUME EndToEndAssumption ==
  /\ RrcBlock \in Nat /\ RrcBlock <= MaxAnswer
  /\ Lengths \subseteq Nat \ {0} /\ NetLengths \subseteq Nat \ {0}
  /\ {ConnMod, MaxUp, MaxDown} \subseteq Nat \ {0} /\ MaxDown > 1
  /\ MaxTrouble \in Nat
  /\ \A p \in TestPackets : ~Counted(p)

Channel == 0 .. 3                  \* MAX_LCID_COUNT

VARIABLES
  (* the base station *)
  test_IP,                (* --test-IP                                       *)
  rate,                   (* one of Rates                                    *)
  rlc_sdu_buffer,         (* per channel; its length is rlc_sdu_buffer_index *)
  rlc_tx_sn,              (* per channel                                     *)
  stats,                  (* old_index and udp_pkt_miss                      *)
  heard,                  (* history: an ideal buffer per channel            *)
  delivered,              (* history: what RLC delivered from the last block *)
  (* the phone *)
  phase,                  (* the message it waits for an answer to, or       *)
                          (* "off", "completing", "attached"                 *)
  conn,                   (* number of its connection                        *)
  vt, vr,                 (* next SN to send and to expect on channel 1      *)
  sending,                (* per channel, the fragments still to be sent     *)
  unacked,                (* the last polled fragment, while not acknowledged*)
  stream,                 (* the test packets sent and lost                  *)
  (* the air *)
  up, down,
  trouble,                (* what went wrong so far *)
  started                 (* history: trouble when the connection was begun  *)

stationVars == <<test_IP, rate, rlc_sdu_buffer, rlc_tx_sn, stats, heard>>
phoneVars == <<phase, conn, vt, vr, sending, unacked, stream, started>>
vars == <<stationVars, delivered, phoneVars, up, down, trouble>>

Hit == trouble < MaxTrouble /\ trouble' = trouble + 1

----------------------------------------------------------------------------
(* The base station. *)

Reset == [c \in Channel |-> 0]
Empty == [c \in Channel |-> <<>>]

\* A slip: a new connection goes on with the old sequence numbers.
reset_stateKeepsSn(s) == [s EXCEPT !.buffer = Empty]

reset_state(s) == [s EXCEPT !.buffer = Empty, !.sn = Reset]

\* PDCP and RLC headers for one answer.
Encode(s, plain) ==
  LET c == plain.lcid
      n == IF c \in Channel THEN s.sn[c] ELSE 0
  IN  [s EXCEPT !.sn = IF c \in Channel THEN [@ EXCEPT ![c] = nextSn(c, n)] ELSE @,
                !.answers = Append(@, [lcid |-> c,
                   bytes |-> rlc_encode(c, n, pdcp_encode(c, plain.bytes))])]

\* All the answers to a message, in their order.
EncodeAll(s, plain) ==
  LET after[k \in 0 .. Len(plain)] ==
        IF k = 0 THEN s ELSE Encode(after[k - 1], plain[k])
  IN  after[Len(plain)]

\* A slip: a status report goes out only if the message is answered.
ReportAfterAnswer(s, c, answered) ==
  IF s.rx.poll /\ answered
  THEN [s EXCEPT !.answers = Append(@, [lcid |-> c, bytes |-> StatusReport(s.rx.sn)])]
  ELSE s

\* The poll flag is that of the last acknowledged-mode fragment of the block:
\* an SDU of another channel behind it is reported too.
Report(s, c, answered) ==
  IF s.rx.poll
  THEN [s EXCEPT !.answers = Append(@, [lcid |-> c, bytes |-> StatusReport(s.rx.sn)])]
  ELSE s

\* What RLC makes of a fragment, next to what it ought to: an ideal buffer
\* without bounds is given the same fragments.
Judge(s, c, bytes, out) ==
  IF c = 0 \/ Head(bytes).dc # "data" THEN s
  ELSE LET h == Head(bytes)
           ideal == (IF h.first THEN <<>> ELSE s.heard[c]) \o Tail(bytes)
       IN  [s EXCEPT
             !.heard[c] = IF h.last THEN <<>> ELSE ideal,
             !.delivered = IF ~h.last THEN @ ELSE @ \union
               {[channel |-> c, size |-> Len(h.whole), data |-> h.whole[1] = PdcpData, heard |-> ideal = h.whole,
                 intact |-> out = h.whole,
                 network |-> toNetwork(c, pdcp_decode(c, out))]}]

\* The answer of --test-IP to a packet, and what it counts.
TestReply(c, msg) ==
  IF test_IP /\ c > 2 /\ msg # <<>> /\ ip(msg[1].packet) > 0
  THEN <<answer(c, "reply", 0)>> ELSE <<>>

TestStats(c, msg, st) ==
  IF test_IP /\ c > 2 /\ msg # <<>> THEN udp(msg[1].packet, st) ELSE st

\* The body of the loop over the SDUs of a block.
Handle(s, sdu) ==
  LET c == sdu.lcid
      r == rlc_decode(c, sdu.bytes, [buf |-> s.buffer[c], sn |-> s.rx.sn, poll |-> s.rx.poll])
      msg == pdcp_decode(c, r.out)
      heardOf == Judge([s EXCEPT !.buffer[c] = r.rx.buf,
                                 !.rx = [sn |-> r.rx.sn, poll |-> r.rx.poll],
                                 !.stats = TestStats(c, msg, @)],
                       c, sdu.bytes, r.out)
      fresh == IF rrcResets(c, msg)
               THEN [reset_state(heardOf) EXCEPT !.heard = Empty] ELSE heardOf
      plain == rrcAnswers(c, msg) \o TestReply(c, msg)
  IN  Report(EncodeAll(fresh, plain), c, plain # <<>>)

\* end_to_end on a block.
Result(pdu) ==
  LET sdus == mac_decode(pdu)
      after[k \in 0 .. Len(sdus)] ==
        IF k = 0
        THEN [buffer |-> rlc_sdu_buffer, sn |-> rlc_tx_sn, stats |-> stats,
              heard |-> heard, delivered |-> {}, answers |-> <<>>,
              rx |-> [sn |-> 0, poll |-> FALSE]]
        ELSE Handle(after[k - 1], sdus[k])
  IN  after[Len(sdus)]

\* A slip: the newest answer goes out first.
QueueFirst(block) == down' = <<block>> \o down

\* Answers go out in the order they were queued.
Queue(block) == down' = Append(down, block)

\* mac_tx_schedule_RRC takes a block; the answer is queued, or dropped when
\* the queue reaches the horizon ("RRC queue full"), after it took its SNs.
Serve ==
  /\ up # <<>> /\ Len(down) < MaxDown
  /\ \E result \in {Result(Head(up).pdu)} :
         /\ rlc_sdu_buffer' = result.buffer
         /\ rlc_tx_sn' = result.sn
         /\ stats' = result.stats
         /\ heard' = result.heard
         /\ delivered' = result.delivered
         /\ IF result.answers = <<>> THEN UNCHANGED <<down, trouble>>
            ELSE \/ Queue(InBlock(result.answers, RrcBlock)) /\ UNCHANGED trouble
                 \/ Hit /\ UNCHANGED down
  /\ up' = Tail(up)
  /\ UNCHANGED <<test_IP, rate, phoneVars>>

\* The packet of n bytes that mac_tx_get_IP_packets takes from the network
\* interface, with its headers.
mac_tx_get_IP_packets(n) ==
  LET bytes == pdcp_encode(3, <<[kind |-> "net", size |-> n]>>)
  IN  <<[lcid |-> 3, bytes |-> rlc_encode(3, rlc_tx_sn[3], bytes)]>>

\* mac_tx_schedule_IP takes a packet.  Without a block that is large enough it
\* drops the packet, after it took its SN.  The last place of down is left to
\* Serve, as MAX_TIME_HORIZON bounds each stream.
mac_tx_schedule_IP ==
  /\ phase = "attached" /\ Len(down) < MaxDown - 1
  /\ \E n \in NetLengths :
       LET sdus == mac_tx_get_IP_packets(n)
           len == Smaller(HeadBytes(sdus) + ByteLength(Bodies(sdus)), MaxAnswer)
           size == blockSize(rate, 8 * len)
       IN  IF size > 0 THEN Queue(InBlock(sdus, Smaller(size \div 8, MaxAnswer)))
           ELSE UNCHANGED down
  /\ rlc_tx_sn' = [rlc_tx_sn EXCEPT ![3] = nextSn(3, @)]
  /\ delivered' = {}
  /\ UNCHANGED <<test_IP, rate, rlc_sdu_buffer, stats, heard, phoneVars, up, trouble>>

\* main() prints the counters every five seconds and sets them to 0, on its own
\* thread; taken as one step.  last and since are histories, see MissCount.
clearStats ==
  /\ test_IP /\ stats.udp_pkt_rcvd # 0
  /\ stats' = [stats EXCEPT !.udp_pkt_rcvd = 0, !.udp_pkt_miss = 0, !.since = stats.last]
  /\ delivered' = {}
  /\ UNCHANGED <<test_IP, rate, rlc_sdu_buffer, rlc_tx_sn, heard, phoneVars,
                 up, down, trouble>>

----------------------------------------------------------------------------
(* The phone. *)

\* A message cut into one or two fragments; the last one is polled.  whole
\* is a history: the message the fragment belongs to.
Fragments(c, msg, cut, sn) ==
  LET part(first, last, n, bytes) ==
        <<[kind |-> "rlc", dc |-> "data", p |-> (c \in AM /\ last), e |-> 0,
           first |-> first, last |-> last, sn |-> n % SnMod, whole |-> msg]>> \o bytes
  IN  IF cut = Len(msg) THEN <<part(TRUE, TRUE, sn, msg)>>
      ELSE <<part(TRUE, FALSE, sn, SubSeq(msg, 1, cut)),
             part(FALSE, TRUE, sn + 1, SubSeq(msg, cut + 1, Len(msg)))>>

Cuts(msg) == {Len(msg), Len(msg) - 1}

Say(type) == pdcp_encode(1, <<[kind |-> "msg", type |-> type, id |-> conn, k |-> 1]>>)

\* What the phone says after each command.
Response ==
  [identityRequest |-> "identityResponse",
   authenticationRequest |-> "authenticationResponse",
   nasSecurityCommand |-> "nasSecurityComplete",
   rrcSecurityCommand |-> "rrcSecurityComplete",
   reconfiguration |-> "completing"]

\* A new connection: what was still to be sent of the old one is dropped.
Request(c) ==
  /\ conn' = c /\ phase' = "request"
  /\ sending' = [Empty EXCEPT ![0] =
       <<<<[kind |-> "msg", type |-> "request", id |-> c, k |-> 1]>>>>]
  /\ vt' = 0 /\ vr' = 0 /\ unacked' = <<>>
  /\ started' = trouble'
  /\ delivered' = {}
  /\ UNCHANGED <<stationVars, stream, up, down>>

Connect == phase = "off" /\ UNCHANGED trouble /\ Request((conn + 1) % ConnMod)

\* Nothing the phone waits for is on its way.
Quiet == up = <<>> /\ down = <<>> /\ sending = Empty

Waiting == phase \notin {"off", "attached"}

\* A timer of the phone expires, at the right moment or too early.
Timeout ==
  /\ Waiting
  /\ IF Quiet THEN UNCHANGED trouble ELSE Hit
  /\ Request((conn + 1) % ConnMod)

\* RLC of the phone sends a fragment again that was not acknowledged.
Retransmit ==
  /\ Waiting /\ Quiet /\ unacked # <<>>
  /\ sending' = [sending EXCEPT ![1] = <<unacked>>]
  /\ delivered' = {}
  /\ UNCHANGED <<stationVars, phase, conn, vt, vr, unacked, stream, up, down, trouble, started>>

\* The phone's block: a control element first, then an RLC status report,
\* then a fragment of each of some channels.
PhonePdu(ce, sdus) ==
  LET n == Len(sdus)
      front == IF ce THEN <<[lcid |-> 29, e |-> 1, length |-> 0]>> ELSE <<>>
  IN  [head |-> front \o
         [k \in 1 .. n |-> [lcid |-> sdus[k].lcid, e |-> IF k = n THEN 0 ELSE 1,
                            length |-> Len(sdus[k].bytes)]],
       body |-> (IF ce THEN <<[kind |-> "bsr"]>> ELSE <<>>) \o Bodies(sdus)]

\* What is left to send after a fragment of each channel of C.
Without(C) == [c \in Channel |-> IF c \in C THEN Tail(sending[c]) ELSE sending[c]]
Busy == {c \in Channel : sending[c] # <<>>}

Send ==
  /\ Len(up) < MaxUp
  /\ \E C \in (SUBSET Busy) \ {{}}, status \in BOOLEAN :
       /\ status => 1 \in C
       /\ LET channels == Selected(<<0, 1, 2, 3>>, {c + 1 : c \in C})
              fragments == [k \in 1 .. Len(channels) |->
                [lcid |-> channels[k], bytes |-> Head(sending[channels[k]])]]
              sdus == (IF status THEN <<[lcid |-> 1, bytes |-> StatusReport(vr)]>>
                       ELSE <<>>) \o fragments
          IN  up' = Append(up, [pdu |-> PhonePdu(status, sdus), sdus |-> sdus])
       /\ sending' = Without(C)
       /\ unacked' = IF 1 \in C /\ Head(Head(sending[1])).p THEN Head(sending[1]) ELSE unacked
  /\ delivered' = {}
  /\ UNCHANGED <<stationVars, phase, conn, vt, vr, stream, down, trouble, started>>

\* A signalling message is queued.
Enqueue(type, next) ==
  \E cut \in Cuts(Say(type)) :
    LET parts == Fragments(1, Say(type), cut, vt)
    IN  /\ sending' = [sending EXCEPT ![1] = parts]
        /\ vt' = (vt + Len(parts)) % SnMod
        /\ phase' = next

\* The last two messages of the attach need no answer.
EnqueueCompletes ==
  \E cut \in Cuts(Say("attachComplete")) :
    LET first == Say("reconfigurationComplete")
        parts == Fragments(1, first, Len(first), vt)
                 \o Fragments(1, Say("attachComplete"), cut, vt + 1)
    IN  /\ sending' = [sending EXCEPT ![1] = parts]
        /\ vt' = (vt + Len(parts)) % SnMod
        /\ phase' = "completing"

\* The SDUs of a downlink block that arrived whole.
PhoneSdus(pdu) ==
  LET start == Starts(pdu.head)
      n == Len(pdu.head) - 1
      end(k) == start[k] + pdu.head[k].length
      sdu(k) == [lcid |-> pdu.head[k].lcid,
                 bytes |-> IF end(k) <= Len(pdu.body)
                           THEN SubSeq(pdu.body, start[k] + 1, end(k)) ELSE <<>>]
  IN  Selected([k \in 1 .. n |-> sdu(k)], {k \in 1 .. n : sdu(k).bytes # <<>>})

\* A command on channel 1 with the SN the phone expects.
Commands(sdus) ==
  Selected(sdus, {k \in 1 .. Len(sdus) :
                    /\ sdus[k].lcid = 1 /\ Head(sdus[k].bytes).kind = "rlc"
                    /\ Head(sdus[k].bytes).dc = "data" /\ Head(sdus[k].bytes).sn = vr})

\* The SDUs with data on channel c, by their position.
DataOn(c, sdus) ==
  {k \in 1 .. Len(sdus) : sdus[k].lcid = c /\ Head(sdus[k].bytes).dc = "data"}

Acknowledges(sdus) ==
  /\ unacked # <<>>
  /\ \E k \in 1 .. Len(sdus) :
       /\ sdus[k].lcid = 1 /\ Head(sdus[k].bytes).dc = "status"
       /\ Head(sdus[k].bytes).sn = (Head(unacked).sn + 1) % SnMod

\* The phone takes a block.  It accepts a set-up that echoes its request, and
\* on an established connection the command with the next SN, in order.
Receive ==
  /\ down # <<>>
  /\ LET sdus == PhoneSdus(Head(down))
         echoed == \E k \in 1 .. Len(sdus) :
                     sdus[k].lcid = 28 /\ Head(sdus[k].bytes).id = conn
         commands == Commands(sdus)
         type == pdcp_decode(1, Tail(commands[1].bytes))[1].type
         established == phase \notin {"off", "request"}
         acked == Acknowledges(sdus)
     IN  CASE phase = "request" /\ echoed ->
                /\ vr' = 0 /\ Enqueue("setupComplete", "setupComplete") /\ unacked' = <<>>
           [] established /\ commands # <<>> ->
                /\ vr' = (vr + Cardinality(DataOn(1, sdus))) % SnMod
                /\ unacked' = IF acked THEN <<>> ELSE unacked
                /\ IF phase \in DOMAIN NextCommand /\ type = NextCommand[phase]
                   THEN IF Response[type] = "completing" THEN EnqueueCompletes
                        ELSE Enqueue(Response[type], Response[type])
                   ELSE /\ phase' = IF phase = "detachRequest" THEN "off" ELSE phase
                        /\ UNCHANGED <<vt, sending>>
           [] established /\ commands = <<>> /\ acked ->
                /\ unacked' = <<>>
                /\ phase' = IF phase = "completing" /\ sending[1] = <<>>
                            THEN "attached" ELSE phase
                /\ UNCHANGED <<vt, vr, sending>>
           [] OTHER -> UNCHANGED <<vt, vr, unacked, phase, sending>>
  /\ down' = Tail(down)
  /\ delivered' = {}
  /\ UNCHANGED <<stationVars, conn, stream, up, trouble, started>>

\* The phone has an IP packet to send, or a PDCP control packet.
SendPacket ==
  /\ phase = "attached" /\ ~test_IP /\ sending[3] = <<>>
  /\ \E n \in Lengths, header \in {PdcpData, PdcpControl} :
       LET msg == <<header>> \o [k \in 1 .. n |-> [kind |-> "ip", k |-> k]]
       IN  /\ header = PdcpControl => n = 1
           /\ \E cut \in Cuts(msg) :
                sending' = [sending EXCEPT ![3] = Fragments(3, msg, cut, 0)]
  /\ delivered' = {}
  /\ UNCHANGED <<stationVars, phase, conn, vt, vr, unacked, stream, up, down, trouble, started>>

\* A test packet; one at a time is enough, they are independent.
SendTest(p) ==
  LET msg == <<PdcpData, [kind |-> "ip", k |-> 1, packet |-> p]>>
  IN  /\ phase = "attached" /\ test_IP /\ sending[3] = <<>> /\ up = <<>>
      /\ sending' = [sending EXCEPT ![3] = Fragments(3, msg, Len(msg), 0)]
      /\ delivered' = {}
      /\ UNCHANGED <<stationVars, phase, conn, vt, vr, unacked, up, down, started>>

\* client.py sends the next packet of its stream; a bad one is a trouble.
SendStream ==
  /\ \E same \in BOOLEAN :
       /\ SendTest([len |-> 29, version |-> 4, hlen |-> 20, total |-> 29,
                    protocol |-> 17, type |-> 0, length |-> 9,
                    index |-> stream % IndexRange, same |-> same, serial |-> stream])
       /\ IF same THEN UNCHANGED trouble ELSE Hit
  /\ stream' = (stream + 1) % WordMod

SendOther ==
  /\ \E p \in TestPackets : SendTest(p)
  /\ UNCHANGED <<stream, trouble>>

\* With --test-IP the phone stays attached.
Detach ==
  /\ phase = "attached" /\ ~test_IP /\ sending = Empty
  /\ Enqueue("detachRequest", "detachRequest")
  /\ delivered' = {}
  /\ UNCHANGED <<stationVars, conn, vr, unacked, stream, up, down, trouble, started>>

----------------------------------------------------------------------------
(* The air. *)

LoseUp ==
  /\ up # <<>> /\ Hit
  /\ up' = Tail(up)
  /\ delivered' = {}
  /\ UNCHANGED <<stationVars, phoneVars, down>>

LoseDown ==
  /\ down # <<>> /\ Hit
  /\ down' = Tail(down)
  /\ delivered' = {}
  /\ UNCHANGED <<stationVars, phoneVars, up>>

----------------------------------------------------------------------------
Init ==
  /\ test_IP \in BOOLEAN /\ rate \in Rates
  /\ rlc_sdu_buffer = Empty /\ rlc_tx_sn = Reset /\ heard = Empty
  /\ stats = [old_index |-> 0, udp_pkt_rcvd |-> 0, udp_pkt_miss |-> 0, last |-> 0,
              since |-> 0]
  /\ delivered = {}
  /\ phase = "off" /\ conn = 0 /\ vt = 0 /\ vr = 0
  /\ sending = Empty /\ unacked = <<>> /\ stream = 0
  /\ up = <<>> /\ down = <<>> /\ trouble = 0 /\ started = 0

Next ==
  \/ Serve \/ mac_tx_schedule_IP \/ clearStats
  \/ Connect \/ Timeout \/ Retransmit \/ Send \/ Receive
  \/ SendPacket \/ SendStream \/ SendOther \/ Detach
  \/ LoseUp \/ LoseDown

Spec == Init /\ [][Next]_vars

\* No block waits for ever: the TX thread serves the uplink queue in every
\* subframe, and the phone takes what arrives.  (A block that is lost is
\* taken too, but the air is in trouble only so often.)  A phone that has a
\* fragment sends it, and its timer expires when nothing comes.
UpTaken == up # <<>> /\ Len(down) < MaxDown /\ up' = Tail(up)
DownTaken == down # <<>> /\ down' = Tail(down)
FragmentSent == Len(up) < MaxUp /\ \E C \in (SUBSET Busy) \ {{}} : sending' = Without(C)
TimerExpires == Waiting /\ Quiet /\ conn' = (conn + 1) % ConnMod

FairSpec ==
  /\ Spec
  /\ WF_up(UpTaken) /\ WF_down(DownTaken)
  /\ WF_sending(FragmentSent) /\ WF_conn(TimerExpires)

----------------------------------------------------------------------------
(* Properties. *)

\* The buffers never hold more than their index can count, and the counters
\* stay in their ranges.
E2ETypeOK ==
  /\ test_IP \in BOOLEAN /\ rate \in Rates
  /\ \A c \in Channel : /\ Len(rlc_sdu_buffer[c]) < IndexMod
                         /\ Len(rlc_sdu_buffer[c]) <= BufSize
                         /\ rlc_tx_sn[c] \in 0 .. SnMod - 1
  /\ stats.old_index \in 0 .. IndexRange - 1
  /\ stats.udp_pkt_miss \in 0 .. WordMod - 1
  /\ phase \in DOMAIN NextCommand \union
       {"off", "request", "completing", "attached", "detachRequest"}
  /\ {vt, vr} \subseteq 0 .. SnMod - 1
  /\ Len(up) <= MaxUp /\ Len(down) <= MaxDown
  /\ trouble \in 0 .. MaxTrouble

\* mac_decode finds in a block exactly the SDUs the phone put there, whatever
\* control elements precede them and although the last one has no length.
DecodeInverts ==
  \A i \in 1 .. Len(up) : mac_decode(up[i].pdu) = up[i].sdus

\* A message whose fragments all arrived, one after the other, is delivered
\* as it was sent, whatever was lost before, whatever other channels carried
\* in between, and whenever a new connection reset the buffers: rlc_decode
\* and reset_state.  It must be short enough for the index of the buffer.
WholeMessageIntact ==
  \A d \in delivered : d.heard /\ d.size < IndexMod => d.intact

\* A packet shorter than MAX_ETH_PAYLOAD_SIZE of which nothing was lost
\* reaches the network.
LongPacketsReachNetwork ==
  \A d \in delivered :
    d.heard /\ d.channel > 2 /\ d.data /\ d.size - 1 < MaxEthPayload => d.network

IsSetup(pdu) == \E k \in 1 .. Len(pdu.head) : pdu.head[k].lcid = 28

\* The messages of a block carry the numbers behind the counter of their
\* channel, one by one and in their order, or those from 0 on when the block
\* brings a set-up, and the counter ends behind the last: echoes, answers and
\* packets of the network take them from the same counters at different
\* places, a request starts these again in the middle of a block, and a
\* status report takes none.  (The last conjunct is about a block that holds
\* all of its SDUs; what is cut off has taken its numbers too.)
SnsInOrder ==
  [][Len(down') > Len(down) =>
       LET block == down'[Len(down')]
           sdus == PhoneSdus(block)
           base(c) == IF IsSetup(block) THEN 0 ELSE rlc_tx_sn[c]
           ahead(c, k) == Cardinality({j \in DataOn(c, sdus) : j < k})
       IN  \A c \in 1 .. 3 :
             /\ \A k \in DataOn(c, sdus) :
                  Head(sdus[k].bytes).sn = (base(c) + ahead(c, k)) % SnMod
             /\ Len(sdus) + 1 = Len(block.head) =>
                  rlc_tx_sn'[c] = (base(c) + ahead(c, Len(block.head))) % SnMod]_vars

\* A packet of the network goes on the air whole or, when no transport block
\* of the chosen rate holds it, not at all: mac_tx_schedule_IP and the searches
\* in the tables.  (At the fixed rate it may be cut; see blockSize.)
NetworkPacketsWhole ==
  rate.mcs >= 0 \/ rate.nrb >= 0 =>
    \A i \in 1 .. Len(down) : \A k \in 1 .. Len(down[i].head) :
      down[i].head[k].lcid = 3 =>
        Len(down[i].body) >= Starts(down[i].head)[k] + down[i].head[k].length

\* Every polled fragment the base station takes is acknowledged in the same
\* answer, with its SN, whether or not rrc() answers the message.
PollIsAcknowledged ==
  [][up # <<>> /\ up' = Tail(up) /\ trouble' = trouble =>
       \A k \in 1 .. Len(Head(up).sdus) :
         LET sdu == Head(up).sdus[k]
             report == [lcid |-> sdu.lcid, bytes |-> StatusReport(Head(sdu.bytes).sn)]
         IN  sdu.lcid \in AM /\ Head(sdu.bytes).p =>
               \E i \in 1 .. Len(down') : \E m \in 1 .. Len(PhoneSdus(down'[i])) :
                 PhoneSdus(down'[i])[m] = report]_vars

\* A command moves the dialogue of a phone on only if it answers a message of
\* the phone's own connection: answers to an earlier one, overtaken by a
\* time-out, are never taken for it.
NoStaleAnswer ==
  [][down # <<>> /\ down' = Tail(down) /\ phase' # phase
     /\ phase' \notin {"attached", "off"} =>
       \E k \in 1 .. Len(PhoneSdus(Head(down))) :
         LET sdu == PhoneSdus(Head(down))[k] IN
         \/ sdu.lcid = 0 /\ Head(sdu.bytes).id = conn
         \/ sdu.lcid = 1 /\ Len(sdu.bytes) = 4 /\ sdu.bytes[3].id = conn]_vars

\* After each packet counted, what udp_pkt_rcvd and udp_pkt_miss add up to is
\* how far the stream of test packets has come since main() cleared them last,
\* wherever packets were lost.  (From the start it is one less: packet 0 is
\* compared with an old_index of 0.)
MissCount ==
  (stats.udp_pkt_miss + stats.udp_pkt_rcvd + stats.since - stats.last) % WordMod = 0

\* A phone never waits in vain in a connection that nothing troubled: when
\* its timer expires with nothing on the way, a block was lost or an answer
\* dropped since it asked for the connection.  The state that an earlier
\* connection left, at either end, does no harm.
UntroubledNeedsNoTimer ==
  [][Waiting /\ Quiet /\ conn' # conn => trouble > started]_vars

\* When the air is no longer troubled, a phone that asks for a connection is
\* attached in the end, if need be after further attempts: the dialogue has
\* no dead end, and its last messages, which rrc() does not answer, are
\* acknowledged.
AttachCompletes == (phase = "request") ~> (phase = "attached")
=============================================================================
