------------------------------ MODULE MediumUse ------------------------------
(***************************************************************************)
(* How the LTE-U controller measures what Wi-Fi uses of the medium:        *)
(* parsePacket of LTE-U/controller/wifi_packet.cc, and calculateCSATMU and *)
(* groundtruthMU of csat.cc.                                               *)
(*                                                                         *)
(* A captured frame has the length hlen of its radiotap header, the fields *)
(* of the header that are read, and the MAC fields type, from, to and      *)
(* duration.  A packet is what parsePacket makes of it.  A window is the   *)
(* sequence of the packets captured since the last measurement.  Times are *)
(* integers; a rate divides the bits of the frames used with it.           *)
(***************************************************************************)
EXTENDS Integers, Sequences

CONSTANTS
  DataWindow,      (* duration: data belongs to a CTS or an ACK; 5000 us     *)
  DupWindow,       (* duration in groundtruthMU; 1000 us                     *)
  MaxHidden,       (* the longest hidden frame assumed for an ACK; 4000 us   *)
  Scale,           (* bound: the steps in which a medium use is counted      *)
  kPreamble,       (* kPreambleDuration, doubled for a long preamble; 20 us  *)
  Inf              (* a medium use that is not finite; above all others      *)

ASSUME MediumUseAssumption ==
  /\ {DataWindow, DupWindow, MaxHidden, Scale, kPreamble, Inf} \subseteq Nat

Lesser(a, b) == IF a < b THEN a ELSE b

----------------------------------------------------------------------------
(* parsePacket. *)

\* The packet before anything is parsed.  long is not initialised there: the
\* frame says what is found.
Blank(f) ==
  [type |-> "none", tmac |-> "", rmac |-> "", rssi |-> 0, rate |-> 0, time |-> 0,
   preamble |-> IF f.long THEN 2 * kPreamble ELSE kPreamble,
   duration |-> 0, len |-> f.len]

\* The rate of a header of 13 bytes is read and then overwritten, because
\* that case of the switch has no break: with the byte behind it.
RateOf(f) ==
  CASE f.hlen = 13 -> f.behind
    [] f.hlen \in {14, 18, 21, 32} -> f.rate
    [] OTHER -> 0

\* Only the longer headers tell the signal strength.
RssiOf(f) == IF f.hlen \in {13, 18, 21, 32} THEN f.rssi ELSE 0

\* A frame that is too short for its header is left blank, with rate 0.
parsePacket(f) ==
  IF f.len <= f.hlen + 4 THEN Blank(f)
  ELSE [Blank(f) EXCEPT
          !.type = f.type, !.rate = RateOf(f), !.rssi = RssiOf(f),
          !.tmac = IF f.type \in {"ACK", "CTS"} THEN "" ELSE f.from,
          !.rmac = f.to, !.duration = f.duration]

----------------------------------------------------------------------------
(* The medium use of a window.  Packets have a time now, and times grow.   *)

Airtime(p) == (8 * p.len) \div p.rate + p.preamble

\* Division by the rate 0 is infinite, or not a number for a length of 0;
\* both spoil the sum.
Spoilt(window) == \E i \in 1 .. Len(window) : window[i].rate = 0

Apart(window, i, j) ==
  IF i < j THEN window[j].time - window[i].time ELSE window[i].time - window[j].time

\* An earlier part of the same burst came within span: its preamble counts
\* for this part too.
Duplicate(window, i, span) ==
  /\ window[i].type = "QOSDATA"
  /\ \E j \in 1 .. i - 1 :
       /\ Apart(window, i, j) <= span
       /\ window[j].type = "QOSDATA"
       /\ window[j].tmac = window[i].tmac /\ window[j].rmac = window[i].rmac

\* The gap to the next packet, or the previous one, at another time.
GapAfter(window, i) ==
  LET later == {j \in i + 1 .. Len(window) : Apart(window, i, j) # 0}
  IN  IF later = {} THEN 0
      ELSE Apart(window, i, CHOOSE j \in later : \A k \in later : j <= k)

GapBefore(window, i) ==
  LET earlier == {j \in 1 .. i - 1 : Apart(window, i, j) # 0}
  IN  IF earlier = {} THEN 0
      ELSE Apart(window, i, CHOOSE j \in earlier : \A k \in earlier : j >= k)

\* A slip: an ACK does not look for the CTS that has been charged already.
ExplainedByData(window, i) ==
  LET p == window[i] IN
  \E j \in IF p.type = "CTS" THEN i + 1 .. Len(window) ELSE 1 .. i - 1 :
    /\ Apart(window, i, j) <= DataWindow
    /\ window[j].type = "QOSDATA" /\ window[j].tmac = p.rmac

\* The data a CTS announces, or an ACK confirms, was heard; or a CTS stands
\* for the data of the ACK.
Explained(window, i) ==
  LET p == window[i] IN
  \E j \in IF p.type = "CTS" THEN i + 1 .. Len(window) ELSE 1 .. i - 1 :
    /\ Apart(window, i, j) <= DataWindow
    /\ \/ window[j].type = "QOSDATA" /\ window[j].tmac = p.rmac
       \/ p.type # "CTS" /\ window[j].type = "CTS" /\ window[j].rmac = p.rmac

\* What is charged for data that was not heard.
Hidden(window, i) ==
  LET p == window[i] IN
  CASE p.type = "CTS" /\ ~Explained(window, i) ->
         Lesser(p.duration, GapAfter(window, i))
    [] p.type \in {"ACK", "BLOCKACK"} /\ ~Explained(window, i) ->
         Lesser(MaxHidden, GapBefore(window, i))
    [] OTHER -> 0

Sum(f, n) ==
  LET sum[k \in 0 .. n] == IF k = 0 THEN 0 ELSE sum[k - 1] + f[k]
  IN  sum[n]

\* The numerator of the medium use, for each of the two measures.
HeardTime(window, span) ==
  Sum([i \in 1 .. Len(window) |->
         Airtime(window[i])
         - (IF Duplicate(window, i, span) THEN window[i].preamble ELSE 0)],
      Len(window))

HiddenTime(window) ==
  Sum([i \in 1 .. Len(window) |-> Hidden(window, i)], Len(window))

\* As a share of total, in units of 1 / Scale.
calculateCSATMU(window, total) ==
  IF Spoilt(window) THEN Inf
  ELSE (Scale * (HeardTime(window, DataWindow) + HiddenTime(window))) \div total

groundtruthMU(window, total) ==
  IF Spoilt(window) THEN Inf
  ELSE (Scale * HeardTime(window, DupWindow)) \div total
=============================================================================
