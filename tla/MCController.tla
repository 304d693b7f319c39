---------------------------- MODULE MCController ----------------------------
(* A controller next to an access point "a" with one station "s". *)
EXTENDS Controller

MCSensing == -62

Frame == [hlen |-> 18, len |-> 40, rate |-> 8, behind |-> 8, rssi |-> -50, long |-> TRUE,
          type |-> "QOSDATA", from |-> "s", to |-> "a", duration |-> 0]

\* Data, control frames of the exchange, a beacon, a weak frame, and one that
\* is too short for its header.
MCFrames ==
  {Frame,
   [Frame EXCEPT !.hlen = 13, !.type = "BEACON", !.from = "a", !.to = "all"],
   [Frame EXCEPT !.type = "CTS", !.to = "s", !.duration = 90],
   [Frame EXCEPT !.hlen = 14, !.type = "ACK", !.to = "s"],
   [Frame EXCEPT !.rssi = -70],
   [Frame EXCEPT !.len = 0]}
=============================================================================
