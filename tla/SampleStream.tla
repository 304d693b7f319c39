---------------------------- MODULE SampleStream ----------------------------
(***************************************************************************)
(* What the transmit side of the radio promises: a bounded FIFO.  The      *)
(* buffers of samples go on the air one by one in the order in which they  *)
(* were prepared, and at most Depth of them are under way.  Buffers are    *)
(* numbered modulo Chunks.                                                 *)
(***************************************************************************)
EXTENDS Naturals

CONSTANTS Chunks, Depth

VARIABLES
  prepared,   (* number of the next buffer to prepare       *)
  sent        (* number of the last buffer put on the air   *)

after(n) == (n + 1) % Chunks

underWay == (prepared + Chunks - after(sent)) % Chunks

Init == prepared = 0 /\ after(sent) = 0

Prepare ==
  /\ underWay < Depth
  /\ prepared' = after(prepared)
  /\ UNCHANGED sent

Send ==
  /\ underWay > 0
  /\ sent' = after(sent)
  /\ UNCHANGED prepared

Spec == Init /\ [][Prepare \/ Send]_<<prepared, sent>>
=============================================================================
