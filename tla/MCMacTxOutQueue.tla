------------------------- MODULE MCMacTxOutQueue -------------------------
(* The out queue on its own: four slots, three due times, and two packets  *)
(* that can share a due time.                                              *)
EXTENDS MacTxOutQueue

MCPackets == [frame : {0, 1}, subframe : {2}, kind : {"a", "b"}]
               \union [frame : {0}, subframe : {4}, kind : {"a"}]
==========================================================================
