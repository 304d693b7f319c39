-------------------------- MODULE MCLteuDutyCycle --------------------------
(* Cycles of five subframes with one to five of them on, after an initial  *)
(* cycle of four.                                                          *)
EXTENDS LteuDutyCycle

MCOnTimes == 1 .. 5
============================================================================
