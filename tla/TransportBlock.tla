--------------------------- MODULE TransportBlock ---------------------------
(***************************************************************************)
(* The rate of a downlink block: the searches of MAC/mac_tx_helper.c in    *)
(* the tables of 36.213, and the selection in mac_tx_schedule_IP.  Sizes   *)
(* are in bits, as in the tables; -1 is "no block is large enough".        *)
(*                                                                         *)
(* The tables are constants.  Sizes do not grow everywhere: with index 6,  *)
(* one resource block carries 328 bits and two carry 176.                  *)
(***************************************************************************)
EXTENDS Integers

CONSTANTS
  tbs_table,            (* [index -> [resource blocks -> size]]              *)
  mcs_table,            (* [mcs -> index]; mcs_table[mcs][2]                 *)
  qpsk_interval,        (* the indices of QPSK; mcs_interval_table[0]        *)
  MaxNRB                (* columns of tbs_table; 23                          *)

ASSUME TransportBlockAssumption ==
  /\ MaxNRB \in Nat \ {0}
  /\ DOMAIN tbs_table \subseteq Nat
  /\ \A i \in DOMAIN tbs_table : tbs_table[i] \in [1 .. MaxNRB -> Nat \ {0}]
  /\ \A mcs \in DOMAIN mcs_table : mcs_table[mcs] \in DOMAIN tbs_table
  /\ qpsk_interval \subseteq DOMAIN tbs_table

TbsNone == -1

Least(S) == CHOOSE x \in S : \A y \in S : x <= y

\* A slip: the search ends at the largest index, whether or not it fits.
getTBSFromNRBUnchecked(NRB, len) ==
  LET fits == {i \in qpsk_interval : tbs_table[i][NRB] >= len \/ i + 1 \notin qpsk_interval}
  IN  tbs_table[Least(fits)][NRB]

\* The first index of the modulation at which NRB resource blocks carry len.
\* The caller always asks for QPSK.
getTBSFromNRB(NRB, len) ==
  LET fits == {i \in qpsk_interval : tbs_table[i][NRB] >= len}
  IN  IF fits = {} THEN TbsNone ELSE tbs_table[Least(fits)][NRB]

\* The first number of resource blocks that carries len with the mcs.
getTBSFromMCS(mcs, len) ==
  LET row == tbs_table[mcs_table[mcs]]
      fits == {n \in 1 .. MaxNRB : row[n] >= len}
  IN  IF mcs \in DOMAIN mcs_table /\ fits # {} THEN row[Least(fits)] ELSE TbsNone

\* What dnlinkMCS and dnlinkNRB, the options of the command line, make of a
\* packet: -1 is "not given".  Without either the size is fixed.
blockSize(rate, len) ==
  CASE rate.mcs >= 0 -> getTBSFromMCS(rate.mcs, len)
    [] rate.mcs < 0 /\ rate.nrb >= 0 -> getTBSFromNRB(rate.nrb, len)
    [] OTHER -> 153 * 8
=============================================================================
