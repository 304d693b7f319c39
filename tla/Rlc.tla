-------------------------------- MODULE Rlc --------------------------------
(***************************************************************************)
(* The RLC and PDCP layers of MAC/mac_msg_parsing.c.                       *)
(*                                                                         *)
(* Logical channel 0 is transparent, channels 1 and 2 (signalling) are in  *)
(* acknowledged mode, 3 and up (IP) in unacknowledged mode.  A message is  *)
(* a sequence of units; a fragment of it is a sequence whose first unit is *)
(* the RLC header                                                          *)
(*   [kind |-> "rlc", dc, p, e, first, last, sn]                           *)
(* with dc "data" or "status" (always "data" on an unacknowledged channel),*)
(* p the poll bit and first, last the two bits of FI.                      *)
(*                                                                         *)
(* rlc_decode appends the fragments of a message in a buffer per channel.  *)
(* Only the part of the buffer below its index is ever read, so that part  *)
(* is the buffer here, and its length is the index.                        *)
(***************************************************************************)
EXTENDS Naturals, Sequences

CONSTANTS
  BufSize,       (* MAX_MAC_MSG_SIZE, 2048                                   *)
  IndexMod,      (* values of rlc_sdu_buffer_index, an unsigned char: 256    *)
  SnMod          (* rlc_tx_sn, as far as headers show it: 1024, 32           *)

ASSUME RlcAssumption ==
  /\ BufSize \in Nat \ {0}
  /\ IndexMod \in Nat \ {0} /\ IndexMod <= BufSize
  /\ SnMod \in Nat \ {0}

AM == {1, 2}

\* The bytes a unit stands for.  A message of the dialogue has its length in
\* rrc(), given in AnswerBytes; other units count for one byte.
AnswerBytes ==
  [setup |-> 8, identityRequest |-> 6, authenticationRequest |-> 38,
   nasSecurityCommand |-> 20, rrcSecurityCommand |-> 3,
   reconfiguration |-> 137, detachAccept |-> 11, release |-> 2]

Bytes(u) ==
  CASE u.kind = "msg" /\ u.type \in DOMAIN AnswerBytes -> AnswerBytes[u.type]
    [] u.kind = "msg" /\ u.type = "request" -> 6
    [] u.kind = "rlc" /\ (u.p \/ u.dc = "status") -> 2
    [] u.kind = "maci" -> 4
    [] u.kind = "net" -> u.size
    [] OTHER -> 1

ByteLength(bytes) ==
  LET sum[k \in 0 .. Len(bytes)] ==
        IF k = 0 THEN 0 ELSE sum[k - 1] + Bytes(bytes[k])
  IN  sum[Len(bytes)]

----------------------------------------------------------------------------
\* A slip: the index wraps one value later.
StoredIndexLate(n) == (IF n < BufSize THEN n ELSE BufSize) % (IndexMod + 1)

\* *buffer_index = min(2048, ...), stored in an unsigned char.
StoredIndex(n) == (IF n < BufSize THEN n ELSE BufSize) % IndexMod

\* A slip: a first fragment does not start the buffer afresh.
reassembleKeeps(buf, first, bytes) ==
  SubSeq(buf \o bytes, 1, StoredIndex(Len(buf \o bytes)))

\* The buffer after a fragment: a first one starts it afresh.  What the
\* index no longer counts is lost.
reassemble(buf, first, bytes) ==
  LET joined == (IF first THEN <<>> ELSE buf) \o bytes
  IN  SubSeq(joined, 1, StoredIndex(Len(joined)))

\* A fragment with the extension bit is dropped (errFrag).  SNs are read and
\* used for the status report only; a status from the phone is ignored.
\* rx is what end_to_end keeps of a channel: the buffer of the channel, and
\* the SN and the poll flag of the last acknowledged-mode fragment of the
\* block, on any channel.
rlc_decode(lcid, bytes, rx) ==
  IF lcid = 0 THEN [rx |-> rx, out |-> bytes]
  ELSE LET h == Head(bytes)
           seen == IF lcid \in AM THEN [rx EXCEPT !.sn = h.sn, !.poll = h.p] ELSE rx
           buf == reassemble(rx.buf, h.first, Tail(bytes))
       IN  IF h.dc = "status" THEN [rx |-> rx, out |-> <<>>]
           ELSE IF h.e = 1 THEN [rx |-> seen, out |-> <<>>]
           ELSE [rx |-> [seen EXCEPT !.buf = buf],
                 out |-> IF h.last THEN buf ELSE <<>>]

\* Data goes down unfragmented, and every signalling message is polled.
rlc_encode(lcid, sn, bytes) ==
  IF lcid = 0 \/ lcid >= 28 THEN bytes
  ELSE <<[kind |-> "rlc", dc |-> "data", p |-> lcid \in AM, e |-> 0,
          first |-> TRUE, last |-> TRUE, sn |-> sn]>> \o bytes

\* A slip: unacknowledged channels do not count.
nextSnAMOnly(lcid, sn) == IF lcid \in AM THEN (sn + 1) % SnMod ELSE sn

\* rlc_tx_sn after rlc_encode.
nextSn(lcid, sn) == IF lcid = 0 \/ lcid >= 28 THEN sn ELSE (sn + 1) % SnMod

\* The status report for the SN seen last: it acknowledges all before sn.
StatusReport(sn) ==
  <<[kind |-> "rlc", dc |-> "status", p |-> FALSE, e |-> 0,
     first |-> TRUE, last |-> TRUE, sn |-> (sn + 1) % SnMod]>>

----------------------------------------------------------------------------
\* PDCP frames a signalling message with a header and a MAC-I, an IP packet
\* with a header that tells data from control.
PdcpData == [kind |-> "pdcp", data |-> TRUE]
PdcpControl == [kind |-> "pdcp", data |-> FALSE]
MacI == [kind |-> "maci"]

pdcp_decode(lcid, bytes) ==
  CASE bytes = <<>> \/ lcid = 0 -> bytes
    [] lcid \in AM -> SubSeq(bytes, 2, Len(bytes) - 1)
    [] OTHER -> IF Head(bytes) = PdcpControl THEN <<>> ELSE Tail(bytes)

pdcp_encode(lcid, bytes) ==
  CASE lcid = 0 \/ lcid >= 28 -> bytes
    [] lcid \in AM -> <<PdcpData>> \o bytes \o <<MacI>>
    [] OTHER -> <<PdcpData>> \o bytes
=============================================================================
