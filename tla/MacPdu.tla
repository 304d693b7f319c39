------------------------------- MODULE MacPdu -------------------------------
(***************************************************************************)
(* The MAC layer of MAC/mac_msg_parsing.c: mac_decode splits an uplink     *)
(* block into the SDUs of the logical channels, mac_encode packs the       *)
(* answers into a downlink block.                                          *)
(*                                                                         *)
(* A byte is an abstract unit, and messages are short.  A block is         *)
(*   head   its subheaders, records [lcid, e, length]: e is the extension  *)
(*          bit (0 in the last one), length the length field;              *)
(*   body   the units behind the subheaders.                               *)
(* Blocks are well formed: a subheader with e = 0 ends the head, and the   *)
(* length fields add up to no more than the body.  The code clips what     *)
(* does not, and holds no more than 100 subheaders.                        *)
(***************************************************************************)
EXTENDS Rlc

CONSTANTS
  ShortLength,     (* the largest length with a one-byte length field; 127   *)
  MaxAnswer        (* outlen, the room for a downlink block; 1050            *)

ASSUME MacPduAssumption ==
  ShortLength \in Nat /\ MaxAnswer \in Nat

\* The elements of s at the positions in K, in their order.  (A SelectSeq by
\* position, in a form that can be proved about.)
Selected(s, K) ==
  LET kept[k \in 0 .. Len(s)] ==
        IF k = 0 THEN <<>>
        ELSE IF k \in K THEN Append(kept[k - 1], s[k]) ELSE kept[k - 1]
  IN  kept[Len(s)]

Padding == 31
Smaller(a, b) == IF a < b THEN a ELSE b

\* The fixed lengths of the uplink control elements; 0 means not fixed.
lcid_length(lcid) ==
  CASE lcid \in 26 .. 29 -> 1
    [] lcid = 30 -> 3
    [] OTHER -> 0

----------------------------------------------------------------------------
\* The subheaders mac_decode reads: up to the first with e = 0.
Read(head) ==
  CHOOSE n \in 1 .. Len(head) :
    head[n].e = 0 /\ \A k \in 1 .. n - 1 : head[k].e = 1

\* What a subheader that is not the last says of the length of its part.
GivenLength(h) ==
  CASE h.lcid = Padding -> 0
    [] lcid_length(h.lcid) > 0 -> lcid_length(h.lcid)
    [] OTHER -> h.length

\* Where the part of each subheader starts: behind all the earlier ones,
\* those of control elements too.
Starts(head) ==
  LET start[k \in 1 .. Len(head)] ==
        IF k = 1 THEN 0 ELSE start[k - 1] + GivenLength(head[k - 1])
  IN  start

\* The last subheader has no length field: it takes what is left.
PartLength(pdu, k) ==
  LET h == pdu.head[k] IN
  IF h.e = 0 /\ h.lcid # Padding /\ lcid_length(h.lcid) = 0
  THEN Len(pdu.body) - Starts(pdu.head)[k]
  ELSE GivenLength(h)

\* The subheaders of SDUs: control elements and padding are not kept.
Sdus(head) == {k \in 1 .. Read(head) : head[k].lcid <= 10}

\* A slip: a control element does not move the start of what follows.
mac_decodeSkipsControl(pdu) ==
  LET sdu(k) == [lcid |-> pdu.head[k].lcid,
                 bytes |-> SubSeq(pdu.body, 1, PartLength(pdu, k))]
  IN  Selected([k \in 1 .. Read(pdu.head) |-> sdu(k)], Sdus(pdu.head))

\* The SDUs of a block.
mac_decode(pdu) ==
  LET start == Starts(pdu.head)
      sdu(k) == [lcid |-> pdu.head[k].lcid,
                 bytes |-> SubSeq(pdu.body, start[k] + 1,
                                  Smaller(start[k] + PartLength(pdu, k),
                                          Len(pdu.body)))]
  IN  Selected([k \in 1 .. Read(pdu.head) |-> sdu(k)], Sdus(pdu.head))

----------------------------------------------------------------------------
Bodies(sdus) ==
  LET cat[k \in 0 .. Len(sdus)] ==
        IF k = 0 THEN <<>> ELSE cat[k - 1] \o sdus[k].bytes
  IN  cat[Len(sdus)]

\* Every SDU has e = 1 and a length, and one padding subheader ends the head.
mac_encode(sdus) ==
  [head |-> [k \in 1 .. Len(sdus) |->
               [lcid |-> sdus[k].lcid, e |-> 1, length |-> Len(sdus[k].bytes)]]
            \o (IF sdus = <<>> THEN <<>>
                ELSE <<[lcid |-> Padding, e |-> 0, length |-> 0]>>),
   body |-> Bodies(sdus)]

SubheaderBytes(s) ==
  IF s.lcid > 10 THEN 1
  ELSE IF ByteLength(s.bytes) > ShortLength THEN 3 ELSE 2

HeadBytes(sdus) ==
  LET sum[k \in 0 .. Len(sdus)] ==
        IF k = 0 THEN 0 ELSE sum[k - 1] + SubheaderBytes(sdus[k])
  IN  sum[Len(sdus)] + 1

\* How many of the SDUs are complete in a block of size bytes.
Complete(sdus, size) ==
  LET fits(n) ==
        n = 0 \/ HeadBytes(sdus) + ByteLength(Bodies(SubSeq(sdus, 1, n))) <= size
  IN  CHOOSE n \in 0 .. Len(sdus) : fits(n) /\ \A m \in n + 1 .. Len(sdus) : ~fits(m)

\* The block on the air: what does not fit in the transport block is cut
\* off.  An SDU that is not complete is of no use and is left out here.
InBlock(sdus, size) ==
  [mac_encode(sdus) EXCEPT !.body = Bodies(SubSeq(sdus, 1, Complete(sdus, size)))]
=============================================================================
