------------------------------- MODULE IpTest -------------------------------
(***************************************************************************)
(* What the base station does with IP packets itself when it runs with     *)
(* --test-IP: ip(), icmp() and udp() of MAC/mac_msg_parsing.c.  It answers *)
(* pings and counts the packets of the generator Utils/NetTest/client.py,  *)
(* whose payload is the index of the packet, 0 .. 127 over and over.       *)
(*                                                                         *)
(* A packet is a record of what the code reads:                            *)
(*   len                     bytes received                                *)
(*   version, hlen, total    of the IP header (lengths in bytes)           *)
(*   protocol                1 ICMP, 17 UDP                                *)
(*   type                    of the ICMP header                            *)
(*   length                  of the UDP header                             *)
(*   index, same             first byte of the UDP payload, and whether    *)
(*                           all bytes are the same                        *)
(***************************************************************************)
EXTENDS Naturals

CONSTANTS
  IndexRange,    (* indices of test packets; 128                             *)
  WordMod,       (* udp_pkt_miss, an unsigned int: 2^32                      *)
  Room           (* outlen, the room for a reply; 2048                       *)

ASSUME IpTestAssumption ==
  /\ IndexRange \in Nat \ {0} /\ WordMod \in Nat \ {0} /\ Room \in Nat
  /\ WordMod % IndexRange = 0

----------------------------------------------------------------------------
\* The tests of ip() before it looks at the payload.
HeaderOk(p) ==
  /\ p.len >= 20
  /\ p.version = 4
  /\ p.hlen >= 20 /\ p.hlen <= p.len
  /\ p.total <= p.len

\* What icmp() puts behind the header: a ping is echoed, the rest is not.
icmp(p) ==
  IF /\ p.total >= p.hlen + 8
     /\ p.type = 8
     /\ Room >= p.total
  THEN p.total - p.hlen
  ELSE 0

\* The length of the reply, 0 for none.  A message that icmp() ignores is
\* answered all the same, with an IP header and no payload.
ip(p) ==
  IF HeaderOk(p) /\ p.protocol = 1 /\ p.hlen + icmp(p) <= Room
  THEN p.hlen + icmp(p)
  ELSE 0

\* udp() is reached and the packet has a payload.
Counted(p) ==
  /\ HeaderOk(p) /\ p.protocol = 17
  /\ p.total >= p.hlen + 8
  /\ p.length > 8

\* The payload is whole and its bytes are the same.
Good(p) == p.length - 8 <= p.total - p.hlen - 8 /\ p.same

\* A slip: the packet itself is counted as missing too.
missedTooMany(index, old) == (IndexRange + index - old) % IndexRange

\* ((128 + index - old_index) % 128) - 1, in an unsigned int.
missed(index, old) == ((IndexRange + index - old) % IndexRange) + WordMod - 1

\* udp(): a packet that is not good is only counted as an error.  last is a
\* history: the serial number of the packet counted last.
udp(p, stats) ==
  IF Counted(p) /\ Good(p)
  THEN [stats EXCEPT
          !.old_index = p.index,
          !.udp_pkt_rcvd = (@ + 1) % WordMod,
          !.udp_pkt_miss = (@ + missed(p.index, stats.old_index)) % WordMod,
          !.last = p.serial]
  ELSE stats
=============================================================================
