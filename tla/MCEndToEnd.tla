----------------------------- MODULE MCEndToEnd -----------------------------
(* A phone that attaches over a bad link. *)
EXTENDS EndToEnd, TLC

Ping == [len |-> 30, version |-> 4, hlen |-> 20, total |-> 30, protocol |-> 1,
         type |-> 8, length |-> 0, index |-> 0, same |-> TRUE, serial |-> 0]

\* A ping, the answer to one, one that is cut short, one of another protocol.
MCPackets == {Ping, [Ping EXCEPT !.type = 0], [Ping EXCEPT !.total = 31],
              [Ping EXCEPT !.protocol = 2]}

\* Three indices and two numbers of resource blocks of the tables of 36.213,
\* with the one size that is out of order.
MCTable == (0 :> <<56, 120>>) @@ (1 :> <<72, 144>>) @@ (2 :> <<328, 176>>)
MCMcs == [mcs \in 0 .. 2 |-> mcs]
MCIndices == 0 .. 2

\* --Downlink-NRB=1, and --Downlink-MCS=1.
MCRates == {[mcs |-> -1, nrb |-> 1], [mcs |-> 1, nrb |-> -1]}
=============================================================================
