----------------------------- MODULE HarqView -----------------------------
(***************************************************************************)
(* The downlink as a phone's HARQ processes see it.  The phone takes a     *)
(* data packet for new data when its NDI differs from that of the last     *)
(* packet of the same HARQ process, and for a retransmission otherwise.    *)
(* The scheduler stamps process and NDI when it queues a packet            *)
(* (updateHARQ); the phone sees the packets in the order of their          *)
(* subframes.                                                              *)
(***************************************************************************)
EXTENDS MacTx

VARIABLE phoneNdi   (* the NDI last seen by each HARQ process, -1 for none *)

harqViewVars == <<vars, phoneNdi>>

PhoneInit == Init /\ phoneNdi = [h \in 0 .. MaxHARQ - 1 |-> -1]

\* The data packets the current step hands to the PHY: at most one.
transmitted == {p \in buf' \ buf : p.kind \in Data}

PhoneNext ==
  /\ Next
  /\ phoneNdi' = [h \in DOMAIN phoneNdi |->
                    IF \E p \in transmitted : p.harq = h
                    THEN (CHOOSE p \in transmitted : p.harq = h).ndi
                    ELSE phoneNdi[h]]

PhoneSpec == PhoneInit /\ [][PhoneNext]_harqViewVars

\* "Toggle NDI for every consecutive DLSCH packet in the same HARQ"
\* (updateHARQ): a phone never takes a new packet for a retransmission.
NdiToggles ==
  [][\A p \in transmitted : p.ndi # phoneNdi[p.harq]]_harqViewVars
===========================================================================
