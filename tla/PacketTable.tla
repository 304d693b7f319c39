--------------------------- MODULE PacketTable ---------------------------
(***************************************************************************)
(* What the downlink out queue promises its users, without its array: a    *)
(* table of packets under handles.  A packet is refused only when every    *)
(* handle is in use; deleting a (frame, subframe) removes exactly the      *)
(* packets due then and disturbs no other.                                 *)
(***************************************************************************)

CONSTANTS
  Handles,   (* the names a held packet can have *)
  Packets    (* records with at least the fields frame and subframe *)

VARIABLE held   (* a function from the handles in use to packets *)

DueAt(p, f, sf) == p.frame = f /\ p.subframe = sf

Init == held = [h \in {} |-> {}]

Keep(p) ==
  \/ \E h \in Handles \ DOMAIN held :
        held' = [x \in DOMAIN held \union {h} |-> IF x = h THEN p ELSE held[x]]
  \/ DOMAIN held = Handles /\ UNCHANGED held

Drop(f, sf) ==
  held' = [h \in {x \in DOMAIN held : ~ DueAt(held[x], f, sf)} |-> held[h]]

Next ==
  \/ \E p \in Packets : Keep(p)
  \/ \E p \in Packets : Drop(p.frame, p.subframe)

Spec == Init /\ [][Next]_held
==========================================================================
